----------------------------- MODULE PagesProofs -----------------------------
(***************************************************************************)
(* Proofs about the applications on the desktop: the windows and the stage *)
(* they lie on, the browser and the two stacks it implements, the wallet   *)
(* window, the visitor's session, the activity of a reply, the wishes, the *)
(* music and the dates -- each for every value of its constants, and all   *)
(* of them for Pages.                                                      *)
(***************************************************************************)
EXTENDS Pages, SequenceTheorems, FiniteSetTheorems, WellFoundedInduction, TLAPS

\* Every set of numbers that has a member has a least one.
LEMMA Least ==
    ASSUME NEW S \in SUBSET Nat, S # {}
    PROVE  \E n \in S : \A m \in S : n <= m
  <1> DEFINE Smaller2 == OpToRel(<, Nat)
  <1>1. IsWellFoundedOn(Smaller2, Nat)
    BY NatLessThanWellFounded
  <1>2. \A a, b \in Nat : <<a, b>> \in Smaller2 <=> a < b
    BY DEF OpToRel
  <1> HIDE DEF Smaller2
  <1>3. PICK n \in S : \A m \in S : ~(<<m, n>> \in Smaller2)
    BY <1>1, WFMin
  <1>4. ASSUME NEW m \in S PROVE n <= m
    <2>1. m \in Nat /\ n \in Nat /\ ~(m < n)
      BY <1>2, <1>3
    <2> QED BY <2>1
  <1> QED BY <1>3, <1>4

\* And a greatest one, if it has a bound.
LEMMA Greatest ==
    ASSUME NEW S \in SUBSET Nat, S # {}, NEW b \in Nat, \A m \in S : m <= b
    PROVE  \E n \in S : \A m \in S : m <= n
  <1> DEFINE T == {k \in Nat : \E m \in S : k = b - m}
  <1>0. \A m \in S : b - m \in Nat
    OBVIOUS
  <1>1. T \in SUBSET Nat /\ T # {}
    BY <1>0
  <1>2. PICK t \in T : \A u \in T : t <= u
    BY <1>1, Least
  <1>3. PICK n \in S : t = b - n
    BY <1>2
  <1>4. ASSUME NEW m \in S PROVE m <= n
    <2>1. b - m \in T
      BY <1>0
    <2>2. t <= b - m
      BY <1>2, <2>1
    <2> HIDE DEF T
    <2>3. m \in Nat /\ n \in Nat
      OBVIOUS
    <2> QED BY <1>3, <2>2, <2>3
  <1> QED BY <1>4

-----------------------------------------------------------------------------
(* The windows of the desktop.                                             *)

OpenIds(list) == {list[i].id : i \in 1..Len(list)}

\* A task bar whose windows are below a height, each of its own application and
\* at a height of its own.
BarOK(list, top) ==
    /\ list \in Seq(Window) /\ top \in 0..MaxZ
    /\ \A i \in 1..Len(list) : list[i].z <= top
    /\ \A i, j \in 1..Len(list) : i # j => list[i].id # list[j].id /\ list[i].z # list[j].z

\* What was brought to the front is the highest of all, the hidden ones included.
FrontOnTop(list, top, f) ==
    /\ f \in Apps \cup {"none"}
    /\ \A i \in 1..Len(list) : list[i].id = f => list[i].z = top

BarInv == BarOK(windows, zTop) /\ FrontOnTop(windows, zTop, front)

\* The mode is shown only once the load at mount is over.
ModeInv == ModeTypeOK /\ (IsShown => Ready)

PageInv ==
    /\ page \in {"desktop", "site"} /\ panel \in Panels
    /\ previousMode \in {"unset", "shown", "hidden"}
    /\ query \in Queries /\ launched \in Queries \cup {"unset"}
    /\ playing \in BOOLEAN /\ dismissed \in SUBSET Apps
    /\ page = "site" => dismissed = {} /\ windows = <<>> /\ previousMode = "unset"

\* What is open, for each of the properties about it: an effect that is still to
\* run opens nothing that was closed, and our space is open only while the mode
\* is shown or its end has not been seen.
OpenInv ==
    /\ OpenIds(windows) \cap dismissed = {}
    /\ launched # query => query \notin dismissed
    /\ previousMode # "shown" \/ ~IsShown => "our-space" \notin dismissed
    /\ "our-space" \in OpenIds(windows) => IsShown \/ previousMode = "shown"
    /\ page = "desktop" /\ playing => "music" \in OpenIds(windows)

DesktopInv == BarInv /\ ModeInv /\ PageInv /\ OpenInv

LEMMA AppsAre ==
    /\ "agent" \in Apps /\ "music" \in Apps /\ "our-space" \in Apps
    /\ "none" \notin Apps /\ NoQuery \notin Apps
    /\ \A q \in Queries : q # NoQuery => q \in Apps /\ q # "our-space"
  BY DesktopAssumption DEF Apps, Queries, NoQuery

LEMMA BarIs ==
    ASSUME NEW list, NEW top, BarOK(list, top)
    PROVE  /\ Len(list) \in Nat /\ DOMAIN list = 1..Len(list) /\ top \in Nat
           /\ \A i \in 1..Len(list) : list[i] \in Window /\ list[i].z \in Nat
                 /\ list[i].id \in Apps
  <1>1. list \in Seq(Window) /\ top \in Nat
    BY DesktopAssumption DEF BarOK
  <1>2. /\ Len(list) \in Nat /\ DOMAIN list = 1..Len(list)
        /\ \A i \in 1..Len(list) : list[i] \in Window
    BY <1>1, LenProperties, ElementOfSeq
  <1>3. \A w \in Window : w.z \in Nat /\ w.id \in Apps
    BY DesktopAssumption DEF Window
  <1> QED BY <1>1, <1>2, <1>3

\* A window that is moved, hidden, or new is a window.
LEMMA WindowIs ==
    ASSUME NEW z \in 0..MaxZ
    PROVE  /\ \A id \in Apps : /\ NewWindow(id, z) \in Window /\ NewWindow(id, z).id = id
                               /\ NewWindow(id, z).z = z
           /\ \A w \in Window :
                 /\ [w EXCEPT !.z = z, !.minimized = FALSE] \in Window
                 /\ [w EXCEPT !.z = z, !.minimized = FALSE].id = w.id
                 /\ [w EXCEPT !.z = z, !.minimized = FALSE].z = z
  BY DEF Window, NewWindow

LEMMA HiddenIs ==
    ASSUME NEW w \in Window, NEW b \in BOOLEAN
    PROVE  /\ [w EXCEPT !.minimized = b] \in Window
           /\ [w EXCEPT !.minimized = b].id = w.id /\ [w EXCEPT !.minimized = b].z = w.z
  BY DEF Window

\* Windows that stay in their places of the bar.
LEMMA BarKept ==
    ASSUME NEW list, NEW top, BarOK(list, top), NEW next, DOMAIN next = DOMAIN list,
           next = [i \in DOMAIN list |-> next[i]],
           \A i \in 1..Len(list) : /\ next[i] \in Window /\ next[i].id = list[i].id
                                   /\ next[i].z = list[i].z
    PROVE  /\ BarOK(next, top) /\ Len(next) = Len(list) /\ OpenIds(next) = OpenIds(list)
           /\ \A f : FrontOnTop(list, top, f) => FrontOnTop(next, top, f)
  <1>1. Len(list) \in Nat /\ DOMAIN list = 1..Len(list)
    BY BarIs
  <1>2. next \in [1..Len(list) -> Window]
    BY <1>1
  <1>3. next \in Seq(Window) /\ Len(next) = Len(list)
    BY <1>1, <1>2, IsASeq, LenProperties
  <1>4. BarOK(next, top)
    BY <1>3 DEF BarOK
  <1>5. OpenIds(next) = OpenIds(list)
    BY <1>3 DEF OpenIds
  <1>6. \A f : FrontOnTop(list, top, f) => FrontOnTop(next, top, f)
    BY <1>3 DEF FrontOnTop
  <1> QED BY <1>3, <1>4, <1>5, <1>6

\* One of them is raised above all.
LEMMA BarRaised ==
    ASSUME NEW list, NEW top, BarOK(list, top), top < MaxZ, NEW id \in OpenIds(list),
           NEW next, DOMAIN next = DOMAIN list, next = [i \in DOMAIN list |-> next[i]],
           \A i \in 1..Len(list) :
              /\ next[i] \in Window /\ next[i].id = list[i].id
              /\ list[i].id = id => next[i].z = top + 1
              /\ list[i].id # id => next[i].z = list[i].z
    PROVE  /\ BarOK(next, top + 1) /\ OpenIds(next) = OpenIds(list)
           /\ FrontOnTop(next, top + 1, id)
  <1>1. /\ Len(list) \in Nat /\ DOMAIN list = 1..Len(list) /\ top \in Nat
        /\ \A i \in 1..Len(list) : list[i] \in Window /\ list[i].z \in Nat /\ list[i].id \in Apps
    BY BarIs
  <1>2. top + 1 \in 0..MaxZ
    BY <1>1, DesktopAssumption
  <1>6. next \in Seq(Window) /\ Len(next) = Len(list)
    <2>1. next \in [1..Len(list) -> Window]
      BY <1>1
    <2> QED BY <1>1, <2>1, IsASeq, LenProperties
  <1>7. BarOK(next, top + 1)
    <2>1. \A i \in 1..Len(list) : list[i].z <= top
      BY DEF BarOK
    <2>2. \A i \in 1..Len(list) : next[i].z <= top + 1
      BY <1>1, <2>1
    <2>3. ASSUME NEW i \in 1..Len(list), NEW j \in 1..Len(list), i # j
          PROVE  next[i].id # next[j].id /\ next[i].z # next[j].z
      <3>1. list[i].id # list[j].id /\ list[i].z # list[j].z
        BY <2>3 DEF BarOK
      <3> QED BY <1>1, <2>1, <3>1
    <2> QED BY <1>2, <1>6, <2>2, <2>3 DEF BarOK
  <1>8. OpenIds(next) = OpenIds(list) /\ id \in Apps
    BY <1>1, <1>6 DEF OpenIds
  <1>9. FrontOnTop(next, top + 1, id)
    BY <1>6, <1>8 DEF FrontOnTop
  <1> QED BY <1>7, <1>8, <1>9

\* A new one is placed above all.
LEMMA BarGrows ==
    ASSUME NEW list, NEW top, BarOK(list, top), top < MaxZ,
           NEW id \in Apps, id \notin OpenIds(list)
    PROVE  /\ BarOK(Append(list, NewWindow(id, top + 1)), top + 1)
           /\ OpenIds(Append(list, NewWindow(id, top + 1))) = OpenIds(list) \cup {id}
           /\ FrontOnTop(Append(list, NewWindow(id, top + 1)), top + 1, id)
  <1> DEFINE w == NewWindow(id, top + 1)
             next == Append(list, w)
  <1>1. /\ Len(list) \in Nat /\ top \in Nat /\ list \in Seq(Window)
        /\ \A i \in 1..Len(list) : list[i] \in Window /\ list[i].z \in Nat /\ list[i].z <= top
    BY BarIs DEF BarOK
  <1>2. top + 1 \in 0..MaxZ
    BY <1>1, DesktopAssumption
  <1>3. w \in Window /\ w.id = id /\ w.z = top + 1
    BY <1>2, WindowIs
  <1> HIDE DEF w
  <1>4. /\ next \in Seq(Window) /\ Len(next) = Len(list) + 1
        /\ \A i \in 1..Len(list) : next[i] = list[i]
        /\ next[Len(list) + 1] = w
    BY <1>1, <1>3, AppendProperties
  <1> HIDE DEF next
  <1>5. \A i \in 1..Len(next) : (i \in 1..Len(list) /\ next[i] = list[i])
                                \/ (i = Len(list) + 1 /\ next[i] = w)
    BY <1>1, <1>4
  <1>6. \A i \in 1..Len(list) : list[i].id # id
    BY DEF OpenIds
  <1>7. BarOK(next, top + 1)
    <2>1. \A i \in 1..Len(next) : next[i].z <= top + 1
      BY <1>1, <1>3, <1>5
    <2>2. ASSUME NEW i \in 1..Len(next), NEW j \in 1..Len(next), i # j
          PROVE  next[i].id # next[j].id /\ next[i].z # next[j].z
      <3>1. CASE i \in 1..Len(list) /\ j \in 1..Len(list)
        BY <1>4, <2>2, <3>1 DEF BarOK
      <3>2. CASE i \in 1..Len(list) /\ j = Len(list) + 1
        BY <1>1, <1>3, <1>4, <1>6, <3>2
      <3>3. CASE i = Len(list) + 1 /\ j \in 1..Len(list)
        BY <1>1, <1>3, <1>4, <1>6, <3>3
      <3> QED BY <1>5, <2>2, <3>1, <3>2, <3>3
    <2> QED BY <1>2, <1>4, <2>1, <2>2 DEF BarOK
  <1>8. OpenIds(next) = OpenIds(list) \cup {id}
    <2>1. Len(list) + 1 \in 1..Len(next) /\ \A i \in 1..Len(list) : i \in 1..Len(next)
      BY <1>1, <1>4
    <2>2. OpenIds(next) \subseteq OpenIds(list) \cup {id}
      BY <1>3, <1>5 DEF OpenIds
    <2>3. id \in OpenIds(next)
      BY <1>3, <1>4, <2>1 DEF OpenIds
    <2>4. OpenIds(list) \subseteq OpenIds(next)
      BY <1>4, <2>1 DEF OpenIds
    <2> QED BY <2>2, <2>3, <2>4
  <1>9. FrontOnTop(next, top + 1, id)
    BY <1>3, <1>5, <1>6 DEF FrontOnTop
  <1> QED BY <1>7, <1>8, <1>9 DEF next, w

\* A closed one leaves the others as they were.
LEMMA BarShrinks ==
    ASSUME BarOK(windows, zTop), NEW id
    PROVE  /\ BarOK(Without(id), zTop) /\ OpenIds(Without(id)) = OpenIds(windows) \ {id}
           /\ \A f : FrontOnTop(windows, zTop, f) => FrontOnTop(Without(id), zTop, f)
  <1>1. /\ Len(windows) \in Nat /\ DOMAIN windows = 1..Len(windows) /\ windows \in Seq(Window)
    BY BarIs DEF BarOK
  <1>2. CASE ~IsOpen(id)
    <2>1. Without(id) = windows
      BY <1>2 DEF Without
    <2>2. id \notin OpenIds(windows)
      BY <1>1, <1>2 DEF IsOpen, OpenIds
    <2> QED BY <2>1, <2>2
  <1>3. CASE IsOpen(id)
    <2> DEFINE k == CHOOSE i \in DOMAIN windows : windows[i].id = id
               next == RemoveAt(windows, k)
    <2>1. k \in 1..Len(windows) /\ windows[k].id = id
      BY <1>1, <1>3 DEF IsOpen
    <2>2. Without(id) = next
      BY <1>3 DEF Without
    <2> HIDE DEF k
    <2> DEFINE before == SubSeq(windows, 1, k - 1)
               after == SubSeq(windows, k + 1, Len(windows))
    <2>3. /\ before \in Seq(Window) /\ Len(before) = k - 1
          /\ \A j \in 1..k - 1 : before[j] = windows[j]
      <3>1. /\ 1 \in 1..Len(windows) + 1 /\ k - 1 \in 1 - 1..Len(windows)
            /\ k - 1 - 1 + 1 = k - 1 /\ \A j \in 1..k - 1 : 1 + j - 1 = j
        BY <1>1, <2>1
      <3> QED BY <1>1, <2>1, <3>1, SubSeqProperties
    <2>4. /\ after \in Seq(Window) /\ Len(after) = Len(windows) - k
          /\ \A j \in 1..Len(windows) - k : after[j] = windows[k + j]
      <3>1. /\ k + 1 \in 1..Len(windows) + 1 /\ Len(windows) \in k + 1 - 1..Len(windows)
            /\ Len(windows) - (k + 1) + 1 = Len(windows) - k
            /\ \A j \in 1..Len(windows) - k : k + 1 + j - 1 = k + j
        BY <1>1, <2>1
      <3>2. /\ after \in Seq(Window) /\ Len(after) = Len(windows) - (k + 1) + 1
            /\ \A j \in 1..Len(windows) - (k + 1) + 1 : after[j] = windows[k + 1 + j - 1]
        BY <1>1, <3>1, SubSeqProperties
      <3> QED BY <3>1, <3>2
    <2>5. next = before \o after
      BY DEF RemoveAt
    <2> HIDE DEF next, before, after
    <2>6. /\ next \in Seq(Window) /\ Len(next) = Len(windows) - 1
          /\ \A j \in 1..Len(next) : next[j] = IF j < k THEN windows[j] ELSE windows[j + 1]
      <3>1. /\ next \in Seq(Window) /\ Len(next) = Len(before) + Len(after)
            /\ \A j \in 1..Len(before) + Len(after) :
                  next[j] = IF j <= Len(before) THEN before[j] ELSE after[j - Len(before)]
        BY <2>3, <2>4, <2>5, ConcatProperties
      <3>2. Len(next) = Len(windows) - 1
        BY <1>1, <2>1, <2>3, <2>4, <3>1
      <3>3. ASSUME NEW j \in 1..Len(next)
            PROVE  next[j] = IF j < k THEN windows[j] ELSE windows[j + 1]
        <4>1. next[j] = IF j <= Len(before) THEN before[j] ELSE after[j - Len(before)]
          BY <3>1
        <4>2. CASE j < k
          <5>1. j <= Len(before) /\ j \in 1..k - 1
            BY <2>1, <2>3, <4>2
          <5> QED BY <2>3, <4>1, <4>2, <5>1
        <4>3. CASE ~(j < k)
          <5>1. /\ ~(j <= Len(before)) /\ j - Len(before) \in 1..Len(windows) - k
                /\ k + (j - Len(before)) = j + 1
            BY <1>1, <2>1, <2>3, <3>2, <4>3
          <5>2. after[j - Len(before)] = windows[j + 1]
            BY <2>4, <5>1
          <5> QED BY <4>1, <4>3, <5>1, <5>2
        <4> QED BY <4>2, <4>3
      <3> QED BY <3>1, <3>2, <3>3
    <2> DEFINE from(j) == IF j < k THEN j ELSE j + 1
    <2>7. \A j \in 1..Len(next) :
             from(j) \in 1..Len(windows) /\ from(j) # k /\ next[j] = windows[from(j)]
      BY <1>1, <2>1, <2>6
    <2>8. \A i, j \in 1..Len(next) : i # j => from(i) # from(j)
      BY <1>1, <2>1, <2>6
    <2>9. \A i \in 1..Len(windows) : i # k => \E j \in 1..Len(next) : from(j) = i
      <3>1. ASSUME NEW i \in 1..Len(windows), i < k PROVE i \in 1..Len(next) /\ from(i) = i
        BY <1>1, <2>1, <2>6, <3>1
      <3>2. ASSUME NEW i \in 1..Len(windows), k < i
            PROVE  i - 1 \in 1..Len(next) /\ from(i - 1) = i
        BY <1>1, <2>1, <2>6, <3>2
      <3> QED BY <2>1, <3>1, <3>2
    <2> HIDE DEF from
    <2>10. BarOK(next, zTop)
      BY <2>6, <2>7, <2>8 DEF BarOK
    <2>11. OpenIds(next) = OpenIds(windows) \ {id}
      <3>1. \A i \in 1..Len(windows) : i # k => windows[i].id # id
        BY <2>1 DEF BarOK
      <3>2. OpenIds(next) \subseteq OpenIds(windows) \ {id}
        BY <2>7, <3>1 DEF OpenIds
      <3>3. OpenIds(windows) \ {id} \subseteq OpenIds(next)
        <4>1. ASSUME NEW i \in 1..Len(windows), windows[i].id # id
              PROVE  \E j \in 1..Len(next) : next[j] = windows[i]
          <5>1. PICK j \in 1..Len(next) : from(j) = i
            BY <2>1, <2>9, <4>1
          <5> QED BY <2>7, <5>1
        <4> QED BY <4>1 DEF OpenIds
      <3> QED BY <3>2, <3>3
    <2>12. \A f : FrontOnTop(windows, zTop, f) => FrontOnTop(next, zTop, f)
      BY <2>7 DEF FrontOnTop
    <2> QED BY <2>2, <2>10, <2>11, <2>12
  <1> QED BY <1>2, <1>3
LEMMA FirstBar ==
    /\ BarOK(<<NewWindow("agent", 1)>>, 1) /\ FrontOnTop(<<NewWindow("agent", 1)>>, 1, "agent")
    /\ OpenIds(<<NewWindow("agent", 1)>>) = {"agent"}
    /\ BarOK(<<NewWindow("agent", 1), NewWindow("music", 2)>>, 2)
    /\ FrontOnTop(<<NewWindow("agent", 1), NewWindow("music", 2)>>, 2, "music")
    /\ OpenIds(<<NewWindow("agent", 1), NewWindow("music", 2)>>) = {"agent", "music"}
  <1> DEFINE a == NewWindow("agent", 1)
             m == NewWindow("music", 2)
  <1>1. /\ a \in Window /\ a.id = "agent" /\ a.z = 1 /\ m \in Window /\ m.id = "music" /\ m.z = 2
    <2>1. 1 \in 0..MaxZ /\ 2 \in 0..MaxZ
      BY DesktopAssumption
    <2> QED BY <2>1, AppsAre, WindowIs
  <1> HIDE DEF a, m
  <1>2. 1 \in 0..MaxZ /\ 2 \in 0..MaxZ
    BY DesktopAssumption
  <1>3. <<a>> \in Seq(Window) /\ Len(<<a>>) = 1 /\ <<a>>[1] = a
    BY <1>1
  <1>4. /\ <<a, m>> \in Seq(Window) /\ Len(<<a, m>>) = 2
        /\ <<a, m>>[1] = a /\ <<a, m>>[2] = m
    BY <1>1
  <1>5. BarOK(<<a>>, 1)
    BY <1>1, <1>2, <1>3 DEF BarOK
  <1>6. BarOK(<<a, m>>, 2)
    BY <1>1, <1>2, <1>4 DEF BarOK
  <1>7. OpenIds(<<a>>) = {"agent"}
    BY <1>1, <1>3 DEF OpenIds
  <1>8. OpenIds(<<a, m>>) = {"agent", "music"}
    BY <1>1, <1>4 DEF OpenIds
  <1>9. FrontOnTop(<<a>>, 1, "agent") /\ FrontOnTop(<<a, m>>, 2, "music")
    BY <1>1, <1>3, <1>4, AppsAre DEF FrontOnTop
  <1> QED BY <1>5, <1>6, <1>7, <1>8, <1>9 DEF a, m

LEMMA NoBar ==
    BarOK(<<>>, 0) /\ FrontOnTop(<<>>, 0, "none") /\ OpenIds(<<>>) = {}
  <1>1. <<>> \in Seq(Window) /\ Len(<<>>) = 0 /\ 0 \in 0..MaxZ
    BY DesktopAssumption
  <1> QED BY <1>1 DEF BarOK, FrontOnTop, OpenIds

LEMMA DesktopFirst == DesktopInit => DesktopInv
  <1> SUFFICES ASSUME DesktopInit PROVE DesktopInv
    OBVIOUS
  <1>1. windows = <<NewWindow("agent", 1)>> /\ zTop = 1 /\ front = "agent"
    BY DEF DesktopInit, InitialWindows
  <1>2. BarInv /\ OpenIds(windows) = {"agent"}
    BY <1>1, FirstBar DEF BarInv
  <1>3. ModeInv
    BY CookieAssumption DEF DesktopInit, ModeInit, ModeInv, ModeTypeOK, Locked, IsShown
  <1>4. PageInv
    BY DEF DesktopInit, PageInv, Panels
  <1>5. OpenInv
    BY <1>2, Zenon DEF DesktopInit, OpenInv
  <1> QED BY <1>2, <1>3, <1>4, <1>5 DEF DesktopInv

LEMMA OpenIs ==
    ASSUME BarOK(windows, zTop), NEW id
    PROVE  IsOpen(id) <=> id \in OpenIds(windows)
  <1>1. DOMAIN windows = 1..Len(windows)
    BY BarIs
  <1> QED BY <1>1 DEF IsOpen, OpenIds

\* The windows that are seen are open, and our space only in its mode.
LEMMA SeenIs ==
    ASSUME BarOK(windows, zTop)
    PROVE  /\ \A w \in ModeWindows : w.id \in OpenIds(windows) /\ (w.id = "our-space" => IsShown)
           /\ Visible \subseteq ModeWindows
  <1>1. DOMAIN windows = 1..Len(windows)
    BY BarIs
  <1> QED BY <1>1 DEF ModeWindows, Visible, OpenIds, ToSet

\* A window is brought to the front, and windows are hidden.
Lifts(list, id, z) ==
    [i \in DOMAIN list |->
        IF list[i].id = id THEN [list[i] EXCEPT !.z = z, !.minimized = FALSE] ELSE list[i]]

LEMMA RaisedIs ==
    ASSUME BarInv, zTop < MaxZ, NEW id \in OpenIds(windows), zTop' = zTop + 1, front' = id,
           windows' = Lifts(windows, id, zTop')
    PROVE  BarInv' /\ OpenIds(windows') = OpenIds(windows)
  <1>1. BarOK(windows, zTop)
    BY DEF BarInv
  <1>2. /\ Len(windows) \in Nat /\ DOMAIN windows = 1..Len(windows) /\ zTop \in Nat
        /\ \A i \in 1..Len(windows) : windows[i] \in Window
    BY <1>1, BarIs
  <1> DEFINE raised(w) == [w EXCEPT !.z = zTop', !.minimized = FALSE]
  <1>3. zTop' \in 0..MaxZ
    <2> HIDE DEF raised
    <2>1. zTop' = zTop + 1 /\ zTop < MaxZ
      OBVIOUS
    <2> QED BY <1>2, <2>1, DesktopAssumption
  <1>4. \A w \in Window : raised(w) \in Window /\ raised(w).id = w.id /\ raised(w).z = zTop'
    BY <1>3, WindowIs, Zenon
  <1>5. windows' = [i \in 1..Len(windows) |-> IF windows[i].id = id
           THEN raised(windows[i]) ELSE windows[i]]
    BY <1>2 DEF Lifts
  <1> HIDE DEF raised
  <1>6. /\ DOMAIN windows' = DOMAIN windows /\ windows' = [i \in DOMAIN windows |-> windows'[i]]
        /\ \A i \in 1..Len(windows) :
              /\ windows'[i] \in Window /\ windows'[i].id = windows[i].id
              /\ windows[i].id = id => windows'[i].z = zTop + 1
              /\ windows[i].id # id => windows'[i].z = windows[i].z
    BY <1>2, <1>4, <1>5
  <1>7. /\ BarOK(windows', zTop + 1) /\ OpenIds(windows') = OpenIds(windows)
        /\ FrontOnTop(windows', zTop + 1, id)
    BY <1>1, <1>6, BarRaised
  <1>8. BarOK(windows', zTop') /\ FrontOnTop(windows', zTop', front')
    BY <1>7
  <1> QED BY <1>7, <1>8, Zenon DEF BarInv

LEMMA HidesSome ==
    ASSUME NEW list, NEW top, BarOK(list, top),
           NEW next, DOMAIN next = DOMAIN list, next = [i \in DOMAIN list |-> next[i]],
           \A i \in 1..Len(list) :
              \E b \in BOOLEAN : next[i] = [list[i] EXCEPT !.minimized = b]
    PROVE  /\ BarOK(next, top) /\ Len(next) = Len(list) /\ OpenIds(next) = OpenIds(list)
           /\ \A f : FrontOnTop(list, top, f) => FrontOnTop(next, top, f)
  <1>1. \A i \in 1..Len(list) : list[i] \in Window
    BY BarIs
  <1>2. \A i \in 1..Len(list) : /\ next[i] \in Window /\ next[i].id = list[i].id
                                /\ next[i].z = list[i].z
    <2>1. ASSUME NEW i \in 1..Len(list)
          PROVE  next[i] \in Window /\ next[i].id = list[i].id /\ next[i].z = list[i].z
      <3>1. PICK b \in BOOLEAN : next[i] = [list[i] EXCEPT !.minimized = b]
        BY Zenon
      <3>2. list[i] \in Window
        BY <1>1
      <3>3. /\ [list[i] EXCEPT !.minimized = b] \in Window
            /\ [list[i] EXCEPT !.minimized = b].id = list[i].id
            /\ [list[i] EXCEPT !.minimized = b].z = list[i].z
        BY <3>2, HiddenIs, Zenon
      <3> QED BY <3>1, <3>3, Zenon
    <2> QED BY <2>1
  <1> QED BY <1>2, BarKept

\* An application is opened or brought to the front.
LEMMA OpenedIs ==
    ASSUME BarInv, zTop < MaxZ, NEW id \in Apps, Opened(id)
    PROVE  BarInv' /\ OpenIds(windows') = OpenIds(windows) \cup {id}
  <1>1. BarOK(windows, zTop) /\ zTop' = zTop + 1 /\ front' = id
    BY DEF BarInv, Opened
  <1>3. CASE IsOpen(id)
    <2>1. windows' = Lifts(windows, id, zTop')
      BY <1>3 DEF Opened, Change, Lifts
    <2>2. id \in OpenIds(windows)
      BY <1>1, <1>3, OpenIs
    <2>3. BarInv' /\ OpenIds(windows') = OpenIds(windows)
      BY <1>1, <2>1, <2>2, RaisedIs, Zenon
    <2> QED BY <2>2, <2>3
  <1>4. CASE ~IsOpen(id)
    <2>1. windows' = Append(windows, NewWindow(id, zTop + 1)) /\ id \notin OpenIds(windows)
      BY <1>1, <1>4, OpenIs DEF Opened
    <2> QED BY <1>1, <2>1, BarGrows DEF BarInv
  <1> QED BY <1>3, <1>4

\* What the bar holds when the window of a name is changed or gone.
LEMMA NewFront ==
    ASSUME NEW list, NEW top, NEW id \in Apps, NEW f, FrontOnTop(list, top, f),
           BarOK(list, top)
    PROVE  FrontOnTop(list, top, IF f = id THEN "none" ELSE f)
  <1>1. \A i \in 1..Len(list) : list[i].id # "none"
    BY BarIs, AppsAre
  <1> QED BY <1>1 DEF FrontOnTop
LEMMA ModeStays ==
    ASSUME ModeInv, UNCHANGED modeVars
    PROVE  ModeInv' /\ (IsShown' <=> IsShown) /\ (Ready' <=> Ready)
  BY DEF ModeInv, ModeTypeOK, IsShown, Ready, modeVars

LEMMA NoFront ==
    ASSUME NEW list, NEW top, BarOK(list, top)
    PROVE  FrontOnTop(list, top, "none")
  BY BarIs, AppsAre DEF FrontOnTop

\* The icons, the task bar and the buttons of the windows.
LEMMA HandlersMove ==
    ASSUME DesktopInv,
           \/ \E id \in Apps : FocusWindow(id) \/ OpenApp(id) \/ MinimizeWindow(id)
                               \/ CloseWindow(id)
           \/ ShowDesktop
    PROVE  DesktopInv'
  <1>0. /\ BarOK(windows, zTop) /\ FrontOnTop(windows, zTop, front) /\ ModeInv
        /\ DOMAIN windows = 1..Len(windows)
    BY BarIs DEF DesktopInv, BarInv
  <1>a. OnDesktop
    BY DEF FocusWindow, OpenApp, MinimizeWindow, CloseWindow, ShowDesktop
  <1>b. ModeInv' /\ (IsShown' <=> IsShown)
    BY <1>0, <1>a, ModeStays DEF OnDesktop
  <1>c. /\ page = "desktop" /\ page' = page /\ panel' = panel /\ previousMode' = previousMode
    BY <1>a DEF OnDesktop
  <1>1. ASSUME NEW id \in Apps, FocusWindow(id) PROVE DesktopInv'
    <2>1. id \in OpenIds(windows)
      BY <1>0, <1>1, SeenIs DEF FocusWindow
    <2>2. /\ zTop < MaxZ /\ zTop' = zTop + 1 /\ front' = id
          /\ UNCHANGED <<query, launched, playing, dismissed>>
          /\ windows' = Lifts(windows, id, zTop')
      BY <1>1 DEF FocusWindow, Raises, Change, Lifts, urlVars
    <2>3. BarInv' /\ OpenIds(windows') = OpenIds(windows)
      BY <2>1, <2>2, RaisedIs, Zenon DEF DesktopInv
    <2>4. PageInv'
      BY <1>c, <2>2 DEF DesktopInv, PageInv
    <2>5. OpenInv'
      BY <1>b, <1>c, <2>2, <2>3 DEF DesktopInv, OpenInv
    <2> QED BY <1>b, <2>3, <2>4, <2>5 DEF DesktopInv
  <1>2. ASSUME NEW id \in Apps, OpenApp(id) PROVE DesktopInv'
    <2>2. /\ zTop < MaxZ /\ Opened(id) /\ (id = "our-space" => IsShown)
          /\ dismissed' = dismissed \ {id} /\ UNCHANGED <<query, launched, playing>>
      BY <1>2 DEF OpenApp, urlVars
    <2>3. BarInv' /\ OpenIds(windows') = OpenIds(windows) \cup {id}
      BY <2>2, OpenedIs DEF DesktopInv
    <2>4. PageInv'
      BY <1>c, <2>2 DEF DesktopInv, PageInv
    <2>5. OpenInv'
      BY <1>b, <1>c, <2>2, <2>3 DEF DesktopInv, OpenInv
    <2> QED BY <1>b, <2>3, <2>4, <2>5 DEF DesktopInv
  <1>3. ASSUME NEW id \in Apps, MinimizeWindow(id) PROVE DesktopInv'
    <2>1. /\ zTop' = zTop /\ front' = (IF front = id THEN "none" ELSE front)
          /\ UNCHANGED <<query, launched, playing, dismissed>>
          /\ windows' = [i \in DOMAIN windows |-> IF windows[i].id = id
                THEN [windows[i] EXCEPT !.minimized = TRUE] ELSE windows[i]]
      BY <1>3 DEF MinimizeWindow, Change, urlVars
    <2>2. \A i \in 1..Len(windows) : windows[i] \in Window
      BY <1>0, BarIs
    <2>3. /\ DOMAIN windows' = DOMAIN windows /\ windows' = [i \in DOMAIN windows |-> windows'[i]]
          /\ \A i \in 1..Len(windows) :
                /\ windows'[i] \in Window /\ windows'[i].id = windows[i].id
                /\ windows'[i].z = windows[i].z
      <3> DEFINE after(w) == [w EXCEPT !.minimized = TRUE]
      <3>1. \A w \in Window : after(w) \in Window /\ after(w).id = w.id /\ after(w).z = w.z
        BY HiddenIs, Zenon
      <3>2. windows' = [i \in 1..Len(windows) |->
                           IF windows[i].id = id THEN after(windows[i]) ELSE windows[i]]
        BY <1>0, <2>1
      <3> HIDE DEF after
      <3> QED BY <1>0, <2>2, <3>1, <3>2
    <2>4. /\ BarOK(windows', zTop) /\ OpenIds(windows') = OpenIds(windows)
          /\ \A f : FrontOnTop(windows, zTop, f) => FrontOnTop(windows', zTop, f)
      BY <1>0, <2>3, BarKept
    <2>5. BarInv'
      <3>1. FrontOnTop(windows, zTop, front')
        BY <1>0, <2>1, NoFront
      <3> QED BY <2>1, <2>4, <3>1 DEF BarInv
    <2>6. PageInv'
      BY <1>c, <2>1 DEF DesktopInv, PageInv
    <2>7. OpenInv'
      BY <1>b, <1>c, <2>1, <2>4 DEF DesktopInv, OpenInv
    <2> QED BY <1>b, <2>5, <2>6, <2>7 DEF DesktopInv
  <1>4. ASSUME NEW id \in Apps, CloseWindow(id) PROVE DesktopInv'
    <2>1. /\ zTop' = zTop /\ front' = (IF front = id THEN "none" ELSE front)
          /\ windows' = Without(id) /\ playing' = (playing /\ id # "music")
          /\ dismissed' = dismissed \cup ({id} \ Owed)
          /\ UNCHANGED <<query, launched>>
      BY <1>4 DEF CloseWindow, urlVars
    <2>2. /\ BarOK(windows', zTop) /\ OpenIds(windows') = OpenIds(windows) \ {id}
          /\ \A f : FrontOnTop(windows, zTop, f) => FrontOnTop(windows', zTop, f)
      BY <1>0, <2>1, BarShrinks
    <2>3. BarInv'
      <3>1. FrontOnTop(windows, zTop, front')
        BY <1>0, <2>1, NoFront
      <3> QED BY <2>1, <2>2, <3>1 DEF BarInv
    <2>4. id = "our-space" => IsShown
      BY <1>0, <1>4, SeenIs DEF CloseWindow
    <2>5. PageInv'
      <3>1. playing' \in BOOLEAN /\ dismissed' \in SUBSET Apps
        BY <2>1 DEF DesktopInv, PageInv
      <3> QED BY <1>c, <2>1, <3>1 DEF DesktopInv, PageInv
    <2>6. OpenInv'
      BY <1>b, <1>c, <2>1, <2>2, <2>4 DEF DesktopInv, OpenInv, Owed
    <2> QED BY <1>b, <2>3, <2>5, <2>6 DEF DesktopInv
  <1>5. CASE ShowDesktop
    <2>1. /\ zTop' = zTop /\ front' = "none"
          /\ UNCHANGED <<query, launched, playing, dismissed>>
          /\ windows' = [i \in DOMAIN windows |-> [windows[i] EXCEPT !.minimized = TRUE]]
      BY <1>5 DEF ShowDesktop, urlVars
    <2>2. /\ BarOK(windows', zTop) /\ OpenIds(windows') = OpenIds(windows)
      <3>1. /\ DOMAIN windows' = DOMAIN windows
            /\ windows' = [i \in DOMAIN windows |-> windows'[i]]
            /\ \A i \in 1..Len(windows) : windows'[i] = [windows[i] EXCEPT !.minimized = TRUE]
        BY <1>0, <2>1, Zenon
      <3>2. \A i \in 1..Len(windows) :
               \E b \in BOOLEAN : windows'[i] = [windows[i] EXCEPT !.minimized = b]
        BY <3>1, Zenon
      <3> QED BY <1>0, <3>1, <3>2, HidesSome, Zenon
    <2>3. BarInv'
      BY <2>1, <2>2, NoFront DEF BarInv
    <2>4. PageInv'
      BY <1>c, <2>1 DEF DesktopInv, PageInv
    <2>5. OpenInv'
      BY <1>b, <1>c, <2>1, <2>2 DEF DesktopInv, OpenInv
    <2> QED BY <1>b, <2>3, <2>4, <2>5 DEF DesktopInv
  <1> QED BY <1>1, <1>2, <1>3, <1>4, <1>5
\* The music, the pages and the query.
LEMMA PagesMove ==
    ASSUME DesktopInv,
           \/ PlayMusic \/ StopMusic \/ GoToSite
           \/ \E q \in Queries : QueryChanges(q) \/ GoToDesktop(q)
           \/ \E p \in Panels : ShowPanel(p)
    PROVE  DesktopInv'
  <1>0. /\ BarOK(windows, zTop) /\ FrontOnTop(windows, zTop, front) /\ ModeInv
    BY DEF DesktopInv, BarInv
  <1>b. ModeInv' /\ (IsShown' <=> IsShown)
    BY <1>0, ModeStays
    DEF PlayMusic, StopMusic, GoToSite, QueryChanges, GoToDesktop, ShowPanel, OnDesktop
  <1>1. CASE PlayMusic
    <2>1. /\ playing' = TRUE
          /\ UNCHANGED <<page, panel, windows, zTop, previousMode, query, launched,
                         dismissed, front>>
          /\ page = "desktop" => \E w \in Visible : w.id = "music"
      BY <1>1 DEF PlayMusic, urlVars
    <2>2. page = "desktop" => "music" \in OpenIds(windows)
      BY <1>0, <2>1, SeenIs
    <2>3. BarInv' /\ OpenIds(windows)' = OpenIds(windows)
      BY <1>0, <2>1 DEF BarInv, OpenIds
    <2>4. PageInv'
      BY <2>1 DEF DesktopInv, PageInv
    <2>5. OpenInv'
      BY <1>b, <2>1, <2>2, <2>3 DEF DesktopInv, OpenInv
    <2> QED BY <1>b, <2>3, <2>4, <2>5 DEF DesktopInv
  <1>2. CASE StopMusic
    <2>1. /\ playing' = FALSE
          /\ UNCHANGED <<page, panel, windows, zTop, previousMode, query, launched,
                         dismissed, front>>
      BY <1>2 DEF StopMusic, urlVars
    <2>3. BarInv' /\ OpenIds(windows)' = OpenIds(windows)
      BY <1>0, <2>1 DEF BarInv, OpenIds
    <2>4. PageInv'
      BY <2>1 DEF DesktopInv, PageInv
    <2>5. OpenInv'
      BY <1>b, <2>1, <2>3 DEF DesktopInv, OpenInv
    <2> QED BY <1>b, <2>3, <2>4, <2>5 DEF DesktopInv
  <1>3. CASE GoToSite
    <2>1. /\ page' = "site" /\ windows' = <<>> /\ zTop' = 0 /\ front' = "none"
          /\ dismissed' = {} /\ previousMode' = "unset" /\ launched' = "unset"
          /\ UNCHANGED <<panel, query, playing>>
      BY <1>3 DEF GoToSite
    <2>3. BarInv' /\ OpenIds(windows)' = {}
      BY <2>1, NoBar DEF BarInv
    <2>4. PageInv'
      BY <2>1 DEF DesktopInv, PageInv
    <2>5. OpenInv'
      BY <2>1, <2>3 DEF OpenInv
    <2> QED BY <1>b, <2>3, <2>4, <2>5 DEF DesktopInv
  <1>4. ASSUME NEW q \in Queries, QueryChanges(q) PROVE DesktopInv'
    <2>1. /\ query' = q /\ dismissed' = dismissed \ {q}
          /\ UNCHANGED <<page, panel, windows, zTop, previousMode, launched, playing, front>>
      BY <1>4 DEF QueryChanges, OnDesktop
    <2>3. BarInv' /\ OpenIds(windows)' = OpenIds(windows)
      BY <1>0, <2>1 DEF BarInv, OpenIds
    <2>4. PageInv'
      BY <2>1 DEF DesktopInv, PageInv
    <2>5. OpenInv'
      BY <1>b, <2>1, <2>3 DEF DesktopInv, OpenInv
    <2> QED BY <1>b, <2>3, <2>4, <2>5 DEF DesktopInv
  <1>5. ASSUME NEW q \in Queries, GoToDesktop(q) PROVE DesktopInv'
    <2>1. /\ page = "site" /\ page' = "desktop" /\ query' = q
          /\ windows' = InitialWindows /\ zTop' = Len(InitialWindows)
          /\ front' = (IF playing THEN "music" ELSE "agent")
          /\ UNCHANGED <<panel, previousMode, launched, playing, dismissed>>
      BY <1>5 DEF GoToDesktop
    <2>2. dismissed = {} /\ previousMode = "unset"
      BY <2>1 DEF DesktopInv, PageInv
    <2>3. BarInv' /\ OpenIds(windows)' = (IF playing THEN {"agent", "music"} ELSE {"agent"})
      <3>1. CASE playing
        <4>1. /\ windows' = <<NewWindow("agent", 1), NewWindow("music", 2)>>
              /\ zTop' = 2 /\ front' = "music"
          BY <2>1, <3>1 DEF InitialWindows
        <4> QED BY <3>1, <4>1, FirstBar DEF BarInv
      <3>2. CASE ~playing
        <4>1. windows' = <<NewWindow("agent", 1)>> /\ zTop' = 1 /\ front' = "agent"
          BY <2>1, <3>2 DEF InitialWindows
        <4> QED BY <3>2, <4>1, FirstBar DEF BarInv
      <3> QED BY <3>1, <3>2
    <2>4. PageInv'
      BY <2>1 DEF DesktopInv, PageInv
    <2>5. OpenInv'
      BY <1>b, <2>1, <2>2, <2>3 DEF OpenInv
    <2> QED BY <1>b, <2>3, <2>4, <2>5 DEF DesktopInv
  <1>6. ASSUME NEW p \in Panels, ShowPanel(p) PROVE DesktopInv'
    <2>1. /\ panel' = p
          /\ UNCHANGED <<page, windows, zTop, previousMode, query, launched, playing,
                         dismissed, front>>
      BY <1>6 DEF ShowPanel, urlVars
    <2>3. BarInv' /\ OpenIds(windows)' = OpenIds(windows)
      BY <1>0, <2>1 DEF BarInv, OpenIds
    <2>4. PageInv'
      BY <2>1 DEF DesktopInv, PageInv
    <2>5. OpenInv'
      BY <1>b, <2>1, <2>3 DEF DesktopInv, OpenInv
    <2> QED BY <1>b, <2>3, <2>4, <2>5 DEF DesktopInv
  <1> QED BY <1>1, <1>2, <1>3, <1>4, <1>5, <1>6

\* The effect of the mode gives our space a window, or takes it away.
LEMMA ModeEffectMoves ==
    ASSUME DesktopInv, ModeEffect
    PROVE  DesktopInv'
  <1>0. /\ BarOK(windows, zTop) /\ FrontOnTop(windows, zTop, front) /\ ModeInv
    BY DEF DesktopInv, BarInv
  <1>b. ModeInv' /\ (IsShown' <=> IsShown)
    BY <1>0, ModeStays DEF ModeEffect
  <1>1. /\ page = "desktop" /\ previousMode' = (IF IsShown THEN "shown" ELSE "hidden")
        /\ previousMode # previousMode'
        /\ UNCHANGED <<page, panel, query, launched, playing, dismissed>>
    BY DEF ModeEffect, ModeEffectDue, ModeSeen, urlVars
  <1> DEFINE rest == Without("our-space")
  <1>2. /\ BarOK(rest, zTop) /\ OpenIds(rest) = OpenIds(windows) \ {"our-space"}
        /\ \A f : FrontOnTop(windows, zTop, f) => FrontOnTop(rest, zTop, f)
    BY <1>0, BarShrinks
  <1>3. CASE IsShown
    <2> DEFINE hidden == [i \in DOMAIN rest |->
                            [rest[i] EXCEPT !.minimized = @ \/ rest[i].id = "agent"]]
    <2>1. /\ zTop < MaxZ /\ zTop' = zTop + 1 /\ front' = "our-space"
          /\ windows' = Append(hidden, NewWindow("our-space", zTop'))
      BY <1>3 DEF ModeEffect, Raises
    <2> HIDE DEF rest
    <2>2. /\ DOMAIN hidden = DOMAIN rest /\ hidden = [i \in DOMAIN rest |-> hidden[i]]
          /\ \A i \in 1..Len(rest) :
                \E b \in BOOLEAN : hidden[i] = [rest[i] EXCEPT !.minimized = b]
      <3>1. DOMAIN rest = 1..Len(rest) /\ \A i \in 1..Len(rest) : rest[i] \in Window
        BY <1>2, BarIs
      <3>2. \A i \in 1..Len(rest) :
               hidden[i] =
                  [rest[i] EXCEPT !.minimized = rest[i].minimized \/ rest[i].id = "agent"]
        BY <3>1, Zenon
      <3>3. \A i \in 1..Len(rest) : (rest[i].minimized \/ rest[i].id = "agent") \in BOOLEAN
        BY Zenon
      <3> QED BY <3>2, <3>3, Zenon
    <2> HIDE DEF hidden
    <2>3. BarOK(hidden, zTop) /\ OpenIds(hidden) = OpenIds(rest)
      BY <1>2, <2>2, HidesSome, Zenon
    <2>4. /\ BarOK(windows', zTop') /\ FrontOnTop(windows', zTop', "our-space")
          /\ OpenIds(windows') = OpenIds(hidden) \cup {"our-space"}
      <3>1. "our-space" \in Apps /\ "our-space" \notin OpenIds(hidden)
        BY <1>2, <2>3, AppsAre
      <3> QED BY <2>1, <2>3, <3>1, BarGrows
    <2>5. OpenIds(windows') = OpenIds(windows) \cup {"our-space"}
      BY <1>2, <2>3, <2>4
    <2>6. BarInv'
      BY <2>1, <2>4 DEF BarInv
    <2>7. PageInv'
      BY <1>1 DEF DesktopInv, PageInv
    <2>8. OpenInv'
      <3>1. previousMode # "shown"
        BY <1>1, <1>3
      <3> QED BY <1>b, <1>1, <1>3, <2>5, <3>1 DEF DesktopInv, OpenInv
    <2> QED BY <1>b, <2>6, <2>7, <2>8 DEF DesktopInv
  <1>4. CASE ~IsShown
    <2>1. /\ windows' = rest /\ zTop' = zTop
          /\ front' = (IF front = "our-space" THEN "none" ELSE front)
      BY <1>4 DEF ModeEffect
    <2>2. BarInv'
      <3>1. FrontOnTop(windows, zTop, front')
        BY <1>0, <2>1, NoFront
      <3> QED BY <1>2, <2>1, <3>1 DEF BarInv
    <2>3. PageInv'
      BY <1>1 DEF DesktopInv, PageInv
    <2>4. OpenIds(windows)' = OpenIds(windows) \ {"our-space"}
      BY <1>2, <2>1
    <2>5. OpenInv'
      BY <1>b, <1>1, <1>4, <2>4 DEF DesktopInv, OpenInv
    <2> QED BY <1>b, <2>2, <2>3, <2>5 DEF DesktopInv
  <1> QED BY <1>3, <1>4

\* The launch URL opens its application once.
LEMMA LaunchMoves ==
    ASSUME DesktopInv, LaunchEffect
    PROVE  DesktopInv'
  <1>b. ModeInv' /\ (IsShown' <=> IsShown)
    BY ModeStays DEF LaunchEffect, DesktopInv
  <1>1. /\ launched # query /\ launched' = query
        /\ UNCHANGED <<page, panel, previousMode, query, playing, dismissed>>
        /\ page = "desktop" /\ query \in Queries
    BY DEF LaunchEffect, DesktopInv, PageInv
  <1>2. PageInv'
    BY <1>1 DEF DesktopInv, PageInv
  <1>3. CASE query = NoQuery
    <2>1. UNCHANGED <<windows, zTop, front>>
      BY <1>3 DEF LaunchEffect
    <2>2. BarInv' /\ OpenIds(windows)' = OpenIds(windows)
      BY <2>1 DEF DesktopInv, BarInv, OpenIds
    <2>3. OpenInv'
      BY <1>b, <1>1, <2>2 DEF DesktopInv, OpenInv
    <2> QED BY <1>b, <1>2, <2>2, <2>3 DEF DesktopInv
  <1>4. CASE query # NoQuery
    <2>1. zTop < MaxZ /\ Opened(query) /\ query \in Apps /\ query # "our-space"
      BY <1>1, <1>4, AppsAre DEF LaunchEffect
    <2>2. BarInv' /\ OpenIds(windows') = OpenIds(windows) \cup {query}
      BY <2>1, OpenedIs DEF DesktopInv
    <2>3. OpenInv'
      BY <1>b, <1>1, <2>1, <2>2 DEF DesktopInv, OpenInv
    <2> QED BY <1>b, <1>2, <2>2, <2>3 DEF DesktopInv
  <1> QED BY <1>3, <1>4

\* The mode is shown by the load at mount or the agent, and left by the visitor;
\* on the desktop only when the effect has seen it.
LEMMA ModeMoves ==
    ASSUME DesktopInv, ModeChanges
    PROVE  DesktopInv'
  <1>1. /\ UNCHANGED <<page, panel, windows, zTop, previousMode, query, launched, playing, front>>
        /\ dismissed' = IF IsShown' THEN dismissed ELSE dismissed \ {"our-space"}
        /\ ~ModeEffectDue
    BY DEF ModeChanges, urlVars
  <1>0. ModeInv
    BY DEF DesktopInv
  <1>2. ModeInv'
    <2> USE DEF ModeInv, ModeTypeOK, IsShown, Ready
    <2>1. ASSUME InitialStatus \/ InitialFails PROVE ModeInv'
      BY <1>0, <2>1 DEF InitialStatus, InitialFails
    <2>2. ASSUME InitialContent PROVE ModeInv'
      <3>1. /\ mode' = [unlocked |-> TRUE, active |-> TRUE] /\ content' = TRUE
            /\ initial' = "done" /\ cookie' = cookie
        BY <2>2 DEF InitialContent, Activate
      <3>2. mode' \in [unlocked: BOOLEAN, active: BOOLEAN]
        BY <3>1
      <3> QED BY <1>0, <3>1, <3>2
    <2>3. ASSUME Leave PROVE ModeInv'
      <3>1. mode' \in [unlocked: BOOLEAN, active: BOOLEAN]
        BY <1>0, <2>3 DEF Leave
      <3>2. initial = "done"
        BY <1>0, <2>3 DEF Leave
      <3> QED BY <1>0, <2>3, <3>1, <3>2 DEF Leave
    <2>4. ASSUME SetCookie /\ initial = "done" /\ Activate /\ UNCHANGED initial PROVE ModeInv'
      <3>1. /\ mode' = [unlocked |-> TRUE, active |-> TRUE] /\ content' = TRUE
            /\ initial' = "done" /\ cookie' = TRUE
        BY <2>4 DEF SetCookie, Activate
      <3>2. mode' \in [unlocked: BOOLEAN, active: BOOLEAN]
        BY <3>1
      <3> QED BY <1>0, <3>1, <3>2
    <2> QED BY <2>1, <2>2, <2>3, <2>4, Zenon DEF ModeChanges, ModeNext
  <1>3. BarInv' /\ OpenIds(windows)' = OpenIds(windows)
    BY <1>1 DEF DesktopInv, BarInv, OpenIds
  <1>4. PageInv'
    BY <1>1 DEF DesktopInv, PageInv
  <1>5. IsShown /\ ~IsShown' => page = "site" \/ previousMode = "shown"
    BY <1>1 DEF ModeEffectDue, ModeSeen, DesktopInv, ModeInv, PageInv
  <1>6. page = "site" => OpenIds(windows) = {}
    BY NoBar DEF DesktopInv, PageInv
  <1>7. OpenInv'
    BY <1>1, <1>3, <1>5, <1>6 DEF DesktopInv, OpenInv
  <1> QED BY <1>2, <1>3, <1>4, <1>7 DEF DesktopInv

LEMMA DesktopStep == DesktopInv /\ [DesktopNext]_desktopVars => DesktopInv'
  <1> SUFFICES ASSUME DesktopInv, [DesktopNext]_desktopVars PROVE DesktopInv'
    OBVIOUS
  <1>1. CASE UNCHANGED desktopVars
    <2>1. UNCHANGED modeVars /\ ModeInv
      BY <1>1 DEF desktopVars, DesktopInv
    <2>2. ModeInv' /\ (IsShown' <=> IsShown)
      BY <2>1, ModeStays
    <2>3. UNCHANGED <<page, windows, zTop, previousMode, query, launched, panel, playing,
                      dismissed, front>>
      BY <1>1 DEF desktopVars
    <2>4. BarInv' /\ PageInv' /\ OpenIds(windows)' = OpenIds(windows)
      BY <2>3 DEF DesktopInv, BarInv, PageInv, OpenIds
    <2>5. OpenInv'
      BY <2>2, <2>3, <2>4 DEF DesktopInv, OpenInv
    <2> QED BY <2>2, <2>4, <2>5 DEF DesktopInv
  <1>2. CASE DesktopNext
    BY <1>2, HandlersMove, PagesMove, ModeEffectMoves, LaunchMoves, ModeMoves, Zenon
    DEF DesktopNext
  <1> QED BY <1>1, <1>2

LEMMA DesktopInvSound == DesktopInv => DesktopSound
  <1> SUFFICES ASSUME DesktopInv PROVE DesktopSound
    OBVIOUS
  <1>1. /\ BarOK(windows, zTop) /\ FrontOnTop(windows, zTop, front)
        /\ DOMAIN windows = 1..Len(windows)
    BY BarIs DEF DesktopInv, BarInv
  <1>2. DesktopTypeOK
    BY <1>1 DEF DesktopTypeOK, DesktopInv, ModeInv, PageInv, BarOK, FrontOnTop
  <1>3. WindowsDistinct
    BY <1>1 DEF WindowsDistinct, BarOK
  <1>4. FrontIsActive
    <2>1. ASSUME NEW w \in Visible, w.id = front, NEW v \in Visible PROVE v.z <= w.z
      <3>1. Visible \subseteq {windows[i] : i \in 1..Len(windows)}
        BY <1>1 DEF Visible, ModeWindows, ToSet
      <3>2. PICK i \in 1..Len(windows), j \in 1..Len(windows) : w = windows[i] /\ v = windows[j]
        BY <3>1
      <3>3. windows[i].z = zTop /\ windows[j].z <= zTop
        BY <1>1, <2>1, <3>2 DEF FrontOnTop, BarOK
      <3> QED BY <3>2, <3>3
    <2> QED BY <2>1 DEF FrontIsActive, IsActive
  <1>5. PrivateWindowGoes
    <2>1. IsOpen("our-space") => "our-space" \in OpenIds(windows)
      BY <1>1, OpenIs
    <2> QED BY <2>1 DEF PrivateWindowGoes, ModeEffectDue, ModeSeen, DesktopInv, OpenInv
  <1>6. ClosedStaysClosed
    <2>1. \A w \in ToSet(windows) : w.id \in OpenIds(windows)
      BY <1>1 DEF ToSet, OpenIds
    <2> QED BY <2>1 DEF ClosedStaysClosed, DesktopInv, OpenInv
  <1>7. MusicHasWindow
    <2>1. "music" \in OpenIds(windows) => IsOpen("music")
      BY <1>1, OpenIs
    <2> QED BY <2>1 DEF MusicHasWindow, DesktopInv, OpenInv
  <1> QED BY <1>2, <1>3, <1>4, <1>5, <1>6, <1>7 DEF DesktopSound

\* The desktop, for any applications and any number of openings: one window for
\* an application, the one brought to the front in front, our space only in its
\* mode, nothing reopened on its own, and music never without its window.
THEOREM DesktopIsSound == DesktopSpec => []DesktopSound
  BY DesktopFirst, DesktopStep, DesktopInvSound, PTL DEF DesktopSpec

-----------------------------------------------------------------------------
(* The stage of the desktop.                                               *)

\* The places of the windows, without the function they are kept in.
StagePlaces ==
    /\ \E S \in SUBSET Titles : place \in [S -> Places]
    /\ maximized \subseteq DOMAIN place
    /\ room \in Rooms
    /\ drag \in [id: Titles, pointer: Pointers, x: Places, max: Rooms] \cup {NoDrag}

\* A drag that began in a stage whose size was known stays in it.
DragStays == fitted /\ drag # NoDrag => drag.x <= drag.max

StageInv ==
    /\ StagePlaces /\ fitted \in BOOLEAN
    /\ DragStays /\ DragInStage /\ WindowsInStage

LEMMA PlacesAre ==
    /\ Places \subseteq Nat
    /\ \A r \in Rooms : r \in Nat /\ 0..r \subseteq Places
    /\ \A x \in Places, r \in Rooms : Clip(x, r) \in Places /\ Clip(x, r) <= r
    /\ \A x \in Places, r \in Rooms : Clip(x + 1, r) \in Places /\ Clip(x + 1, r) <= r
  <1> USE StageAssumption
  <1>1. Places \subseteq Nat
    BY DEF Places
  <1>2. ASSUME NEW r \in Rooms PROVE r \in Nat /\ 0..r \subseteq Places
    BY DEF Places
  <1>3. ASSUME NEW x \in Nat, NEW r \in Rooms PROVE Clip(x, r) \in 0..r
    BY <1>2 DEF Clip
  <1> QED BY <1>1, <1>2, <1>3

LEMMA StageFirst == StageInit => StageInv
  <1> SUFFICES ASSUME StageInit PROVE StageInv
    OBVIOUS
  <1>1. place = [t \in {} |-> 0] /\ place \in [{} -> Places]
    BY DEF StageInit
  <1>2. StagePlaces
    BY <1>1 DEF StageInit, StagePlaces
  <1>3. fitted \in BOOLEAN /\ DragStays /\ DragInStage /\ WindowsInStage
    BY DEF StageInit, DragStays, DragInStage, WindowsInStage
  <1> QED BY <1>2, <1>3 DEF StageInv

\* What keeps the drag and the stage is sound if the places are.
LEMMA PlacesMove ==
    ASSUME StageInv, UNCHANGED <<room, fitted, drag>>,
           NEW S \in SUBSET Titles, place' \in [S -> Places], maximized' \subseteq S,
           fitted => \A t \in S : place'[t] <= room
    PROVE  StageInv'
  <1>1. StagePlaces'
    BY DEF StageInv, StagePlaces
  <1>2. fitted' \in BOOLEAN
    BY DEF StageInv
  <1>3. DragStays' /\ DragInStage' /\ WindowsInStage'
    BY DEF StageInv, DragStays, DragInStage, WindowsInStage
  <1> QED BY <1>1, <1>2, <1>3 DEF StageInv

\* And what keeps the windows and the stage, if the drag is.
LEMMA DragMoves ==
    ASSUME StageInv, UNCHANGED <<place, maximized, room, fitted>>,
           drag' \in [id: Titles, pointer: Pointers, x: Places, max: Rooms],
           fitted => drag'.x <= drag'.max /\ drag'.max <= room
    PROVE  StageInv'
  <1>1. StagePlaces'
    BY DEF StageInv, StagePlaces
  <1>2. fitted' \in BOOLEAN
    BY DEF StageInv
  <1>3. DragStays' /\ DragInStage' /\ WindowsInStage'
    BY DEF StageInv, DragStays, DragInStage, WindowsInStage
  <1> QED BY <1>1, <1>2, <1>3 DEF StageInv

LEMMA StageStep == StageInv /\ [StageNext]_stageVars => StageInv'
  <1> SUFFICES ASSUME StageInv, [StageNext]_stageVars PROVE StageInv'
    OBVIOUS
  <1>0. PICK S \in SUBSET Titles : place \in [S -> Places]
    BY DEF StageInv, StagePlaces
  <1>t. /\ DOMAIN place = S /\ maximized \subseteq S /\ room \in Rooms
        /\ fitted => \A t \in S : place[t] <= room
    BY <1>0 DEF StageInv, StagePlaces, WindowsInStage
  <1>1. ASSUME NEW t \in Titles, PlaceWindow(t) PROVE StageInv'
    <2>1. PICK x \in Places : place' = [u \in S \cup {t} |->
                                           IF u = t THEN Clip(x, room) ELSE place[u]]
      BY <1>1, <1>t DEF PlaceWindow
    <2>2. Clip(x, room) \in Places /\ Clip(x, room) <= room
      BY <1>t, PlacesAre
    <2>3. place' \in [S \cup {t} -> Places] /\ S \cup {t} \in SUBSET Titles
      BY <1>0, <2>1, <2>2
    <2>4. fitted => \A u \in S \cup {t} : place'[u] <= room
      BY <1>t, <2>1, <2>2
    <2>5. UNCHANGED <<maximized, room, fitted, drag>>
      BY <1>1 DEF PlaceWindow
    <2> QED BY <1>t, <2>3, <2>4, <2>5, PlacesMove
  <1>2. ASSUME NEW t \in Titles, RemoveWindow(t) PROVE StageInv'
    <2>1. /\ place' = [u \in S \ {t} |-> place[u]] /\ maximized' = maximized \ {t}
          /\ UNCHANGED <<room, fitted, drag>>
      BY <1>2, <1>t DEF RemoveWindow, Restrict
    <2>2. place' \in [S \ {t} -> Places] /\ S \ {t} \in SUBSET Titles
      BY <1>0, <2>1
    <2>3. fitted => \A u \in S \ {t} : place'[u] <= room
      BY <1>t, <2>1
    <2>4. maximized' \subseteq S \ {t}
      BY <1>t, <2>1
    <2> QED BY <2>1, <2>2, <2>3, <2>4, PlacesMove
  <1>3. ASSUME NEW t \in Titles, MaximizeWindow(t) PROVE StageInv'
    <2>1. maximized' \subseteq S /\ place' = place /\ UNCHANGED <<room, fitted, drag>>
      BY <1>3, <1>t DEF MaximizeWindow
    <2> QED BY <1>0, <1>t, <2>1, PlacesMove
  <1>4. ASSUME NEW t \in Titles, MoveWindow(t) PROVE StageInv'
    <2>1. PICK x \in {place[t] + 1} \cup {p \in Places : p + 1 = place[t]} :
              place' = [place EXCEPT ![t] = Clip(x, room)]
      BY <1>4 DEF MoveWindow
    <2>2. t \in S /\ UNCHANGED <<maximized, room, fitted, drag>>
      BY <1>4, <1>t DEF MoveWindow
    <2>3. Clip(x, room) \in Places /\ Clip(x, room) <= room
      BY <1>0, <1>t, <2>1, <2>2, PlacesAre
    <2>4. place' \in [S -> Places]
      BY <1>0, <2>1, <2>3
    <2>5. fitted => \A u \in S : place'[u] <= room
      BY <1>0, <1>t, <2>1, <2>3
    <2> QED BY <1>t, <2>2, <2>4, <2>5, PlacesMove
  <1>5. ASSUME NEW t \in Titles, NEW p \in Pointers, BeginDrag(t, p) PROVE StageInv'
    <2>1. /\ drag' = [id |-> t, pointer |-> p, x |-> place[t], max |-> room]
          /\ t \in S /\ UNCHANGED <<place, maximized, room, fitted>>
      BY <1>5, <1>t DEF BeginDrag
    <2>2. drag'.x = place[t] /\ drag'.max = room /\ place[t] \in Places
      BY <1>0, <2>1
    <2>3. drag' \in [id: Titles, pointer: Pointers, x: Places, max: Rooms]
      BY <1>t, <2>1, <2>2
    <2>4. fitted => drag'.x <= drag'.max /\ drag'.max <= room
      BY <1>t, <2>1, <2>2, PlacesAre
    <2> QED BY <2>1, <2>3, <2>4, DragMoves
  <1>6. ASSUME NEW p \in Pointers, UpdateDrag(p) PROVE StageInv'
    <2>1. PICK x \in 0..drag.max : drag' = [drag EXCEPT !.x = x]
      BY <1>6 DEF UpdateDrag
    <2>2. UNCHANGED <<place, maximized, room, fitted>>
      BY <1>6 DEF UpdateDrag
    <2>3. CASE drag = NoDrag
      <3>1. x = 0 /\ drag' = NoDrag
        BY <2>1, <2>3 DEF NoDrag
      <3> QED BY <1>t, <2>2, <2>3, <3>1, <1>0, PlacesMove
    <2>4. CASE drag # NoDrag
      <3>1. drag \in [id: Titles, pointer: Pointers, x: Places, max: Rooms]
        BY <2>4 DEF StageInv, StagePlaces
      <3>2. drag.max \in Nat /\ x \in Places /\ x <= drag.max
        BY <2>1, <3>1, PlacesAre
      <3>3. /\ drag' \in [id: Titles, pointer: Pointers, x: Places, max: Rooms]
            /\ drag'.x = x /\ drag'.max = drag.max
        BY <2>1, <3>1, <3>2
      <3>4. fitted => drag.max <= room
        BY <2>4 DEF StageInv, DragInStage
      <3> QED BY <2>2, <3>2, <3>3, <3>4, DragMoves
    <2> QED BY <2>3, <2>4
  <1>7. ASSUME NEW commit \in BOOLEAN, FinishDrag(commit) PROVE StageInv'
    <2>1. drag # NoDrag /\ drag' = NoDrag /\ UNCHANGED <<maximized, room, fitted>>
      BY <1>7 DEF FinishDrag
    <2>2. place' = place \/ (drag.id \in S /\ place' = [place EXCEPT ![drag.id] = drag.x])
      BY <1>7, <1>t DEF FinishDrag
    <2>3. drag \in [id: Titles, pointer: Pointers, x: Places, max: Rooms]
      BY <2>1 DEF StageInv, StagePlaces
    <2>4. fitted => drag.x <= drag.max /\ drag.max <= room
      BY <2>1 DEF StageInv, DragStays, DragInStage
    <2>5. drag.x \in Places /\ drag.x \in Nat /\ drag.max \in Nat /\ room \in Nat
      BY <1>t, <2>3, PlacesAre
    <2>6. place' \in [S -> Places]
      BY <1>0, <2>2, <2>5
    <2>7. fitted => drag.x <= room
      BY <2>4, <2>5
    <2>8. fitted => \A u \in S : place'[u] <= room
      BY <1>0, <1>t, <2>2, <2>7
    <2>9. StagePlaces' /\ fitted' \in BOOLEAN
      BY <1>t, <2>1, <2>6 DEF StageInv, StagePlaces
    <2>10. DragStays' /\ DragInStage' /\ WindowsInStage'
      BY <2>1, <2>6, <2>8 DEF DragStays, DragInStage, WindowsInStage
    <2> QED BY <2>9, <2>10 DEF StageInv
  <1>8. ASSUME NEW r \in Rooms, ResizeStage(r) PROVE StageInv'
    <2>1. StagePlaces'
      BY <1>8 DEF ResizeStage, StageInv, StagePlaces
    <2>2. ~fitted' /\ fitted' \in BOOLEAN
      BY <1>8 DEF ResizeStage
    <2> QED BY <2>1, <2>2 DEF StageInv, DragStays, DragInStage, WindowsInStage
  <1>9. CASE FitWindows
    <2>1. /\ place' = [t \in S |-> Clip(place[t], room)]
          /\ drag' = NoDrag /\ fitted' = TRUE /\ UNCHANGED <<maximized, room>>
      BY <1>9, <1>t DEF FitWindows
    <2>2. \A t \in S : Clip(place[t], room) \in Places /\ Clip(place[t], room) <= room
      BY <1>0, <1>t, PlacesAre
    <2>3. place' \in [S -> Places] /\ DOMAIN place' = S
      BY <2>1, <2>2
    <2>4. StagePlaces'
      BY <1>t, <2>1, <2>3 DEF StagePlaces
    <2>5. DragStays' /\ DragInStage' /\ WindowsInStage' /\ fitted' \in BOOLEAN
      BY <2>1, <2>2, <2>3 DEF DragStays, DragInStage, WindowsInStage
    <2> QED BY <2>4, <2>5 DEF StageInv
  <1>10. CASE UNCHANGED stageVars
    BY <1>10 DEF stageVars, StageInv, StagePlaces, DragStays, DragInStage, WindowsInStage
  <1> QED BY <1>1, <1>2, <1>3, <1>4, <1>5, <1>6, <1>7, <1>8, <1>9, <1>10 DEF StageNext

LEMMA StageInvSound == StageInv => StageSound
  <1> SUFFICES ASSUME StageInv PROVE StageSound
    OBVIOUS
  <1>1. PICK S \in SUBSET Titles : place \in [S -> Places]
    BY DEF StageInv, StagePlaces
  <1>2. DOMAIN place \subseteq Titles /\ Range(place) \subseteq Places
    BY <1>1 DEF Range
  <1>3. StageTypeOK
    BY <1>2 DEF StageInv, StagePlaces, StageTypeOK
  <1> QED BY <1>3 DEF StageInv, StageSound

\* The stage, for any applications, sizes and pointers: once its size is known,
\* every window and every drag that is on lies inside it.
THEOREM StageIsSound == StageSpec => []StageSound
  BY StageFirst, StageStep, StageInvSound, PTL DEF StageSpec

-----------------------------------------------------------------------------
(* The browser of the desktop.                                             *)

HistoryOK ==
    /\ history \in Seq(Documents) /\ Len(history) \in 1..MaxHistory
    /\ index \in 1..Len(history) /\ NeighboursDiffer
PhotoOK ==
    /\ category \in Categories /\ photo \in {NoPhoto} \cup 1..3
    /\ PhotoBelongs

BrowserInv == HistoryOK /\ PhotoOK

\* What the four filters show of the three photographs.
LEMMA ImagesAre ==
    /\ Images = {i \in 1..3 : category = "all" \/ category = Gallery[i]}
    /\ category = "all" => Images = {1, 2, 3}
    /\ category = "city" => Images = {1, 3}
    /\ category = "garden" => Images = {2}
    /\ category = "architecture" => Images = {}
  BY DEF Images, Gallery

\* The photographs of a filter can be counted up to each of them.
LEMMA NthIsImage ==
    ASSUME category \in Categories, NEW k \in 0..Cardinality(Images) - 1
    PROVE  NthImage(k) \in Images
  <1>1. SUFFICES \E i \in Images : Cardinality({j \in Images : j < i}) = k
    BY DEF NthImage
  <1>2. /\ Cardinality({}) = 0
        /\ \A x \in {1, 2, 3} : Cardinality({x}) = 1
        /\ Cardinality({1, 2}) = 2 /\ Cardinality({1, 3}) = 2 /\ Cardinality({1, 2, 3}) = 3
    <2>1. Cardinality({}) = 0 /\ IsFiniteSet({})
      BY FS_EmptySet
    <2>2. \A x : Cardinality({x}) = 1 /\ IsFiniteSet({x})
      BY FS_Singleton
    <2>3. {1, 2} = {1} \cup {2} /\ {1, 3} = {1} \cup {3} /\ {1, 2, 3} = {1, 2} \cup {3}
      OBVIOUS
    <2>a. ASSUME NEW S, NEW x, IsFiniteSet(S), x \notin S
          PROVE  IsFiniteSet(S \cup {x}) /\ Cardinality(S \cup {x}) = Cardinality(S) + 1
      BY <2>a, FS_AddElement, Zenon
    <2>4. Cardinality({1, 2}) = Cardinality({1}) + 1 /\ IsFiniteSet({1, 2})
      <3>1. 2 \notin {1} /\ IsFiniteSet({1})
        BY <2>2
      <3>2. IsFiniteSet({1} \cup {2}) /\ Cardinality({1} \cup {2}) = Cardinality({1}) + 1
        BY <2>a, <3>1, Zenon
      <3> QED BY <2>3, <3>2
    <2>5. Cardinality({1, 3}) = Cardinality({1}) + 1
      <3>1. 3 \notin {1} /\ IsFiniteSet({1})
        BY <2>2
      <3>2. Cardinality({1} \cup {3}) = Cardinality({1}) + 1
        BY <2>a, <3>1, Zenon
      <3> QED BY <2>3, <3>2
    <2>6. Cardinality({1, 2, 3}) = Cardinality({1, 2}) + 1
      <3>1. 3 \notin {1, 2}
        OBVIOUS
      <3>2. Cardinality({1, 2} \cup {3}) = Cardinality({1, 2}) + 1
        BY <2>4, <2>a, <3>1, Zenon
      <3> QED BY <2>3, <3>2
    <2>7. Cardinality({1}) = 1 /\ Cardinality({2}) = 1 /\ Cardinality({3}) = 1
      BY <2>2, Zenon
    <2>8. Cardinality({1, 2}) = 2 /\ Cardinality({1, 3}) = 2 /\ Cardinality({1, 2, 3}) = 3
      BY <2>4, <2>5, <2>6, <2>7
    <2>9. \A x \in {1, 2, 3} : Cardinality({x}) = 1
      BY <2>2, Zenon
    <2> QED BY <2>1, <2>8, <2>9, Zenon
  <1>3. CASE category = "all"
    <2>1. Images = {1, 2, 3} /\ k \in {0, 1, 2}
      BY <1>2, <1>3, ImagesAre
    <2>2. /\ {j \in {1, 2, 3} : j < 1} = {} /\ {j \in {1, 2, 3} : j < 2} = {1}
          /\ {j \in {1, 2, 3} : j < 3} = {1, 2}
      OBVIOUS
    <2> QED BY <1>2, <2>1, <2>2
  <1>4. CASE category = "city"
    <2>1. Images = {1, 3} /\ k \in {0, 1}
      BY <1>2, <1>4, ImagesAre
    <2>2. {j \in {1, 3} : j < 1} = {} /\ {j \in {1, 3} : j < 3} = {1}
      OBVIOUS
    <2> QED BY <1>2, <2>1, <2>2
  <1>5. CASE category = "garden"
    <2>0. Images = {2} /\ Cardinality({2}) = 1
      BY <1>2, <1>5, ImagesAre
    <2>1. Images = {2} /\ k = 0
      BY <2>0
    <2>2. {j \in {2} : j < 2} = {}
      OBVIOUS
    <2> QED BY <1>2, <2>1, <2>2
  <1>6. CASE category = "architecture"
    <2>0. Images = {} /\ Cardinality({}) = 0
      BY <1>2, <1>6, ImagesAre
    <2>1. Images = {} /\ FALSE
      BY <2>0
    <2> QED BY <2>1
  <1> QED BY <1>3, <1>4, <1>5, <1>6 DEF Categories

\* What a visit makes of the history.
LEMMA Visited ==
    ASSUME HistoryOK, NEW d \in Documents, Navigate(d)
    PROVE  /\ history' \in Seq(Documents) /\ index' = Len(history')
           /\ \/ /\ index + 1 <= MaxHistory /\ Len(history') = index + 1
                 /\ \A i \in 1..index : history'[i] = history[i]
                 /\ history'[index + 1] = d
              \/ /\ index = MaxHistory /\ Len(history') = index
                 /\ \A i \in 1..index - 1 : history'[i] = history[i + 1]
                 /\ history'[index] = d
  <1> DEFINE seen == SubSeq(history, 1, index)
             next == Append(seen, d)
  <1>1. /\ seen \in Seq(Documents) /\ Len(seen) = index /\ index \in Nat \ {0}
        /\ index <= MaxHistory /\ MaxHistory \in Nat
        /\ \A i \in 1..index : seen[i] = history[i]
    BY SubSeqProperties, ElementOfSeq, HistoryAssumption DEF HistoryOK
  <1>2. /\ next \in Seq(Documents) /\ next # <<>> /\ Len(next) = index + 1
        /\ \A i \in 1..index : next[i] = history[i]
        /\ next[index + 1] = d
    BY <1>1, AppendProperties
  <1>3. history' = (IF Len(next) > MaxHistory THEN Tail(next) ELSE next) /\ index' = Len(history')
    BY DEF Navigate
  <1> HIDE DEF next, seen
  <1>4. CASE index + 1 <= MaxHistory
    <2>1. history' = next
      BY <1>1, <1>2, <1>3, <1>4
    <2> QED BY <1>2, <1>3, <1>4, <2>1
  <1>5. CASE ~(index + 1 <= MaxHistory)
    <2>1. history' = Tail(next) /\ index = MaxHistory
      BY <1>1, <1>2, <1>3, <1>5
    <2>2. /\ Tail(next) \in Seq(Documents) /\ Len(Tail(next)) = index
          /\ \A i \in 1..index : Tail(next)[i] = next[i + 1]
      BY <1>1, <1>2, HeadTailProperties
    <2>3. (\A i \in 1..index - 1 : history'[i] = history[i + 1]) /\ history'[index] = d
      BY <1>1, <1>2, <2>1, <2>2
    <2> QED BY <1>3, <2>1, <2>2, <2>3
  <1> QED BY <1>4, <1>5

LEMMA SingleDocument ==
    ASSUME NEW d \in Documents
    PROVE  <<d>> \in Seq(Documents) /\ Len(<<d>>) = 1 /\ <<d>>[1] = d
  OBVIOUS

LEMMA BrowserFirst == BrowserInit => BrowserInv
  <1> SUFFICES ASSUME BrowserInit PROVE BrowserInv
    OBVIOUS
  <1>1. PICK d \in Documents : history = <<d>>
    BY DEF BrowserInit
  <1>2. HistoryOK
    BY <1>1, SingleDocument, HistoryAssumption DEF BrowserInit, HistoryOK, NeighboursDiffer
  <1> QED BY <1>2 DEF BrowserInit, BrowserInv, PhotoOK, PhotoBelongs, Categories

LEMMA BrowserStep == BrowserInv /\ [BrowserNext]_browserVars => BrowserInv'
  <1> SUFFICES ASSUME BrowserInv, [BrowserNext]_browserVars PROVE BrowserInv'
    OBVIOUS
  <1>1. ASSUME photo' = NoPhoto, category' \in Categories PROVE PhotoOK'
    BY <1>1 DEF PhotoOK, PhotoBelongs
  <1>2. ASSUME UNCHANGED <<history, index>> PROVE HistoryOK' /\ UNCHANGED Selected
    BY <1>2 DEF BrowserInv, HistoryOK, NeighboursDiffer, Selected
  <1>3. ASSUME NEW d \in Documents, LaunchBrowser(d) PROVE BrowserInv'
    <2>1. history' = <<d>> /\ index' = 1 /\ photo' = NoPhoto /\ category' = category
      BY <1>3 DEF LaunchBrowser
    <2>2. HistoryOK'
      BY <2>1, SingleDocument, HistoryAssumption DEF HistoryOK, NeighboursDiffer
    <2> QED BY <1>1, <2>1, <2>2 DEF BrowserInv, PhotoOK
  <1>4. ASSUME NEW d \in Documents, Navigate(d) PROVE BrowserInv'
    <2>1. photo' = NoPhoto /\ category' = category /\ d # history[index]
      BY <1>4 DEF Navigate, Selected
    <2>2. /\ index \in Nat \ {0} /\ MaxHistory \in Nat \ {0} /\ index <= Len(history)
          /\ Len(history) \in Nat /\ Len(history) <= MaxHistory
          /\ \A i \in 1..Len(history) - 1 : history[i] # history[i + 1]
      BY HistoryAssumption, LenProperties DEF BrowserInv, HistoryOK, NeighboursDiffer
    <2>3. /\ history' \in Seq(Documents) /\ index' = Len(history')
          /\ \/ /\ index + 1 <= MaxHistory /\ Len(history') = index + 1
                /\ \A i \in 1..index : history'[i] = history[i]
                /\ history'[index + 1] = d
             \/ /\ index = MaxHistory /\ Len(history') = index
                /\ \A i \in 1..index - 1 : history'[i] = history[i + 1]
                /\ history'[index] = d
      BY <1>4, Visited DEF BrowserInv
    <2>4. ASSUME NEW i \in 1..Len(history') - 1 PROVE history'[i] # history'[i + 1]
      <3>1. CASE index + 1 <= MaxHistory /\ Len(history') = index + 1
        <4>1. \A j \in 1..index : history'[j] = history[j]
          BY <2>2, <2>3, <3>1
        <4>2. history'[index + 1] = d
          BY <2>2, <2>3, <3>1
        <4>3. CASE i = index
          <5>1. history'[i] = history[index]
            BY <2>2, <4>1, <4>3
          <5> QED BY <2>1, <4>2, <4>3, <5>1
        <4>4. CASE i # index
          <5>1. i \in 1..index /\ i + 1 \in 1..index /\ i \in 1..Len(history) - 1
            BY <2>2, <3>1, <4>4
          <5> QED BY <2>2, <4>1, <5>1
        <4> QED BY <4>3, <4>4
      <3>2. CASE index = MaxHistory /\ Len(history') = index
        <4>1. \A j \in 1..index - 1 : history'[j] = history[j + 1]
          BY <2>2, <2>3, <3>2
        <4>2. history'[index] = d
          BY <2>2, <2>3, <3>2
        <4>3. i + 1 \in 1..index /\ history'[i] = history[i + 1]
          BY <2>2, <3>2, <4>1
        <4>4. CASE i + 1 = index
          BY <2>1, <4>2, <4>3, <4>4
        <4>5. CASE i + 1 # index
          <5>1. i + 1 \in 1..index - 1 /\ i + 1 \in 1..Len(history) - 1
            BY <2>2, <3>2, <4>5
          <5> QED BY <2>2, <4>1, <4>3, <5>1
        <4> QED BY <4>4, <4>5
      <3> QED BY <2>3, <3>1, <3>2
    <2>5. HistoryOK'
      BY <2>2, <2>3, <2>4 DEF HistoryOK, NeighboursDiffer
    <2> QED BY <1>1, <2>1, <2>5 DEF BrowserInv, PhotoOK
  <1>5. CASE Backward \/ Forward
    <2>1. /\ index' \in DOMAIN history /\ photo' = NoPhoto /\ UNCHANGED <<history, category>>
      BY <1>5 DEF Backward, Forward, Travel
    <2>2. HistoryOK'
      BY <2>1, LenProperties DEF BrowserInv, HistoryOK, NeighboursDiffer
    <2> QED BY <1>1, <2>1, <2>2 DEF BrowserInv, PhotoOK
  <1>6. ASSUME NEW c \in Categories, ChooseCategory(c) PROVE BrowserInv'
    BY <1>1, <1>2, <1>6 DEF ChooseCategory, BrowserInv
  <1>7. ASSUME NEW i \in DOMAIN Gallery, OpenPhoto(i) PROVE BrowserInv'
    <2>1. /\ Selected = "minecraft" /\ i \in Images /\ photo' = i
          /\ UNCHANGED <<history, index, category>>
      BY <1>7 DEF OpenPhoto
    <2>2. UNCHANGED Images /\ i \in 1..3
      BY <2>1, ImagesAre DEF Images
    <2>3. PhotoOK'
      BY <1>2, <2>1, <2>2 DEF PhotoOK, PhotoBelongs, BrowserInv
    <2> QED BY <1>2, <2>1, <2>3 DEF BrowserInv
  <1>8. CASE ClosePhoto
    BY <1>1, <1>2, <1>8 DEF ClosePhoto, BrowserInv, PhotoOK
  <1>9. ASSUME NEW direction \in {1, 0 - 1}, StepPhoto(direction) PROVE BrowserInv'
    <2> DEFINE count == Cardinality(Images)
               current == Cardinality({j \in Images : j < photo})
               k == (current + direction + count) % count
    <2>1. /\ photo \in Images /\ count >= 2 /\ photo' = NthImage(k)
          /\ UNCHANGED <<history, index, category>>
      BY <1>9 DEF StepPhoto
    <2>2. IsFiniteSet(Images) /\ Images \subseteq 1..3
      <3>1. IsFiniteSet(1..3)
        <4>1. 1 \in Int /\ 3 \in Int
          OBVIOUS
        <4> QED BY <4>1, FS_Interval, Zenon
      <3> QED BY <3>1, ImagesAre, FS_Subset
    <2>3. count \in Nat /\ current \in Nat
      BY <2>2, FS_Subset, FS_CardinalityType
    <2>4. k \in 0..count - 1
      <3> HIDE DEF count, current
      <3> QED BY <2>1, <2>3
    <2>5. photo' \in Images
      <3> HIDE DEF k
      <3>1. category \in Categories
        BY DEF BrowserInv, PhotoOK
      <3> QED BY <2>1, <2>4, <3>1, NthIsImage
    <2>6. UNCHANGED Images /\ photo # NoPhoto
      BY <2>1, <2>2 DEF Images, NoPhoto
    <2>7. PhotoOK'
      BY <1>2, <2>1, <2>2, <2>5, <2>6 DEF PhotoOK, PhotoBelongs, BrowserInv
    <2> QED BY <1>2, <2>1, <2>7 DEF BrowserInv
  <1>10. CASE UNCHANGED browserVars
    <2>1. UNCHANGED <<history, index, category, photo>>
      BY <1>10 DEF browserVars
    <2>2. UNCHANGED Images
      BY <2>1 DEF Images
    <2> QED BY <1>2, <2>1, <2>2 DEF BrowserInv, PhotoOK, PhotoBelongs
  <1> QED BY <1>3, <1>4, <1>5, <1>6, <1>7, <1>8, <1>9, <1>10 DEF BrowserNext

LEMMA BrowserInvSound == BrowserInv => BrowserSound
  <1> SUFFICES ASSUME BrowserInv PROVE BrowserSound
    OBVIOUS
  <1>1. DOMAIN history = 1..Len(history) /\ DOMAIN Gallery = 1..3
    BY LenProperties DEF BrowserInv, HistoryOK, Gallery
  <1> QED BY <1>1 DEF BrowserInv, HistoryOK, PhotoOK, BrowserSound, BrowserTypeOK

\* The browser, for a memory of any length: a photograph that is shown belongs
\* to the page and its filter, and no page follows itself in the history.
THEOREM BrowserIsSound == BrowserSpec => []BrowserSound
  BY BrowserFirst, BrowserStep, BrowserInvSound, PTL DEF BrowserSpec

-----------------------------------------------------------------------------
(* The browser implements two stacks.                                      *)

LEMMA StacksBegin == BrowserInit => Stacks!HistoryInit
  <1> SUFFICES ASSUME BrowserInit PROVE Stacks!HistoryInit
    OBVIOUS
  <1>1. PICK d \in Documents : history = <<d>> /\ index = 1
    BY DEF BrowserInit
  <1>2. SubSeq(history, 1, 0) = <<>> /\ SubSeq(history, 2, 1) = <<>>
    BY SubSeqEmpty
  <1>3. Len(history) = 1 /\ history[1] = d
    BY <1>1, SingleDocument
  <1> QED BY <1>1, <1>2, <1>3 DEF Stacks!HistoryInit

\* The two stacks of a history, place by place.
LEMMA StacksAre ==
    ASSUME NEW h \in Seq(Documents), NEW i \in 1..Len(h)
    PROVE  /\ SubSeq(h, 1, i - 1) \in Seq(Documents) /\ Len(SubSeq(h, 1, i - 1)) = i - 1
           /\ \A j \in 1..i - 1 : SubSeq(h, 1, i - 1)[j] = h[j]
           /\ SubSeq(h, i + 1, Len(h)) \in Seq(Documents)
           /\ Len(SubSeq(h, i + 1, Len(h))) = Len(h) - i
           /\ \A j \in 1..Len(h) - i : SubSeq(h, i + 1, Len(h))[j] = h[i + j]
           /\ Append(SubSeq(h, 1, i - 1), h[i]) = SubSeq(h, 1, i)
           /\ SubSeq(h, 1, i) \in Seq(Documents) /\ Len(SubSeq(h, 1, i)) = i
           /\ \A j \in 1..i : SubSeq(h, 1, i)[j] = h[j]
  <1>1. Len(h) \in Nat /\ \A j \in 1..Len(h) : h[j] \in Documents
    BY ElementOfSeq, LenProperties
  <1>2. /\ SubSeq(h, 1, i - 1) \in Seq(Documents) /\ Len(SubSeq(h, 1, i - 1)) = i - 1
        /\ \A j \in 1..i - 1 : SubSeq(h, 1, i - 1)[j] = h[j]
    BY <1>1, SubSeqProperties
  <1>3. /\ SubSeq(h, i + 1, Len(h)) \in Seq(Documents)
        /\ Len(SubSeq(h, i + 1, Len(h))) = Len(h) - i
        /\ \A j \in 1..Len(h) - i : SubSeq(h, i + 1, Len(h))[j] = h[i + j]
    BY <1>1, SubSeqProperties
  <1>4. /\ SubSeq(h, 1, i) \in Seq(Documents) /\ Len(SubSeq(h, 1, i)) = i
        /\ \A j \in 1..i : SubSeq(h, 1, i)[j] = h[j]
    BY <1>1, SubSeqProperties
  <1>5. Append(SubSeq(h, 1, i - 1), h[i]) = SubSeq(h, 1, i)
    <2> DEFINE s == Append(SubSeq(h, 1, i - 1), h[i])
    <2>1. /\ s \in Seq(Documents) /\ Len(s) = i - 1 + 1 /\ s[i - 1 + 1] = h[i]
          /\ \A j \in 1..i - 1 : s[j] = h[j]
      BY <1>1, <1>2, AppendProperties
    <2> HIDE DEF s
    <2>2. Len(s) = i /\ \A j \in 1..i : s[j] = h[j]
      BY <1>1, <2>1
    <2>3. s = SubSeq(h, 1, i)
      BY <1>4, <2>1, <2>2, SeqEqual
    <2> QED BY <2>3 DEF s
  <1> QED BY <1>2, <1>3, <1>4, <1>5

LEMMA HistoryIs ==
    ASSUME HistoryOK
    PROVE  /\ history \in Seq(Documents) /\ Len(history) \in Nat /\ index \in 1..Len(history)
           /\ DOMAIN history = 1..Len(history)
                 /\ \A i \in 1..Len(history) : history[i] \in Documents
  BY LenProperties, ElementOfSeq DEF HistoryOK

LEMMA VisitsStack ==
    ASSUME HistoryOK, NEW d \in Documents, Navigate(d)
    PROVE  Stacks!Visit(d)
  <1> DEFINE stack == SubSeq(history, 1, index)
             back == SubSeq(history', 1, index' - 1)
  <1>1. /\ stack \in Seq(Documents) /\ Len(stack) = index
        /\ \A j \in 1..index : stack[j] = history[j]
        /\ Append(SubSeq(history, 1, index - 1), history[index]) = stack
    BY HistoryIs, StacksAre
  <1>2. /\ history' \in Seq(Documents) /\ index' = Len(history') /\ index' \in 1..Len(history')
        /\ Len(history') \in Nat /\ index \in Nat \ {0} /\ MaxHistory \in Nat
    BY HistoryIs, Visited, HistoryAssumption
  <1>3. /\ back \in Seq(Documents) /\ Len(back) = index' - 1
        /\ \A j \in 1..index' - 1 : back[j] = history'[j]
    BY <1>2, StacksAre
  <1>4. SubSeq(history', index' + 1, Len(history')) = <<>>
    BY <1>2, SubSeqEmpty
  <1> HIDE DEF stack, back
  <1>5. history'[index'] = d
    BY <1>2, Visited
  <1>6. back = IF Len(stack) < MaxHistory THEN stack ELSE Tail(stack)
    <2>1. CASE index + 1 <= MaxHistory
      <3>1. index' = index + 1 /\ \A i \in 1..index : history'[i] = history[i]
        BY <1>2, <2>1, Visited
      <3>2. Len(back) = Len(stack) /\ \A i \in 1..Len(back) : back[i] = stack[i]
        BY <1>1, <1>2, <1>3, <3>1
      <3>3. back = stack
        BY <1>1, <1>3, <3>2, SeqEqual
      <3> QED BY <1>1, <1>2, <2>1, <3>3
    <2>2. CASE ~(index + 1 <= MaxHistory)
      <3>1. index = MaxHistory /\ index' = index
            /\ \A i \in 1..index - 1 : history'[i] = history[i + 1]
        BY <1>2, <2>2, Visited
      <3>2. stack # <<>>
        BY <1>1, <1>2, EmptySeq
      <3>3. /\ Tail(stack) \in Seq(Documents) /\ Len(Tail(stack)) = index - 1
            /\ \A i \in 1..Len(Tail(stack)) : Tail(stack)[i] = stack[i + 1]
        BY <1>1, <3>2, HeadTailProperties
      <3>4. Len(back) = Len(Tail(stack)) /\ \A i \in 1..Len(back) : back[i] = Tail(stack)[i]
        BY <1>1, <1>2, <1>3, <3>1, <3>3
      <3>5. back = Tail(stack)
        BY <1>3, <3>3, <3>4, SeqEqual
      <3> QED BY <1>1, <1>2, <3>1, <3>5
    <2> QED BY <2>1, <2>2
  <1>7. d # history[index]
    BY DEF Navigate, Selected
  <1> QED BY <1>1, <1>4, <1>5, <1>6, <1>7 DEF Stacks!Visit, back

LEMMA LaunchesStack ==
    ASSUME NEW d \in Documents, LaunchBrowser(d)
    PROVE  Stacks!StartAt(d)
  <1>1. history' = <<d>> /\ index' = 1
    BY DEF LaunchBrowser
  <1>2. Len(history') = 1 /\ history'[1] = d
    BY <1>1, SingleDocument
  <1>3. SubSeq(history', 1, 0) = <<>> /\ SubSeq(history', 2, 1) = <<>>
    BY SubSeqEmpty
  <1> QED BY <1>1, <1>2, <1>3 DEF Stacks!StartAt

LEMMA GoesBack ==
    ASSUME HistoryOK, Backward
    PROVE  Stacks!GoBack
  <1>1. /\ history' = history /\ index' = index - 1 /\ index \in 2..Len(history)
        /\ index \in 1..Len(history) /\ index - 1 \in 1..Len(history) /\ index \in Nat
    BY HistoryIs DEF Backward, Travel
  <1> DEFINE back == SubSeq(history, 1, index - 1)
             ahead == SubSeq(history, index + 1, Len(history))
  <1>2. /\ back \in Seq(Documents) /\ Len(back) = index - 1
        /\ \A j \in 1..index - 1 : back[j] = history[j]
    BY <1>1, HistoryIs, StacksAre
  <1>3. back # <<>> /\ back[Len(back)] = history[index - 1]
    BY <1>1, <1>2, EmptySeq
  <1>4. SubSeq(back, 1, Len(back) - 1) = SubSeq(history, 1, index - 1 - 1)
    <2>1. /\ SubSeq(history, 1, index - 1 - 1) \in Seq(Documents)
          /\ Len(SubSeq(history, 1, index - 1 - 1)) = index - 1 - 1
          /\ \A j \in 1..index - 1 - 1 : SubSeq(history, 1, index - 1 - 1)[j] = history[j]
      BY <1>1, HistoryIs, StacksAre
    <2>2. /\ SubSeq(back, 1, Len(back) - 1) \in Seq(Documents)
          /\ Len(SubSeq(back, 1, Len(back) - 1)) = Len(back) - 1
          /\ \A j \in 1..Len(back) - 1 : SubSeq(back, 1, Len(back) - 1)[j] = back[j]
      <3>1. Len(back) \in 1..Len(back)
        BY <1>1, <1>2
      <3> QED BY <1>2, <3>1, StacksAre
    <2>3. \A j \in 1..index - 1 - 1 : SubSeq(back, 1, Len(back) - 1)[j] = history[j]
      BY <1>1, <1>2, <2>2
    <2> HIDE DEF back
    <2> QED BY <1>2, <2>1, <2>2, <2>3, SeqEqual
  <1>5. SubSeq(history, index - 1 + 1, Len(history)) = <<history[index]>> \o ahead
    <2>1. Len(history) \in index..Len(history)
      BY <1>1, HistoryIs
    <2>2. SubSeq(history, index, Len(history)) = <<history[index]>> \o ahead
      BY <1>1, <2>1, HistoryIs, SubSeqRecursiveFirst
    <2> QED BY <1>1, <2>2
  <1> QED BY <1>1, <1>3, <1>4, <1>5 DEF Stacks!GoBack

LEMMA GoesForward ==
    ASSUME HistoryOK, Forward
    PROVE  Stacks!GoForward
  <1>1. /\ history' = history /\ index' = index + 1 /\ index \in 1..Len(history)
        /\ index + 1 \in 1..Len(history) /\ Len(history) \in index + 1..Len(history)
    BY HistoryIs DEF Forward, Travel
  <1> DEFINE ahead == SubSeq(history, index + 1, Len(history))
  <1>2. ahead \in Seq(Documents) /\ Len(ahead) = Len(history) - index
    BY <1>1, HistoryIs, StacksAre
  <1>3. ahead # <<>>
    <2>0. Len(history) \in Nat
      BY HistoryIs
    <2>1. Len(ahead) # 0
      <3> HIDE DEF ahead
      <3> QED BY <1>1, <1>2, <2>0
    <2>2. Len(<<>>) = 0
      OBVIOUS
    <2> QED BY <2>1, <2>2
  <1>4. Head(ahead) = history[index + 1] /\ Tail(ahead) = SubSeq(history, index + 1 + 1,
        Len(history))
    BY <1>1, HistoryIs, HeadTailOfSubSeq
  <1>5. Append(SubSeq(history, 1, index - 1), history[index]) = SubSeq(history, 1, index + 1 - 1)
    <2>1. index + 1 - 1 = index
      BY <1>1
    <2> QED BY <1>1, <2>1, HistoryIs, StacksAre
  <1> QED BY <1>1, <1>3, <1>4, <1>5 DEF Stacks!GoForward

LEMMA StacksStep ==
    BrowserInv /\ [BrowserNext]_browserVars => [Stacks!HistoryNext]_(Stacks!historyVars)
  <1> SUFFICES ASSUME BrowserInv, [BrowserNext]_browserVars
               PROVE  [Stacks!HistoryNext]_(Stacks!historyVars)
    OBVIOUS
  <1>1. HistoryOK
    BY DEF BrowserInv
  <1>2. ASSUME UNCHANGED <<history, index>> PROVE UNCHANGED Stacks!historyVars
    BY <1>2 DEF Stacks!historyVars
  <1>3. ASSUME NEW d \in Documents, LaunchBrowser(d) PROVE Stacks!HistoryNext
    BY <1>3, LaunchesStack DEF Stacks!HistoryNext
  <1>4. ASSUME NEW d \in Documents, Navigate(d) PROVE Stacks!HistoryNext
    BY <1>1, <1>4, VisitsStack DEF Stacks!HistoryNext
  <1>5. ASSUME Backward PROVE Stacks!HistoryNext
    BY <1>1, <1>5, GoesBack DEF Stacks!HistoryNext
  <1>6. ASSUME Forward PROVE Stacks!HistoryNext
    BY <1>1, <1>6, GoesForward DEF Stacks!HistoryNext
  <1>7. ASSUME \/ \E c \in Categories : ChooseCategory(c)
               \/ \E i \in DOMAIN Gallery : OpenPhoto(i)
               \/ ClosePhoto \/ StepPhoto(1) \/ StepPhoto(0 - 1) \/ UNCHANGED browserVars
        PROVE  UNCHANGED <<history, index>>
    BY <1>7 DEF ChooseCategory, OpenPhoto, ClosePhoto, StepPhoto, browserVars
  <1> QED BY <1>2, <1>3, <1>4, <1>5, <1>6, <1>7 DEF BrowserNext

\* One array with an index, cut at any length, behaves as two stacks of pages.
THEOREM ImplementsStacks == BrowserSpec => BehavesAsStacks
  BY StacksBegin, StacksStep, BrowserFirst, BrowserStep, PTL
  DEF BrowserSpec, BehavesAsStacks, Stacks!HistorySpec

-----------------------------------------------------------------------------
(* The wallet window.                                                      *)

EventSet ==
    ({"account"} \X (Accounts \cup {Nobody})) \cup ({"chain"} \X Chains)
       \cup ({"disconnect"} \X {Nobody})

\* What travels, and as many events as the wallet has made, at most.
EventsInv == events \in Seq(EventSet) /\ Len(events) <= changes

\* A request belongs to a window that is open; a closed window keeps nothing,
\* and a send that outlived its window is stale.
WindowInv ==
    /\ ~open => op = Idle /\ ~listening /\ account = Nobody /\ ~review
    /\ op.kind = "none" => op = Idle
    /\ op.step = "hash" => op.kind = "send"
    /\ orphan = Idle \/ (orphan.kind = "send" /\ orphan.stale)

\* The review is of the account and the amount in the form, and a send that is
\* not stale is of what was reviewed.
ReviewInv ==
    /\ review => account # Nobody /\ reviewed = <<account, amount>>
    /\ op.kind = "connect" => ~review
    /\ op.kind = "send" /\ ~op.stale => reviewed = <<op.from, op.value>>
    /\ asReviewed

\* A send starts only when nothing is open, and a transaction that was asked
\* for is counted once, by the request or by the transfer that is pending.
DoubtInv ==
    /\ unsettled \in {0, 1}
    /\ op.kind = "send" => transfer # "pending" /\ ~uncertain
    /\ op.step = "hash" => unsettled = 1
    /\ transfer = "pending" => unsettled = 1
    /\ DoubtIsShown

SponsorInv == SponsorTypeOK /\ EventsInv /\ WindowInv /\ ReviewInv /\ DoubtInv

LEMMA IdleIsOp ==
    /\ Idle \in Ops
    /\ Idle.kind = "none" /\ Idle.step = "none" /\ ~Idle.stale /\ Idle.value \in Amounts
  BY SponsorAssumption DEF Idle, Ops

LEMMA SponsorFirst == SponsorInit => SponsorInv
  <1> SUFFICES ASSUME SponsorInit PROVE SponsorInv
    OBVIOUS
  <1>1. EventsInv
    BY DEF SponsorInit, EventsInv
  <1>2. SponsorTypeOK
    <2>1. Len(events) <= MaxEvents /\ changes \in 0..MaxEvents
      BY <1>1, SponsorAssumption DEF SponsorInit, EventsInv
    <2>2. op \in Ops /\ orphan \in Ops /\ reviewed \in {Nothing} \cup (Accounts \X Amounts)
      BY IdleIsOp DEF SponsorInit
    <2>3. /\ walletAccount \in Accounts \cup {Nobody} /\ walletChain \in Chains
          /\ account \in Accounts \cup {Nobody} /\ chain \in Chains \cup {NoChain}
          /\ amount \in Amounts /\ transfer \in {"none", "pending", "confirmed", "failed"}
      BY IdleIsOp DEF SponsorInit
    <2>4. polls \in 0..MaxPolls /\ requests \in 0..MaxRequests
      BY SponsorAssumption DEF SponsorInit
    <2>5. {open, listening, review, uncertain, asReviewed} \subseteq BOOLEAN
      BY DEF SponsorInit
    <2> QED BY <2>1, <2>2, <2>3, <2>4, <2>5 DEF SponsorTypeOK
  <1>3. WindowInv /\ ReviewInv /\ DoubtInv
    BY SponsorAssumption, IdleIsOp
    DEF SponsorInit, WindowInv, ReviewInv, DoubtInv, DoubtIsShown
  <1> QED BY <1>1, <1>2, <1>3 DEF SponsorInv

\* Appending an event the wallet makes, and taking the first.
LEMMA EventAppended ==
    ASSUME EventsInv, NEW e \in EventSet, changes \in Nat,
           events' = Append(events, e), changes' = changes + 1
    PROVE  EventsInv'
  BY DEF EventsInv

LEMMA EventTaken ==
    ASSUME EventsInv, events # <<>>, changes \in Nat,
           events' = Tail(events), changes' = changes
    PROVE  EventsInv' /\ Head(events) \in EventSet /\ Len(events') < Len(events)
  BY DEF EventsInv

LEMMA WalletNext ==
    ASSUME SponsorInv, WalletChanges \/ WalletEvent
    PROVE  SponsorInv'
  <1> USE SponsorAssumption, IdleIsOp
  <1>1. CASE WalletChanges
    <2>1. EventsInv'
      <3>1. changes \in Nat /\ changes' = changes + 1
        BY <1>1 DEF WalletChanges, SponsorInv, SponsorTypeOK
      <3>2. \E e \in EventSet : events' = Append(events, e)
        BY <1>1 DEF WalletChanges, EventSet
      <3> QED BY <3>1, <3>2, EventAppended DEF SponsorInv
    <2>2. SponsorTypeOK'
      <3>1. changes' \in 0..MaxEvents
        BY <1>1 DEF WalletChanges, SponsorInv, SponsorTypeOK
      <3>2. Len(events') <= MaxEvents
        BY <2>1, <3>1 DEF EventsInv
      <3> QED BY <1>1, <3>1, <3>2
        DEF WalletChanges, SponsorInv, SponsorTypeOK, linkVars, formVars, ghostVars
    <2>3. WindowInv' /\ ReviewInv' /\ DoubtInv'
      BY <1>1 DEF WalletChanges, SponsorInv, WindowInv, ReviewInv, DoubtInv, DoubtIsShown,
            linkVars,
           formVars, ghostVars
    <2> QED BY <2>1, <2>2, <2>3 DEF SponsorInv
  <1>2. CASE WalletEvent
    <2>1. EventsInv' /\ Head(events) \in EventSet /\ Len(events') < Len(events)
      BY <1>2, EventTaken DEF WalletEvent, SponsorInv, SponsorTypeOK
    <2>2. Len(events') <= MaxEvents
      BY <2>1, <1>2 DEF EventsInv, WalletEvent, SponsorInv, SponsorTypeOK
    <2>3. CASE listening
      <3>1. /\ account' \in Accounts \cup {Nobody}
            /\ chain' \in Chains \cup {NoChain}
        BY <1>2, <2>1, <2>3 DEF WalletEvent, Heard, EventSet, SponsorInv, SponsorTypeOK
      <3>2. op' \in Ops /\ op'.kind = op.kind /\ op'.step = op.step /\ (op'.stale <=> Busy)
            /\ (op.kind = "none" => op' = op) /\ op'.from = op.from /\ op'.value = op.value
        BY <1>2, <2>3 DEF WalletEvent, SponsorInv, SponsorTypeOK, WindowInv, Ops, Busy
      <3>3. SponsorTypeOK'
        BY <1>2, <2>2, <2>3, <3>1, <3>2
        DEF WalletEvent, SponsorInv, SponsorTypeOK
      <3>4. WindowInv' /\ ReviewInv' /\ DoubtInv'
        <4>1. open \/ ~listening' \/ TRUE
          OBVIOUS
        <4> QED BY <1>2, <2>3, <3>2
          DEF WalletEvent, SponsorInv, WindowInv, ReviewInv, DoubtInv, DoubtIsShown, Busy
      <3> QED BY <2>1, <3>3, <3>4 DEF SponsorInv
    <2>4. CASE ~listening
      BY <1>2, <2>1, <2>2, <2>4
      DEF WalletEvent, SponsorInv, SponsorTypeOK, WindowInv, ReviewInv, DoubtInv, DoubtIsShown
    <2> QED BY <2>3, <2>4
  <1> QED BY <1>1, <1>2

\* Connecting, switching and the form: no request for a transaction moves.
LEMMA FormNext ==
    ASSUME SponsorInv,
           \/ Connect \/ ConnectAnswered \/ DisconnectSite \/ SwitchNetwork
           \/ SwitchAnswered \/ Review \/ BackToForm
           \/ \E a \in Amounts : EditAmount(a)
    PROVE  SponsorInv'
  <1> USE SponsorAssumption, IdleIsOp DEF Busy
  <1>1. EventsInv'
    BY DEF SponsorInv, EventsInv, Connect, ConnectAnswered, DisconnectSite, SwitchNetwork,
           SwitchAnswered, Review, BackToForm, EditAmount, walletVars
  <1>2. CASE Connect
    <2>1. op' \in Ops /\ op'.kind = "connect" /\ op'.step = "accounts" /\ ~op'.stale
      BY <1>2 DEF Connect, Starts, Ops
    <2> QED BY <1>1, <1>2, <2>1
      DEF Connect, SponsorInv, SponsorTypeOK, WindowInv, ReviewInv, DoubtInv, DoubtIsShown,
          walletVars, linkVars, formVars, ghostVars
  <1>3. CASE ConnectAnswered
    <2>1. op' \in Ops /\ op'.kind \in {"connect", "none"} /\ op'.step # "hash"
          /\ (op'.kind = "none" => op' = Idle)
      BY <1>3 DEF ConnectAnswered, SponsorInv, SponsorTypeOK, Ops
    <2>2. /\ account' \in Accounts \cup {Nobody} /\ chain' \in Chains \cup {NoChain}
          /\ listening' \in BOOLEAN /\ ~review /\ open
      BY <1>3 DEF ConnectAnswered, SponsorInv, SponsorTypeOK, WindowInv, ReviewInv, Ops, linkVars
    <2> QED BY <1>1, <1>3, <2>1, <2>2
      DEF ConnectAnswered, SponsorInv, SponsorTypeOK, WindowInv, ReviewInv, DoubtInv,
            DoubtIsShown,
          walletVars, formVars, ghostVars
  <1>4. CASE DisconnectSite
    BY <1>1, <1>4
    DEF DisconnectSite, SponsorInv, SponsorTypeOK, WindowInv, ReviewInv, DoubtInv, DoubtIsShown,
        walletVars
  <1>5. CASE SwitchNetwork
    <2>1. op' \in Ops /\ op'.kind = "switch" /\ op'.step = "chain" /\ ~op'.stale
      BY <1>5 DEF SwitchNetwork, Starts, Ops
    <2> QED BY <1>1, <1>5, <2>1
      DEF SwitchNetwork, SponsorInv, SponsorTypeOK, WindowInv, ReviewInv, DoubtInv, DoubtIsShown,
          walletVars, linkVars, formVars, ghostVars
  <1>6. CASE SwitchAnswered
    BY <1>1, <1>6
    DEF SwitchAnswered, SponsorInv, SponsorTypeOK, WindowInv, ReviewInv, DoubtInv, DoubtIsShown,
        walletVars, formVars, ghostVars
  <1>7. CASE Review \/ BackToForm
    <2>1. SponsorTypeOK'
      <3>1. reviewed' \in {Nothing} \cup (Accounts \X Amounts) /\ review' \in BOOLEAN
        <4>1. CASE Review
          <5>1. reviewed' = <<account, amount>> /\ review' = TRUE /\ account # Nobody
            BY <4>1 DEF Review
          <5>2. account \in Accounts /\ amount \in Amounts
            BY <5>1 DEF SponsorInv, SponsorTypeOK
          <5> QED BY <5>1, <5>2
        <4>2. CASE BackToForm
          BY <4>2 DEF BackToForm
        <4> QED BY <1>7, <4>1, <4>2
      <3> QED BY <1>7, <3>1 DEF Review, BackToForm, SponsorInv, SponsorTypeOK, walletVars,
            linkVars
    <2>2. WindowInv'
      BY <1>7 DEF Review, BackToForm, SponsorInv, WindowInv, walletVars, linkVars
    <2>3. ReviewInv'
      BY <1>7 DEF Review, BackToForm, SponsorInv, ReviewInv, WindowInv, walletVars, linkVars
    <2>4. DoubtInv'
      BY <1>7 DEF Review, BackToForm, SponsorInv, DoubtInv, DoubtIsShown, walletVars, linkVars
    <2> QED BY <1>1, <2>1, <2>2, <2>3, <2>4 DEF SponsorInv
  <1>8. CASE \E a \in Amounts : EditAmount(a)
    BY <1>1, <1>8
    DEF EditAmount, SponsorInv, SponsorTypeOK, WindowInv, ReviewInv, DoubtInv, DoubtIsShown,
        walletVars, linkVars, ghostVars
  <1> QED BY <1>2, <1>3, <1>4, <1>5, <1>6, <1>7, <1>8

\* The transfer: asked for as reviewed, and counted until its fate is known.
LEMMA TransferNext ==
    ASSUME SponsorInv, Send \/ SendProceeds \/ SendAnswered \/ Poll
    PROVE  SponsorInv'
  <1> USE SponsorAssumption, IdleIsOp DEF Busy
  <1>1. EventsInv'
    BY DEF SponsorInv, EventsInv, Send, SendProceeds, SendAnswered, Poll, walletVars
  <1>2. CASE Send
    <2>1. op' \in Ops /\ op'.kind = "send" /\ op'.step = "accounts" /\ ~op'.stale
          /\ op'.from = account /\ op'.value = amount
      BY <1>2 DEF Send, Ops, SponsorInv, SponsorTypeOK
    <2> QED BY <1>1, <1>2, <2>1
      DEF Send, SponsorInv, SponsorTypeOK, WindowInv, ReviewInv, DoubtInv, DoubtIsShown,
          walletVars, linkVars, formVars, ghostVars
  <1>3. CASE SendProceeds
    <2>1. CASE op.step = "accounts" /\ op' = ReadAccounts(op) /\ UNCHANGED <<uncertain,
          ghostVars>>
      <3>1. op' \in Ops /\ op'.kind = op.kind /\ op'.step = "chain"
            /\ op'.stale = op.stale /\ op'.from = op.from /\ op'.value = op.value
        BY <2>1 DEF ReadAccounts, Ops, SponsorInv, SponsorTypeOK
      <3> QED BY <1>1, <1>3, <2>1, <3>1
        DEF SendProceeds, SponsorInv, SponsorTypeOK, WindowInv, ReviewInv, DoubtInv, DoubtIsShown,
            walletVars, linkVars, ghostVars
    <2>2. CASE /\ op.step = "chain" /\ MayRequest(op)
               /\ op' = [op EXCEPT !.step = "hash"]
               /\ Request(op) /\ UNCHANGED uncertain
      <3>1. op' \in Ops /\ op'.kind = op.kind /\ op'.step = "hash" /\ ~op.stale
            /\ op'.stale = op.stale /\ op'.from = op.from /\ op'.value = op.value
        BY <2>2 DEF Ops, SponsorInv, SponsorTypeOK, MayRequest
      <3>2. open /\ op.kind = "send" /\ unsettled = 0
        BY <1>3, <2>2 DEF SendProceeds, SponsorInv, WindowInv, DoubtInv, DoubtIsShown
      <3>3. asReviewed' /\ asReviewed' \in BOOLEAN /\ requests' \in 0..MaxRequests
        <4>1. asReviewed' <=> (open /\ reviewed = <<op.from, op.value>>)
          BY <2>2 DEF Request
        <4>2. open /\ reviewed = <<op.from, op.value>>
          BY <3>1, <3>2 DEF SponsorInv, ReviewInv
        <4>3. requests' \in 0..MaxRequests
          BY <2>2 DEF Request, SponsorInv, SponsorTypeOK
        <4>4. asReviewed' \in BOOLEAN
          BY <2>2 DEF Request
        <4> QED BY <4>1, <4>2, <4>3, <4>4
      <3> QED BY <1>1, <1>3, <2>2, <3>1, <3>2, <3>3
        DEF SendProceeds, Request, SponsorInv, SponsorTypeOK, WindowInv, ReviewInv, DoubtInv,
            DoubtIsShown, walletVars, linkVars
    <2>3. CASE op.step # "hash" /\ op' = Idle /\ uncertain' \in {uncertain, TRUE}
               /\ UNCHANGED ghostVars
      <3>1. uncertain' \in BOOLEAN
        BY <2>3 DEF SponsorInv, SponsorTypeOK
      <3>2. uncertain => uncertain'
        BY <2>3
      <3> QED BY <1>1, <1>3, <2>3, <3>1, <3>2
        DEF SendProceeds, SponsorInv, SponsorTypeOK, WindowInv, ReviewInv, DoubtInv, DoubtIsShown,
            walletVars, linkVars, ghostVars
    <2> QED BY <1>3, <2>1, <2>2, <2>3 DEF SendProceeds
  <1>4. CASE SendAnswered
    <2>1. SponsorTypeOK'
      <3>1. /\ reviewed' \in {Nothing} \cup (Accounts \X Amounts)
            /\ review' \in BOOLEAN /\ uncertain' \in BOOLEAN
        BY <1>4 DEF SendAnswered, SponsorInv, SponsorTypeOK
      <3>2. transfer' \in {"none", "pending", "confirmed", "failed"} /\ polls' \in 0..MaxPolls
        BY <1>4 DEF SendAnswered, SponsorInv, SponsorTypeOK
      <3>3. op' \in Ops /\ UNCHANGED <<walletVars, open, linkVars, amount, orphan, requests,
            asReviewed>>
        BY <1>4 DEF SendAnswered
      <3> QED BY <3>1, <3>2, <3>3 DEF SponsorInv, SponsorTypeOK, walletVars, linkVars
    <2>2. WindowInv'
      BY <1>4 DEF SendAnswered, SponsorInv, WindowInv, walletVars, linkVars
    <2>3. ReviewInv'
      BY <1>4 DEF SendAnswered, SponsorInv, ReviewInv, WindowInv, walletVars, linkVars
    <2>4. DoubtInv'
      BY <1>4 DEF SendAnswered, SponsorInv, DoubtInv, DoubtIsShown, walletVars, linkVars
    <2> QED BY <1>1, <2>1, <2>2, <2>3, <2>4 DEF SponsorInv
  <1>5. CASE Poll
    BY <1>1, <1>5
    DEF Poll, SponsorInv, SponsorTypeOK, WindowInv, ReviewInv, DoubtInv, DoubtIsShown,
        walletVars, linkVars
  <1> QED BY <1>2, <1>3, <1>4, <1>5

\* The window: what is in flight when it closes asks for nothing any more.
LEMMA WindowNext ==
    ASSUME SponsorInv, CloseSponsor \/ OpenSponsor \/ OrphanProceeds
    PROVE  SponsorInv'
  <1> USE SponsorAssumption, IdleIsOp
  <1>1. EventsInv'
    BY DEF SponsorInv, EventsInv, CloseSponsor, OpenSponsor, OrphanProceeds, walletVars
  <1>2. CASE CloseSponsor
    <2>1. orphan' \in Ops /\ (orphan' = Idle \/ (orphan'.kind = "send" /\ orphan'.stale))
      BY <1>2 DEF CloseSponsor, SponsorInv, SponsorTypeOK, Ops
    <2>2. SponsorTypeOK'
      <3>1. /\ reviewed' \in {Nothing} \cup (Accounts \X Amounts) /\ op' \in Ops
            /\ {open', listening', review', uncertain'} \subseteq BOOLEAN
        BY <1>2 DEF CloseSponsor, Fresh
      <3>2. /\ transfer' \in {"none", "pending", "confirmed", "failed"} /\ polls' \in 0..MaxPolls
            /\ account' \in Accounts \cup {Nobody} /\ chain' \in Chains \cup {NoChain}
            /\ amount' \in Amounts
        BY <1>2 DEF CloseSponsor, Fresh
      <3>3. UNCHANGED <<walletVars, requests, asReviewed>>
        BY <1>2 DEF CloseSponsor
      <3> QED BY <2>1, <3>1, <3>2, <3>3 DEF SponsorInv, SponsorTypeOK, walletVars
    <2>3. WindowInv'
      BY <1>2, <2>1 DEF CloseSponsor, Fresh, SponsorInv, WindowInv, walletVars
    <2>4. ReviewInv'
      BY <1>2, <2>1 DEF CloseSponsor, Fresh, SponsorInv, ReviewInv, WindowInv, walletVars
    <2>5. DoubtInv'
      BY <1>2, <2>1 DEF CloseSponsor, Fresh, SponsorInv, DoubtInv, DoubtIsShown, walletVars
    <2> QED BY <1>1, <2>2, <2>3, <2>4, <2>5 DEF SponsorInv
  <1>3. CASE OpenSponsor
    BY <1>1, <1>3
    DEF OpenSponsor, SponsorInv, SponsorTypeOK, WindowInv, ReviewInv, DoubtInv, DoubtIsShown,
        walletVars, linkVars, formVars, ghostVars
  <1>4. CASE OrphanProceeds
    <2>1. orphan.kind = "send" /\ orphan.stale /\ UNCHANGED ghostVars
      BY <1>4 DEF OrphanProceeds, SponsorInv, WindowInv, MayRequest
    <2>2. orphan' \in Ops /\ (orphan' = Idle \/ (orphan'.kind = "send" /\ orphan'.stale))
      BY <1>4, <2>1 DEF OrphanProceeds, ReadAccounts, SponsorInv, SponsorTypeOK, Ops, MayRequest
    <2> QED BY <1>1, <1>4, <2>1, <2>2
      DEF OrphanProceeds, SponsorInv, SponsorTypeOK, WindowInv, ReviewInv, DoubtInv, DoubtIsShown,
          walletVars, linkVars, formVars, ghostVars
  <1> QED BY <1>2, <1>3, <1>4

LEMMA SponsorStep == SponsorInv /\ [SponsorNext]_sponsorVars => SponsorInv'
  <1> SUFFICES ASSUME SponsorInv, [SponsorNext]_sponsorVars PROVE SponsorInv'
    OBVIOUS
  <1>1. CASE UNCHANGED sponsorVars
    BY <1>1 DEF SponsorInv, SponsorTypeOK, EventsInv, WindowInv, ReviewInv, DoubtInv,
          DoubtIsShown,
      sponsorVars, walletVars, linkVars, formVars, ghostVars
  <1> QED BY <1>1, WalletNext, FormNext, TransferNext, WindowNext DEF SponsorNext

LEMMA SponsorAlways == SponsorSpec => []SponsorInv
  BY SponsorFirst, SponsorStep, PTL DEF SponsorSpec

LEMMA SponsorInvSound == SponsorInv => SponsorSound
  BY DEF SponsorInv, DoubtInv, ReviewInv, SponsorSound, NoSecondTransfer, RequestedAsReviewed

\* While a window is open, it asks the wallet for what the visitor reviewed in it
\* and for one transfer at a time, and shows one whose fate is open, whatever the
\* wallet does between the awaits of submitSponsor.  A closed window forgets.
THEOREM SponsorIsSound == SponsorSpec => []SponsorSound
  BY SponsorAlways, SponsorInvSound, PTL

-----------------------------------------------------------------------------
(* The visitor's session.                                                  *)

\* A list that is still fetched will be that of the cookie, unless the cookie
\* changed under it.
FetchInv == ~raced => \A f \in Fetches : fetches[f].active => fetches[f].as = sessionCookie

\* Until a login has changed the cookie, the page shows the visitor it names.
OwnerInv ==
    status = "ready" /\ ~raced /\ ~LoggingOut /\ login.step # "list"
       => owner = sessionCookie

\* A login is a visitor's.
LoginInv == login.step # "none" => login.who \in Visitors

VisitorInv == VisitorTypeOK /\ LoginInv /\ CookieIsEarned /\ FetchInv /\ OwnerInv

Fetch == [active: BOOLEAN, as: Visitors \cup {NoVisitor}, forLogin: BOOLEAN]
Login == [step: {"none", "session", "verify", "list"}, who: Visitors \cup {NoVisitor}]

LEMMA VisitorRecords ==
    Unused \in Fetch /\ ~Unused.active /\ NoLogin \in Login /\ NoLogin.step = "none"
  BY DEF Unused, NoLogin, Fetch, Login

LEMMA VisitorFirst == VisitorInit => VisitorInv
  <1> SUFFICES ASSUME VisitorInit PROVE VisitorInv
    OBVIOUS
  <1> USE VisitorAssumption, VisitorRecords
  <1>1. \A f \in Fetches : fetches[f] \in Fetch /\ fetches[f].as = NoVisitor
    BY DEF VisitorInit, Unused, Fetch
  <1>2. fetches \in [Fetches -> Fetch]
    BY <1>1 DEF VisitorInit
  <1>3. VisitorTypeOK
    <2>1. known \subseteq Visitors /\ logins \in 0..MaxLogins /\ raced \in BOOLEAN
      <3>1. known \subseteq Visitors /\ raced \in BOOLEAN
        BY Zenon DEF VisitorInit
      <3>2. logins \in 0..MaxLogins
        BY DEF VisitorInit
      <3> QED BY <3>1, <3>2
    <2>2. login \in Login /\ asked = 0 /\ answered = 0
      BY DEF VisitorInit
    <2>3. /\ status \in {"loading", "login", "ready"}
          /\ {sessionCookie, owner, selected} \subseteq Visitors \cup {NoVisitor}
      BY DEF VisitorInit
    <2> QED BY <1>2, <2>1, <2>2, <2>3 DEF VisitorTypeOK, Fetch, Login
  <1> QED BY <1>1, <1>3 DEF VisitorInit, VisitorInv, LoginInv, CookieIsEarned, FetchInv, OwnerInv, LoggingOut

\* The list was answered or refused: the others wait on.
LEMMA FetchEnds ==
    ASSUME VisitorTypeOK, NEW f \in Fetches, Ends(f)
    PROVE  /\ fetches' \in [Fetches -> Fetch] /\ login' \in Login
           /\ \A g \in Fetches : fetches'[g].active => g # f /\ fetches'[g] = fetches[g]
           /\ login' = login \/ login'.step = "none"
  BY VisitorRecords DEF VisitorTypeOK, Ends, Fetch, Login

\* A fetch starts, as whom the cookie now names.
LEMMA FetchStarts ==
    ASSUME VisitorTypeOK, NEW f \in Fetches, NEW b \in BOOLEAN,
           sessionCookie' \in Visitors \cup {NoVisitor},
           fetches' = [fetches EXCEPT ![f] = Started(b)]
    PROVE  /\ fetches' \in [Fetches -> Fetch]
           /\ fetches'[f].as = sessionCookie'
           /\ \A g \in Fetches : g # f => fetches'[g] = fetches[g]
  <1>1. Started(b) \in Fetch /\ Started(b).as = sessionCookie'
    BY DEF Started, Fetch
  <1>2. fetches \in [Fetches -> Fetch]
    BY DEF VisitorTypeOK, Fetch
  <1> QED BY <1>1, <1>2

LEMMA VisitorStep == VisitorInv /\ [VisitorNext]_visitorVars => VisitorInv'
  <1> SUFFICES ASSUME VisitorInv, [VisitorNext]_visitorVars PROVE VisitorInv'
    OBVIOUS
  <1> USE VisitorAssumption, VisitorRecords
  <1>1. ASSUME NEW f \in Fetches, Refresh(f) PROVE VisitorInv'
    <2>1. /\ fetches' \in [Fetches -> Fetch] /\ fetches'[f].as = sessionCookie'
          /\ \A g \in Fetches : g # f => fetches'[g] = fetches[g]
      BY <1>1, FetchStarts DEF Refresh, VisitorInv, VisitorTypeOK
    <2>2. VisitorTypeOK'
      BY <1>1, <2>1 DEF Refresh, VisitorInv, VisitorTypeOK, Fetch
    <2> QED BY <1>1, <2>1, <2>2 DEF Refresh, VisitorInv, LoginInv, CookieIsEarned, FetchInv,
          OwnerInv, LoggingOut
  <1>2. ASSUME NEW f \in Fetches, ListAnswered(f) \/ ListRefused(f) PROVE VisitorInv'
    <2>1. /\ fetches' \in [Fetches -> Fetch] /\ login' \in Login
          /\ \A g \in Fetches : fetches'[g].active => g # f /\ fetches'[g] = fetches[g]
          /\ login' = login \/ login'.step = "none"
      BY <1>2, FetchEnds DEF ListAnswered, ListRefused, VisitorInv
    <2>2. /\ owner' \in Visitors \cup {NoVisitor} /\ status' \in {"ready", "login"}
          /\ UNCHANGED <<sessionCookie, selected, asked, answered, logins, known, raced>>
      BY <1>2 DEF ListAnswered, ListRefused, VisitorInv, VisitorTypeOK
    <2>3. VisitorTypeOK'
      BY <2>1, <2>2 DEF VisitorInv, VisitorTypeOK, Fetch, Login
    <2>4. FetchInv' /\ LoginInv' /\ CookieIsEarned'
      BY <2>1, <2>2 DEF VisitorInv, LoginInv, FetchInv, CookieIsEarned
    <2>5. OwnerInv'
      BY <1>2, <2>2 DEF ListAnswered, ListRefused, VisitorInv, FetchInv, OwnerInv, LoggingOut
    <2> QED BY <2>3, <2>4, <2>5 DEF VisitorInv
  <1>3. ASSUME NEW v \in Visitors, LogIn(v) PROVE VisitorInv'
    BY <1>3 DEF LogIn, VisitorInv, VisitorTypeOK, LoginInv, CookieIsEarned, FetchInv, OwnerInv, LoggingOut
  <1>4. CASE SessionAnswered \/ LoginRefused
    <2>1. login' \in Login /\ login'.step # "list" /\ login.step # "list"
      BY <1>4 DEF SessionAnswered, LoginRefused, VisitorInv, VisitorTypeOK, Login
    <2> QED BY <1>4, <2>1
      DEF SessionAnswered, LoginRefused, VisitorInv, VisitorTypeOK, Login, LoginInv,
            CookieIsEarned,
          FetchInv, OwnerInv, LoggingOut
  <1>5. CASE LoginAccepted
    <2>1. PICK f \in Fetches :
             /\ ~fetches[f].active
             /\ fetches' = [fetches EXCEPT ![f] = Started(TRUE)]
      BY <1>5 DEF LoginAccepted
    <2>2. /\ sessionCookie' = login.who /\ known' = known \cup {login.who}
          /\ login' = [login EXCEPT !.step = "list"]
          /\ raced' = (raced \/ (InFlight # {} /\ sessionCookie' # sessionCookie))
          /\ UNCHANGED <<status, owner, selected, asked, answered, logins>>
      BY <1>5 DEF LoginAccepted
    <2>3. login' \in Login /\ login'.step = "list" /\ login'.who = login.who
          /\ login.who \in Visitors
      BY <1>5, <2>2 DEF LoginAccepted, VisitorInv, LoginInv, VisitorTypeOK, Login
    <2>4. /\ fetches' \in [Fetches -> Fetch] /\ fetches'[f].as = sessionCookie'
          /\ \A g \in Fetches : g # f => fetches'[g] = fetches[g]
      BY <2>1, <2>2, <2>3, FetchStarts DEF VisitorInv
    <2>5. FetchInv'
      <3>1. CASE \E g \in Fetches : fetches[g].active
        BY <2>2, <2>4, <3>1 DEF VisitorInv, FetchInv, InFlight
      <3>2. CASE ~\E g \in Fetches : fetches[g].active
        BY <2>4, <3>2 DEF FetchInv
      <3> QED BY <3>1, <3>2
    <2> QED BY <2>2, <2>3, <2>4, <2>5
      DEF VisitorInv, VisitorTypeOK, Fetch, Login, LoginInv, CookieIsEarned, OwnerInv,
          LoggingOut
  <1>6. CASE SelectApp \/ BackToList \/ LogOut \/ LogoutDone
    <2>1. /\ asked' \in 0..MaxLogouts /\ answered' \in 0..MaxLogouts
          /\ asked' + answered' <= MaxLogouts
          /\ status' = "ready" /\ ~LoggingOut' => ~LoggingOut
      <3>1. CASE SelectApp \/ BackToList
        BY <3>1 DEF SelectApp, BackToList, VisitorInv, VisitorTypeOK, LoggingOut
      <3>2. CASE LogOut
        BY <3>2 DEF LogOut, VisitorInv, VisitorTypeOK, LoggingOut
      <3>3. CASE LogoutDone
        BY <3>3 DEF LogoutDone, VisitorInv, VisitorTypeOK, LoggingOut
      <3> QED BY <1>6, <3>1, <3>2, <3>3
    <2> QED BY <1>6, <2>1
    DEF SelectApp, BackToList, LogOut, LogoutDone, VisitorInv, VisitorTypeOK, LoginInv,
          CookieIsEarned,
        FetchInv, OwnerInv, LoggingOut
  <1>7. CASE LogoutAnswered
    <2>1. /\ sessionCookie' \in {sessionCookie, NoVisitor} /\ raced' \in BOOLEAN
          /\ ~raced' => ~raced /\ sessionCookie' = NoVisitor /\ InFlight = {}
          /\ asked' = asked - 1 /\ answered' = answered + 1 /\ asked > 0
          /\ asked' + answered' = asked + answered
          /\ asked' \in 0..MaxLogouts /\ answered' \in 0..MaxLogouts
          /\ LoggingOut'
          /\ UNCHANGED <<status, owner, selected, login, fetches, logins, known>>
      <3>1. /\ asked \in 0..MaxLogouts /\ answered \in 0..MaxLogouts
            /\ asked + answered <= MaxLogouts /\ asked > 0
            /\ asked' = asked - 1 /\ answered' = answered + 1
        BY <1>7 DEF LogoutAnswered, VisitorInv, VisitorTypeOK
      <3>2. /\ asked' + answered' = asked + answered /\ LoggingOut'
            /\ asked' \in 0..MaxLogouts /\ answered' \in 0..MaxLogouts
        BY <3>1 DEF LoggingOut
      <3>3. raced \in BOOLEAN
        BY DEF VisitorInv, VisitorTypeOK
      <3>4. /\ sessionCookie' \in {sessionCookie, NoVisitor} /\ raced' \in BOOLEAN
            /\ ~raced' => ~raced /\ sessionCookie' = NoVisitor /\ InFlight = {}
        <4>1. CASE sessionCookie' = NoVisitor /\ raced' = (raced \/ InFlight # {})
          BY <3>3, <4>1, Zenon
        <4>2. CASE UNCHANGED sessionCookie /\ raced' = TRUE
          BY <3>3, <4>2, Zenon
        <4> QED BY <1>7, <4>1, <4>2, Zenon DEF LogoutAnswered
      <3> QED BY <1>7, <3>1, <3>2, <3>4 DEF LogoutAnswered
    <2> QED BY <2>1
      DEF VisitorInv, VisitorTypeOK, LoginInv, CookieIsEarned, FetchInv, OwnerInv, InFlight
  <1>8. CASE UNCHANGED visitorVars
    BY <1>8 DEF visitorVars, VisitorInv, VisitorTypeOK, LoginInv, CookieIsEarned, FetchInv,
          OwnerInv, LoggingOut
  <1> QED BY <1>1, <1>2, <1>3, <1>4, <1>5, <1>6, <1>7, <1>8 DEF VisitorNext

LEMMA VisitorInvSound == VisitorInv => VisitorSound
  BY VisitorRecords DEF VisitorInv, OwnerInv, VisitorSound, ShownIsLoggedIn

\* The cookie names only who logged in here, and unless an answer was overtaken
\* by a change of the cookie the page shows the applications of the visitor it
\* names, for any number of visitors and of lists on their way.
THEOREM VisitorIsSound == VisitorSpec => []VisitorSound
  BY VisitorFirst, VisitorStep, VisitorInvSound, PTL DEF VisitorSpec

-----------------------------------------------------------------------------
(* The activity of a reply.                                                *)

\* An item of a reply of n reports: its id is made of its kind, its call and the
\* number it began with.
ItemOK(item, n) ==
    /\ item \in Activity /\ item.order <= n
    /\ item.id[1] = item.kind /\ item.id[2] <= item.order /\ item.id[3] = item.call
    /\ item.call # NoCall => item.kind = "tool" /\ item.id[2] = 0

Apart(a, b) ==
    a.id # b.id /\ a.order # b.order /\ (a.call # NoCall => a.call # b.call)

ListOK(list, n) ==
    /\ list \in Seq(Activity)
    /\ \A i \in 1..Len(list) : ItemOK(list[i], n)
    /\ \A i, j \in 1..Len(list) : i # j => Apart(list[i], list[j])

ActivityInv ==
    /\ reports \in 0..MaxReports /\ replyStatus \in {"streaming", "complete", "interrupted"}
    /\ ListOK(activities, reports) /\ Len(activities) <= MaxActivities
    /\ OverIsOver

LEMMA ItemIs ==
    ASSUME NEW item \in Activity
    PROVE  /\ item.order \in Nat /\ item.order \in 1..MaxReports /\ item.id[2] \in Nat
           /\ item.call \in Calls \cup {NoCall} /\ item.kind \in {"progress", "tool"}
  BY ActivityAssumption DEF Activity

LEMMA ListIs ==
    ASSUME NEW list \in Seq(Activity)
    PROVE  /\ Len(list) \in Nat /\ DOMAIN list = 1..Len(list)
           /\ \A i \in 1..Len(list) : list[i] \in Activity
  BY LenProperties, ElementOfSeq

\* The next number is above all that are there.
LEMMA NextIs ==
    ASSUME NEW n \in Nat, ListOK(activities, n)
    PROVE  /\ NextOrder \in Nat /\ 1 <= NextOrder /\ NextOrder <= n + 1
           /\ \A i \in 1..Len(activities) : activities[i].order < NextOrder
  <1>0. activities \in Seq(Activity) /\ DOMAIN activities = 1..Len(activities)
    BY ListIs DEF ListOK
  <1>1. CASE activities = <<>>
    <2>1. NextOrder = 1 /\ Len(activities) = 0
      BY <1>1 DEF NextOrder
    <2> QED BY <2>1
  <1>2. CASE activities # <<>>
    <2>1. \A i \in 1..Len(activities) : activities[i].order \in Nat /\ activities[i].order <= n
      BY <1>0, ListIs, ItemIs DEF ListOK, ItemOK
    <2>2. Orders \in SUBSET Nat /\ \A o \in Orders : o <= n
      BY <1>0, <2>1 DEF Orders
    <2>3. Orders # {}
      <3>1. 1 \in DOMAIN activities
        BY <1>0, <1>2, EmptySeq
      <3> QED BY <3>1 DEF Orders
    <2>4. \E o \in Orders : \A p \in Orders : p <= o
      BY <2>2, <2>3, Greatest
    <2> DEFINE top == CHOOSE o \in Orders : \A p \in Orders : p <= o
    <2>5. top \in Orders /\ \A p \in Orders : p <= top
      BY <2>4
    <2>6. NextOrder = 1 + top
      BY <1>2 DEF NextOrder
    <2> HIDE DEF top
    <2>7. top \in Nat /\ top <= n
      BY <2>2, <2>5
    <2>8. \A i \in 1..Len(activities) : activities[i].order \in Orders
      BY <1>0 DEF Orders
    <2> QED BY <2>1, <2>5, <2>6, <2>7, <2>8
  <1> QED BY <1>1, <1>2

\* What a bounded list keeps is its end.
LEMMA KeepIs ==
    ASSUME NEW list \in Seq(Activity)
    PROVE  \E d \in Nat :
              /\ Keep(list) \in Seq(Activity) /\ Len(Keep(list)) = Len(list) - d
              /\ Len(Keep(list)) <= MaxActivities
              /\ \A i \in 1..Len(Keep(list)) : i + d \in 1..Len(list)
                    /\ Keep(list)[i] = list[i + d]
  <1> USE ActivityAssumption
  <1>0. Len(list) \in Nat /\ \A i \in 1..Len(list) : list[i] \in Activity
    BY ListIs
  <1>1. CASE Len(list) <= MaxActivities
    <2>1. Keep(list) = list
      BY <1>0, <1>1 DEF Keep
    <2>2. \A i \in 1..Len(list) : i + 0 = i
      BY <1>0
    <2> QED BY <1>0, <1>1, <2>1, <2>2
  <1>2. CASE ~(Len(list) <= MaxActivities)
    <2> DEFINE d == Len(list) - MaxActivities
    <2>1. d \in Nat /\ d + 1 <= Len(list) /\ Keep(list) = SubSeq(list, d + 1, Len(list))
      BY <1>0, <1>2 DEF Keep
    <2>2. MaxActivities = Len(list) - d
      BY <1>0
    <2> HIDE DEF d
    <2>3. /\ SubSeq(list, d + 1, Len(list)) \in Seq(Activity)
          /\ Len(SubSeq(list, d + 1, Len(list))) = Len(list) - (d + 1) + 1
          /\ \A i \in 1..Len(list) - (d + 1) + 1 :
                SubSeq(list, d + 1, Len(list))[i] = list[d + 1 + i - 1]
      BY <1>0, <2>1, SubSeqProperties
    <2>4. Len(Keep(list)) = Len(list) - d
      BY <1>0, <2>1, <2>3
    <2>5. ASSUME NEW i \in 1..Len(list) - d
          PROVE  i + d \in 1..Len(list) /\ Keep(list)[i] = list[i + d]
      <3>1. i \in 1..Len(list) - (d + 1) + 1 /\ d + 1 + i - 1 = i + d /\ i + d \in 1..Len(list)
        BY <1>0, <2>1
      <3> QED BY <2>1, <2>3, <3>1
    <2>6. Keep(list) \in Seq(Activity) /\ Len(Keep(list)) <= MaxActivities
      BY <1>0, <2>1, <2>2, <2>3, <2>4
    <2>7. \A i \in 1..Len(Keep(list)) : i + d \in 1..Len(list) /\ Keep(list)[i] = list[i + d]
      BY <2>4, <2>5
    <2> QED BY <2>1, <2>4, <2>6, <2>7, Zenon
  <1> QED BY <1>1, <1>2

LEMMA OneReportMore ==
    ASSUME NEW n \in Nat, NEW list, ListOK(list, n)
    PROVE  ListOK(list, n + 1)
  <1>1. \A i \in 1..Len(list) : list[i].order \in Nat
    BY ListIs, ItemIs DEF ListOK
  <1>2. \A i \in 1..Len(list) : list[i].order <= n => list[i].order <= n + 1
    BY <1>1
  <1> QED BY <1>2 DEF ListOK, ItemOK

\* An item is added at the end, apart from all others.
LEMMA ItemAdded ==
    ASSUME NEW n \in Nat, NEW list, ListOK(list, n), NEW item, ItemOK(item, n),
           \A i \in 1..Len(list) : Apart(list[i], item) /\ Apart(item, list[i])
    PROVE  /\ ListOK(Keep(Append(list, item)), n)
           /\ Len(Keep(Append(list, item))) <= MaxActivities
           /\ \A j \in 1..Len(Keep(Append(list, item))) :
                 \/ Keep(Append(list, item))[j] = item
                 \/ \E i \in 1..Len(list) : Keep(Append(list, item))[j] = list[i]
  <1> DEFINE longer == Append(list, item)
             kept == Keep(longer)
  <1>0. list \in Seq(Activity) /\ item \in Activity /\ Len(list) \in Nat
    BY ListIs DEF ListOK, ItemOK
  <1>1. /\ longer \in Seq(Activity) /\ Len(longer) = Len(list) + 1
        /\ \A i \in 1..Len(list) : longer[i] = list[i]
        /\ longer[Len(list) + 1] = item
    BY <1>0, AppendProperties
  <1> HIDE DEF longer
  <1>2. \A i \in 1..Len(longer) :
           (i \in 1..Len(list) /\ longer[i] = list[i]) \/ (i = Len(list) + 1 /\ longer[i] = item)
    BY <1>0, <1>1
  <1>3. PICK d \in Nat :
           /\ kept \in Seq(Activity) /\ Len(kept) = Len(longer) - d /\ Len(kept) <= MaxActivities
           /\ \A i \in 1..Len(kept) : i + d \in 1..Len(longer) /\ kept[i] = longer[i + d]
    BY <1>1, KeepIs
  <1> HIDE DEF kept
  <1>4. \A j \in 1..Len(kept) : kept[j] = item \/ \E i \in 1..Len(list) : kept[j] = list[i]
    BY <1>2, <1>3
  <1>5. \A j \in 1..Len(kept) : ItemOK(kept[j], n)
    BY <1>4 DEF ListOK
  <1>6. ASSUME NEW i \in 1..Len(longer), NEW j \in 1..Len(longer), i # j
        PROVE  Apart(longer[i], longer[j])
    <2>1. CASE i \in 1..Len(list) /\ j \in 1..Len(list)
      BY <1>1, <1>6, <2>1 DEF ListOK
    <2>2. CASE i \in 1..Len(list) /\ j = Len(list) + 1
      BY <1>1, <2>2
    <2>3. CASE i = Len(list) + 1 /\ j \in 1..Len(list)
      BY <1>1, <2>3
    <2> QED BY <1>2, <1>6, <2>1, <2>2, <2>3
  <1>7. ASSUME NEW i \in 1..Len(kept), NEW j \in 1..Len(kept), i # j
        PROVE  Apart(kept[i], kept[j])
    <2>1. i + d \in 1..Len(longer) /\ j + d \in 1..Len(longer) /\ i + d # j + d
      BY <1>3, <1>7
    <2> QED BY <1>3, <1>6, <2>1
  <1>8. ListOK(kept, n)
    BY <1>3, <1>5, <1>7 DEF ListOK
  <1> QED BY <1>3, <1>4, <1>8 DEF kept, longer

\* An item changes but for its id and its call.
LEMMA ItemChanged ==
    ASSUME NEW n \in Nat, NEW list, ListOK(list, n), NEW i \in 1..Len(list),
           NEW item, ItemOK(item, n), item.id = list[i].id, item.call = list[i].call,
           \A j \in 1..Len(list) : j # i => list[j].order # item.order
    PROVE  ListOK([list EXCEPT ![i] = item], n)
  <1> DEFINE next == [list EXCEPT ![i] = item]
  <1>1. list \in Seq(Activity) /\ item \in Activity
    BY DEF ListOK, ItemOK
  <1>2. /\ next \in Seq(Activity) /\ Len(next) = Len(list)
        /\ \A j \in 1..Len(list) : next[j] = IF j = i THEN item ELSE list[j]
    BY <1>1, ExceptSeq
  <1> HIDE DEF next
  <1>3. \A j \in 1..Len(list) : ItemOK(next[j], n)
    BY <1>2 DEF ListOK
  <1>4. ASSUME NEW j \in 1..Len(list), NEW k \in 1..Len(list), j # k
        PROVE  Apart(next[j], next[k])
    <2>1. Apart(list[j], list[k])
      BY <1>4 DEF ListOK
    <2>2. next[j].id = list[j].id /\ next[j].call = list[j].call
      BY <1>2
    <2>3. next[k].id = list[k].id /\ next[k].call = list[k].call
      BY <1>2
    <2>4. next[j].order # next[k].order
      BY <1>2, <1>4, <2>1 DEF Apart
    <2> QED BY <2>1, <2>2, <2>3, <2>4 DEF Apart
  <1>5. ListOK(next, n)
    BY <1>2, <1>3, <1>4 DEF ListOK
  <1> QED BY <1>5 DEF next

LEMMA ActivityFirst == ActivityInit => ActivityInv
  <1> SUFFICES ASSUME ActivityInit PROVE ActivityInv
    OBVIOUS
  <1>1. activities = <<>> /\ <<>> \in Seq(Activity) /\ Len(<<>>) = 0 /\ 0 \in 0..MaxReports
    BY ActivityAssumption DEF ActivityInit
  <1>2. ListOK(activities, reports)
    BY <1>1 DEF ListOK
  <1>3. Len(activities) <= MaxActivities /\ reports \in 0..MaxReports
    BY <1>1, ActivityAssumption DEF ActivityInit
  <1>4. replyStatus \in {"streaming", "complete", "interrupted"} /\ OverIsOver
    BY DEF ActivityInit, OverIsOver
  <1> QED BY <1>2, <1>3, <1>4 DEF ActivityInv

\* What a report may begin with, and what it leaves behind.
LEMMA ReportIs ==
    ASSUME ActivityInv, Reported
    PROVE  /\ reports \in Nat /\ reports' = reports + 1 /\ reports' \in 0..MaxReports
           /\ ListOK(activities, reports') /\ replyStatus = "streaming"
           /\ NextOrder \in 1..MaxReports /\ NextOrder \in Nat /\ NextOrder <= reports'
           /\ \A i \in 1..Len(activities) : activities[i].order < NextOrder
           /\ \A i \in 1..Len(activities) : activities[i].order \in Nat
  <1>1. /\ reports \in 0..MaxReports /\ reports \in Nat /\ MaxReports \in Nat
        /\ reports < MaxReports /\ reports' = reports + 1
        /\ ListOK(activities, reports) /\ replyStatus = "streaming"
    BY ActivityAssumption DEF ActivityInv, Reported, Current
  <1>2. ListOK(activities, reports + 1)
    BY <1>1, OneReportMore
  <1>3. /\ NextOrder \in Nat /\ 1 <= NextOrder /\ NextOrder <= reports + 1
        /\ \A i \in 1..Len(activities) : activities[i].order < NextOrder
    BY <1>1, NextIs
  <1>4. \A i \in 1..Len(activities) : activities[i].order \in Nat
    BY <1>1, ListIs, ItemIs DEF ListOK
  <1> QED BY <1>1, <1>2, <1>3, <1>4

\* A new item is apart from those that are there.
LEMMA NewItem ==
    ASSUME ActivityInv, Reported,
           NEW kind \in {"progress", "tool"}, NEW name \in Stages \cup Tools,
           NEW state \in Statuses, NEW call \in Calls \cup {NoCall},
           call # NoCall => kind = "tool",
           \A i \in 1..Len(activities) : call # NoCall => activities[i].call # call
    PROVE  LET item == [id |-> <<kind, IF call = NoCall THEN NextOrder ELSE 0, call>>,
                        kind |-> kind, name |-> name, status |-> state, call |-> call,
                        order |-> NextOrder]
           IN  /\ ItemOK(item, reports')
               /\ \A i \in 1..Len(activities) : Apart(activities[i], item) /\ Apart(item,
                     activities[i])
               /\ \A i \in 1..Len(activities) : activities[i].id # item.id
  <1> DEFINE number == IF call = NoCall THEN NextOrder ELSE 0
             item == [id |-> <<kind, number, call>>, kind |-> kind, name |-> name,
                      status |-> state, call |-> call, order |-> NextOrder]
  <1>1. /\ NextOrder \in 1..MaxReports /\ NextOrder \in Nat /\ NextOrder <= reports'
        /\ \A i \in 1..Len(activities) : activities[i].order < NextOrder
        /\ \A i \in 1..Len(activities) : activities[i].order \in Nat
        /\ ListOK(activities, reports')
    BY ReportIs
  <1>2. number \in 0..MaxReports /\ number <= NextOrder /\ (call # NoCall => number = 0)
        /\ (call = NoCall => number = NextOrder)
    BY <1>1, ActivityAssumption
  <1> HIDE DEF number
  <1>3. <<kind, number, call>> \in {"progress",
        "tool"} \X (0..MaxReports) \X (Calls \cup {NoCall})
    BY <1>2
  <1>4. item \in Activity
    BY <1>1, <1>3 DEF Activity
  <1>5. /\ item.id = <<kind, number, call>> /\ item.id[1] = kind /\ item.id[2] = number
        /\ item.id[3] = call /\ item.kind = kind /\ item.call = call /\ item.order = NextOrder
    OBVIOUS
  <1> HIDE DEF item
  <1>6. ItemOK(item, reports')
    BY <1>1, <1>2, <1>4, <1>5 DEF ItemOK
  <1>7. ASSUME NEW i \in 1..Len(activities)
        PROVE  activities[i].id # item.id /\ activities[i].order # item.order
               /\ (call # NoCall => activities[i].call # item.call)
    <2>1. /\ activities[i].id[2] <= activities[i].order
          /\ activities[i].id[3] = activities[i].call
          /\ activities[i].id[2] \in Nat
      BY <1>1, ListIs, ItemIs DEF ListOK, ItemOK
    <2>2. activities[i].order # item.order
      BY <1>1, <1>5
    <2>3. ASSUME activities[i].id = item.id PROVE FALSE
      <3>1. activities[i].id[2] = number /\ activities[i].id[3] = call
        BY <1>5, <2>3
      <3>2. CASE call = NoCall
        BY <1>1, <1>2, <2>1, <3>1, <3>2
      <3>3. CASE call # NoCall
        BY <2>1, <3>1, <3>3
      <3> QED BY <3>2, <3>3
    <2> QED BY <1>5, <2>2, <2>3
  <1>8. \A i \in 1..Len(activities) : Apart(activities[i], item) /\ Apart(item, activities[i])
    BY <1>5, <1>7 DEF Apart
  <1> QED BY <1>6, <1>7, <1>8 DEF item, number

\* The item an event is about, if there is one.
LEMMA ChosenIs ==
    ASSUME ActivityInv, NEW tool, NEW call, Candidates(tool, call) # {}
    PROVE  /\ Chosen(Candidates(tool, call), call) \in Candidates(tool, call)
           /\ Candidates(tool, call) \subseteq 1..Len(activities)
  <1> DEFINE items == Candidates(tool, call)
  <1>1. items \subseteq 1..Len(activities) /\ Len(activities) \in Nat
    BY ListIs DEF Candidates, ActivityInv, ListOK
  <1>2. items \in SUBSET Nat /\ items # {} /\ \A m \in items : m <= Len(activities)
    BY <1>1
  <1> HIDE DEF items
  <1>3. \E i \in items : \A j \in items : j <= i
    BY <1>1, <1>2, Greatest
  <1>4. \E i \in items : \A j \in items : i <= j
    BY <1>2, Least
  <1>5. \E i \in items : \A j \in items : IF call = NoCall THEN j <= i ELSE i <= j
    BY <1>3, <1>4
  <1>6. Chosen(items, call) \in items
    BY <1>5 DEF Chosen
  <1> QED BY <1>1, <1>6 DEF items
\* What is over stays as it is, in a step.
StaysOver ==
    \A i \in DOMAIN activities :
       activities[i].kind = "tool" /\ activities[i].call = NoCall /\ IsFinished(activities[i])
          => \A j \in DOMAIN activities' :
                activities'[j].id = activities[i].id => activities'[j] = activities[i]

\* A new item joins the list.
LEMMA ItemJoins ==
    ASSUME ActivityInv, Reported, UNCHANGED replyStatus,
           NEW kind \in {"progress", "tool"}, NEW name \in Stages \cup Tools,
           NEW state \in Statuses, NEW call \in Calls \cup {NoCall},
           call # NoCall => kind = "tool",
           \A i \in 1..Len(activities) : call # NoCall => activities[i].call # call,
           activities' = Keep(Append(activities,
              [id |-> <<kind, IF call = NoCall THEN NextOrder ELSE 0, call>>, kind |-> kind,
               name |-> name, status |-> state, call |-> call, order |-> NextOrder]))
    PROVE  ActivityInv' /\ StaysOver
  <1> DEFINE item == [id |-> <<kind, IF call = NoCall THEN NextOrder ELSE 0, call>>,
                      kind |-> kind, name |-> name, status |-> state, call |-> call,
                      order |-> NextOrder]
  <1>1. /\ ItemOK(item, reports')
        /\ \A i \in 1..Len(activities) : Apart(activities[i], item) /\ Apart(item, activities[i])
        /\ \A i \in 1..Len(activities) : activities[i].id # item.id
    BY NewItem, Zenon
  <1>2. activities' = Keep(Append(activities, item))
    OBVIOUS
  <1> HIDE DEF item
  <1>3. /\ reports \in Nat /\ reports' \in Nat /\ reports' \in 0..MaxReports
        /\ ListOK(activities, reports') /\ replyStatus = "streaming"
    BY ReportIs
  <1>4. /\ ListOK(Keep(Append(activities, item)), reports')
        /\ Len(Keep(Append(activities, item))) <= MaxActivities
        /\ \A j \in 1..Len(Keep(Append(activities, item))) :
              \/ Keep(Append(activities, item))[j] = item
              \/ \E i \in 1..Len(activities) : Keep(Append(activities, item))[j] = activities[i]
    BY <1>1, <1>3, ItemAdded
  <1>5. /\ ListOK(activities', reports') /\ Len(activities') <= MaxActivities
        /\ \A j \in 1..Len(activities') :
              \/ activities'[j] = item
              \/ \E i \in 1..Len(activities) : activities'[j] = activities[i]
    BY <1>2, <1>4, Zenon
  <1>6. replyStatus' \in {"streaming", "complete", "interrupted"} /\ OverIsOver'
    BY <1>3 DEF OverIsOver, ActivityInv
  <1>7. ActivityInv'
    BY <1>3, <1>5, <1>6, Zenon DEF ActivityInv
  <1>8. DOMAIN activities = 1..Len(activities) /\ DOMAIN activities' = 1..Len(activities')
    BY <1>3, <1>5, ListIs DEF ListOK
  <1>9. \A i, j \in 1..Len(activities) : i # j => activities[i].id # activities[j].id
    BY <1>3 DEF ListOK, Apart
  <1>10. StaysOver
    <2>1. ASSUME NEW i \in 1..Len(activities), NEW j \in 1..Len(activities'),
                 activities'[j].id = activities[i].id
          PROVE  activities'[j] = activities[i]
      <3>1. activities'[j] # item
        BY <1>1, <2>1
      <3>2. PICK k \in 1..Len(activities) : activities'[j] = activities[k]
        BY <1>5, <3>1
      <3>3. k = i
        BY <1>9, <2>1, <3>2
      <3> QED BY <3>2, <3>3
    <2> QED BY <1>8, <2>1, Zenon DEF StaysOver
  <1> QED BY <1>7, <1>10

\* An item of an earlier report changes.
LEMMA ItemMoves ==
    ASSUME ActivityInv, Reported, UNCHANGED replyStatus,
           NEW tool \in Tools, NEW state \in Statuses, NEW call \in Calls \cup {NoCall},
           NEW c \in Candidates(tool, call), c \in 1..Len(activities),
           activities' = [activities EXCEPT ![c] =
              [id |-> activities[c].id, kind |-> "tool", name |-> tool, status |-> state,
               call |-> call, order |-> NextOrder]]
    PROVE  ActivityInv' /\ StaysOver
  <1> DEFINE item == [id |-> activities[c].id, kind |-> "tool", name |-> tool,
                      status |-> state, call |-> call, order |-> NextOrder]
  <1>1. /\ reports' \in Nat /\ reports' \in 0..MaxReports
        /\ ListOK(activities, reports') /\ replyStatus = "streaming"
        /\ NextOrder \in 1..MaxReports /\ NextOrder \in Nat /\ NextOrder <= reports'
        /\ \A i \in 1..Len(activities) : activities[i].order < NextOrder
        /\ \A i \in 1..Len(activities) : activities[i].order \in Nat
    BY ReportIs
  <1>2. /\ activities[c].kind = "tool" /\ activities[c].call = call
        /\ call = NoCall => ~IsFinished(activities[c])
    BY DEF Candidates
  <1>3. /\ ItemOK(activities[c], reports') /\ activities[c] \in Activity
        /\ activities[c].order < NextOrder /\ activities[c].order \in Nat
        /\ activities[c].id[2] \in Nat
    BY <1>1, ItemIs DEF ListOK, ItemOK
  <1>4. item \in Activity
    BY <1>1, <1>3 DEF Activity
  <1>5. /\ item.id = activities[c].id /\ item.kind = "tool" /\ item.call = call
        /\ item.order = NextOrder
    OBVIOUS
  <1>6. activities' = [activities EXCEPT ![c] = item]
    OBVIOUS
  <1> HIDE DEF item
  <1>7. ItemOK(item, reports')
    <2>1. item.id[2] <= item.order
      BY <1>1, <1>3, <1>5 DEF ItemOK
    <2> QED BY <1>1, <1>2, <1>3, <1>4, <1>5, <2>1 DEF ItemOK
  <1>8. \A j \in 1..Len(activities) : j # c => activities[j].order # item.order
    BY <1>1, <1>5
  <1>9. ListOK([activities EXCEPT ![c] = item], reports')
    BY <1>1, <1>2, <1>5, <1>7, <1>8, ItemChanged
  <1>10. activities \in Seq(Activity) /\ activities \in Seq(Activity)
    BY <1>1 DEF ListOK
  <1>11. /\ Len(activities') = Len(activities)
         /\ \A j \in 1..Len(activities) : activities'[j] = IF j = c THEN item ELSE activities[j]
    BY <1>4, <1>6, <1>10, ExceptSeq
  <1>12. /\ DOMAIN activities = 1..Len(activities) /\ DOMAIN activities' = 1..Len(activities)
    BY <1>6, <1>10, ListIs
  <1>13. replyStatus' \in {"streaming", "complete", "interrupted"} /\ OverIsOver'
    BY <1>1 DEF OverIsOver, ActivityInv
  <1>14. ListOK(activities', reports') /\ Len(activities') <= MaxActivities
    BY <1>6, <1>9, <1>11 DEF ActivityInv
  <1>15. ActivityInv'
    BY <1>1, <1>13, <1>14, Zenon DEF ActivityInv
  <1>16. \A i, j \in 1..Len(activities) : i # j => activities[i].id # activities[j].id
    BY <1>1 DEF ListOK, Apart
  <1>17. ASSUME NEW i \in 1..Len(activities), NEW j \in 1..Len(activities),
                activities[i].call = NoCall, IsFinished(activities[i]),
                activities'[j].id = activities[i].id
         PROVE  activities'[j] = activities[i]
    <2>1. CASE j = c
      <3>1. activities[c].id = activities[i].id
        BY <1>5, <1>11, <1>17, <2>1
      <3>2. i = c
        BY <1>16, <3>1
      <3> QED BY <1>2, <1>17, <3>2
    <2>2. CASE j # c
      BY <1>11, <1>16, <1>17, <2>2
    <2> QED BY <2>1, <2>2
  <1>18. StaysOver
    BY <1>12, <1>17, Zenon DEF StaysOver
  <1> QED BY <1>15, <1>18

LEMMA ProgressMoves ==
    ASSUME ActivityInv, NEW s \in Stages, RecordProgress(s)
    PROVE  ActivityInv' /\ StaysOver
  <1>0. Reported /\ UNCHANGED replyStatus
    BY DEF RecordProgress
  <1>1. CASE activities' = activities
    <2>1. reports' \in 0..MaxReports /\ ListOK(activities, reports')
      BY <1>0, ReportIs
    <2>2. replyStatus' \in {"streaming", "complete", "interrupted"} /\ OverIsOver'
      BY <1>0, <1>1 DEF OverIsOver, UnderWay, IsFinished, ActivityInv
    <2>3. ActivityInv'
      BY <1>1, <2>1, <2>2, Zenon DEF ActivityInv
    <2>4. \A i, j \in DOMAIN activities : i # j => activities[i].id # activities[j].id
      BY ListIs DEF ActivityInv, ListOK, Apart
    <2>5. StaysOver
      BY <1>1, <2>4 DEF StaysOver
    <2> QED BY <2>3, <2>5
  <1>2. CASE activities' # activities
    <2>1. activities' = Keep(Append(activities,
             [id |-> <<"progress", NextOrder, NoCall>>, kind |-> "progress", name |-> s,
              status |-> "observed", call |-> NoCall, order |-> NextOrder]))
      BY <1>2 DEF RecordProgress
    <2>2. activities' = Keep(Append(activities,
             [id |-> <<"progress", IF NoCall = NoCall THEN NextOrder ELSE 0, NoCall>>,
              kind |-> "progress", name |-> s, status |-> "observed", call |-> NoCall,
              order |-> NextOrder]))
      BY <2>1
    <2>3. "observed" \in Statuses /\ NoCall \in Calls \cup {NoCall} /\ s \in Stages \cup Tools
          /\ "progress" \in {"progress", "tool"}
      BY DEF Statuses
    <2>4. (NoCall # NoCall => "progress" = "tool")
          /\ \A i \in 1..Len(activities) : NoCall # NoCall => activities[i].call # NoCall
      OBVIOUS
    <2> QED BY <1>0, <2>2, <2>3, <2>4, ItemJoins
  <1> QED BY <1>1, <1>2

LEMMA ToolMoves ==
    ASSUME ActivityInv, NEW tool \in Tools, NEW call \in Calls \cup {NoCall},
           NEW state \in {"running", "completed"}, RecordTool(tool, call, state)
    PROVE  ActivityInv' /\ StaysOver
  <1>0. Reported /\ UNCHANGED replyStatus /\ state \in Statuses
    BY DEF RecordTool, Statuses
  <1> DEFINE entry == [id |-> <<"tool", IF call = NoCall THEN NextOrder ELSE 0, call>>,
                       kind |-> "tool", name |-> tool, status |-> state, call |-> call,
                       order |-> NextOrder]
  <1>1. CASE Candidates(tool, call) = {}
    <2>1. activities' = Keep(Append(activities, entry))
      BY <1>1 DEF RecordTool
    <2>2. ASSUME NEW i \in 1..Len(activities), call # NoCall
          PROVE  activities[i].call # call
      <3>1. DOMAIN activities = 1..Len(activities)
        BY ListIs DEF ActivityInv, ListOK
      <3>2. activities[i].call = call => activities[i].kind = "tool"
        BY <2>2 DEF ActivityInv, ListOK, ItemOK
      <3> QED BY <1>1, <2>2, <3>1, <3>2 DEF Candidates
    <2>3. tool \in Stages \cup Tools /\ "tool" \in {"progress", "tool"}
      OBVIOUS
    <2> QED BY <1>0, <2>1, <2>2, <2>3, ItemJoins
  <1>2. CASE Candidates(tool, call) # {}
    <2> DEFINE c == Chosen(Candidates(tool, call), call)
    <2>1. activities' = [activities EXCEPT ![c] = [entry EXCEPT !.id = activities[c].id]]
      BY <1>2 DEF RecordTool
    <2>2. [entry EXCEPT !.id = activities[c].id] =
             [id |-> activities[c].id, kind |-> "tool", name |-> tool, status |-> state,
              call |-> call, order |-> NextOrder]
      OBVIOUS
    <2>3. c \in Candidates(tool, call) /\ c \in 1..Len(activities)
      BY <1>2, ChosenIs
    <2> HIDE DEF c, entry
    <2>4. activities' = [activities EXCEPT ![c] =
             [id |-> activities[c].id, kind |-> "tool", name |-> tool, status |-> state,
              call |-> call, order |-> NextOrder]]
      BY <2>1, <2>2
    <2> QED BY <1>0, <2>3, <2>4, ItemMoves
  <1> QED BY <1>1, <1>2

LEMMA InterruptMoves ==
    ASSUME ActivityInv, InterruptActivity
    PROVE  ActivityInv' /\ StaysOver
  <1> DEFINE After(item) == IF item.kind = "tool" /\ ~IsFinished(item)
                            THEN [item EXCEPT !.status = "interrupted"] ELSE item
  <1>0. /\ activities \in Seq(Activity) /\ Len(activities) \in Nat
        /\ DOMAIN activities = 1..Len(activities) /\ ListOK(activities, reports)
        /\ \A i \in 1..Len(activities) : activities[i] \in Activity
    BY ListIs DEF ActivityInv, ListOK
  <1>1. activities' = [i \in 1..Len(activities) |-> After(activities[i])]
    BY <1>0 DEF InterruptActivity
  <1>2. ASSUME NEW item \in Activity
        PROVE  /\ After(item) \in Activity /\ After(item).id = item.id
               /\ After(item).kind = item.kind /\ After(item).call = item.call
               /\ After(item).order = item.order
               /\ (item.kind = "tool" => IsFinished(After(item)))
               /\ (IsFinished(item) => After(item) = item)
    BY DEF Activity, Statuses, IsFinished
  <1> HIDE DEF After
  <1>3. activities' \in Seq(Activity) /\ Len(activities') = Len(activities)
        /\ DOMAIN activities' = 1..Len(activities)
    <2>1. activities' \in [1..Len(activities) -> Activity]
      BY <1>0, <1>1, <1>2
    <2>2. activities' \in Seq(Activity)
      BY <1>0, <2>1, IsASeq
    <2>3. DOMAIN activities' = 1..Len(activities)
      BY <1>1
    <2> QED BY <1>0, <2>2, <2>3, LenProperties
  <1>4. \A i \in 1..Len(activities) : activities'[i] = After(activities[i])
    BY <1>1
  <1>5. \A i \in 1..Len(activities) : ItemOK(activities'[i], reports)
    BY <1>0, <1>2, <1>4 DEF ListOK, ItemOK
  <1>6. \A i, j \in 1..Len(activities) : i # j => Apart(activities'[i], activities'[j])
    BY <1>0, <1>2, <1>4 DEF ListOK, Apart
  <1>7. ListOK(activities', reports)
    BY <1>3, <1>5, <1>6 DEF ListOK
  <1>8. OverIsOver'
    BY <1>0, <1>2, <1>3, <1>4 DEF OverIsOver, UnderWay
  <1>9. reports' = reports /\ replyStatus' = "interrupted"
    BY DEF InterruptActivity
  <1>10. ActivityInv'
    BY <1>3, <1>7, <1>8, <1>9 DEF ActivityInv
  <1>11. \A i, j \in 1..Len(activities) : i # j => activities[i].id # activities[j].id
    BY <1>0 DEF ListOK, Apart
  <1>12. StaysOver
    <2>1. ASSUME NEW i \in 1..Len(activities), NEW j \in 1..Len(activities),
                 IsFinished(activities[i]), activities'[j].id = activities[i].id
          PROVE  activities'[j] = activities[i]
      <3>1. activities'[j].id = activities[j].id
        BY <1>0, <1>2, <1>4
      <3>2. i = j
        BY <1>11, <2>1, <3>1
      <3> QED BY <1>0, <1>2, <1>4, <2>1, <3>2
    <2> QED BY <1>0, <1>3, <2>1, Zenon DEF StaysOver
  <1> QED BY <1>10, <1>12

LEMMA CompleteMoves ==
    ASSUME ActivityInv, CompleteReply
    PROVE  ActivityInv' /\ StaysOver
  <1>1. UNCHANGED <<activities, reports>> /\ replyStatus' = "complete"
    BY DEF CompleteReply
  <1>2. OverIsOver'
    BY <1>1 DEF OverIsOver, UnderWay
  <1>3. ActivityInv'
    BY <1>1, <1>2 DEF ActivityInv, ListOK
  <1>4. \A i, j \in DOMAIN activities : i # j => activities[i].id # activities[j].id
    BY ListIs DEF ActivityInv, ListOK, Apart
  <1>5. StaysOver
    BY <1>1, <1>4 DEF StaysOver
  <1> QED BY <1>3, <1>5

LEMMA ActivityStep == ActivityInv /\ [ActivityNext]_activityVars => ActivityInv'
  <1> SUFFICES ASSUME ActivityInv, [ActivityNext]_activityVars PROVE ActivityInv'
    OBVIOUS
  <1>1. CASE UNCHANGED activityVars
    BY <1>1 DEF activityVars, ActivityInv, ListOK, OverIsOver, UnderWay, IsFinished
  <1>2. CASE ActivityNext
    BY <1>2, ProgressMoves, ToolMoves, InterruptMoves, CompleteMoves, Zenon DEF ActivityNext
  <1> QED BY <1>1, <1>2

LEMMA ActivityInvSound == ActivityInv => ActivitiesSound
  <1> SUFFICES ASSUME ActivityInv PROVE ActivitiesSound
    OBVIOUS
  <1>1. activities \in Seq(Activity) /\ DOMAIN activities = 1..Len(activities)
    BY ListIs DEF ActivityInv, ListOK
  <1>2. ActivityTypeOK
    BY <1>1 DEF ActivityInv, ActivityTypeOK
  <1>3. IdsDistinct
    BY <1>1 DEF IdsDistinct, ActivityInv, ListOK, Apart
  <1> QED BY <1>2, <1>3 DEF ActivitiesSound, ActivityInv

LEMMA OverStep ==
    ASSUME ActivityInv, [ActivityNext]_activityVars
    PROVE  [StaysOver]_activityVars
  BY ProgressMoves, ToolMoves, InterruptMoves, CompleteMoves, Zenon DEF ActivityNext

\* Every activity has an id, a call and a recency of its own, the list stays
\* within its bound, and the page calls no tool under way in a reply that is over.
THEOREM ActivitiesAreSound == ActivitySpec => []ActivitiesSound
  <1> QED BY ActivityFirst, ActivityStep, ActivityInvSound, PTL DEF ActivitySpec

\* What is over stays over: a later event of the same name begins an item of
\* its own.
THEOREM OverActivitiesStay == ActivitySpec => OverStaysOver
  <1>1. ActivityInv /\ [ActivityNext]_activityVars => [StaysOver]_activityVars
    BY OverStep
  <1>2. ActivitySpec => []ActivityInv
    BY ActivityFirst, ActivityStep, PTL DEF ActivitySpec
  <1>3. ActivitySpec => [][StaysOver]_activityVars
    BY <1>1, <1>2, PTL DEF ActivitySpec
  <1> QED BY <1>3, PTL DEF OverStaysOver, StaysOver

-----------------------------------------------------------------------------
(* The wishes.                                                             *)

\* A list that would be accepted, of wishes added by now.
Good(list, n) ==
    /\ list \in Seq(Wish) /\ Accepted(list)
    /\ \A i \in 1..Len(list) : list[i].id <= n

ListsGood ==
    /\ added \in 0..MaxAdded
    /\ \E list : Good(list, added) /\ wishStore \in {Absent, Broken, Stored(list)}
    /\ wishes = [w \in Windows |-> wishes[w]] /\ DOMAIN wishes = Windows
    /\ \A w \in Windows : Good(wishes[w], added)

WindowsOK ==
    opened \subseteq Windows /\ saved \in [Windows -> BOOLEAN] /\ shared \in BOOLEAN

WishInv == ListsGood /\ WindowsOK /\ SavedMeansKept

LEMMA GoodIs ==
    ASSUME NEW list, NEW n \in Nat
    PROVE  Good(list, n) <=>
              /\ list \in Seq(Wish) /\ Len(list) <= MaxWishes
              /\ \A i, j \in 1..Len(list) : list[i].id = list[j].id => i = j
              /\ \A i \in 1..Len(list) : list[i].id <= n
  <1>1. list \in Seq(Wish) => DOMAIN list = 1..Len(list)
    BY LenProperties
  <1> QED BY <1>1 DEF Good, Accepted

LEMMA WishIds ==
    ASSUME NEW list \in Seq(Wish), NEW i \in 1..Len(list)
    PROVE  list[i] \in Wish /\ list[i].id \in Nat
  <1>1. list[i] \in Wish
    BY ElementOfSeq, Zenon
  <1>2. Ids \subseteq Nat
    BY WishAssumption DEF Ids, DefaultIds
  <1>3. \A x \in Wish : x.id \in Ids
    BY DEF Wish
  <1> QED BY <1>1, <1>2, <1>3

LEMMA SimpleLists ==
    ASSUME NEW n \in Nat PROVE Good(<<>>, n) /\ Good(Defaults, n)
  <1>1. <<>> \in Seq(Wish) /\ Len(<<>>) = 0 /\ MaxWishes \in Nat \ {0}
    BY WishAssumption
  <1>2. [id |-> 0, done |-> FALSE] \in Wish
    BY DEF Wish, Ids, DefaultIds
  <1>3. Defaults \in Seq(Wish) /\ Len(Defaults) = 1 /\ Defaults[1].id = 0
    BY <1>2 DEF Defaults
  <1>4. ASSUME NEW list, list \in Seq(Wish), Len(list) \in {0, 1},
               Len(list) = 1 => list[1].id = 0
        PROVE  Good(list, n)
    <2> DEFINE len == Len(list)
    <2>1. len \in {0, 1} /\ len <= MaxWishes /\ \A i \in 1..len : i = 1 /\ len = 1
      <3> HIDE DEF len
      <3>1. len \in {0, 1}
        BY <1>4 DEF len
      <3> QED BY <1>1, <3>1
    <2>2. \A i \in 1..Len(list) : list[i].id = 0
      BY <1>4, <2>1
    <2>3. \A i, j \in 1..Len(list) : list[i].id = list[j].id => i = j
      BY <2>1, Zenon
    <2>4. \A i \in 1..Len(list) : list[i].id <= n
      BY <2>2
    <2> QED BY <1>4, <2>1, <2>3, <2>4, GoodIs
  <1>5. Good(<<>>, n)
    <2>1. <<>> \in Seq(Wish) /\ Len(<<>>) \in {0, 1} /\ ~(Len(<<>>) = 1)
      BY <1>1
    <2> QED BY <1>4, <2>1, Zenon
  <1>6. Good(Defaults, n)
    <2>1. Len(Defaults) \in {0, 1}
      BY <1>3
    <2> QED BY <1>3, <1>4, <2>1, Zenon
  <1> QED BY <1>5, <1>6

\* What a window reads is good, and what it writes it would read.
LEMMA ReadIsGood ==
    ASSUME ListsGood
    PROVE  /\ Good(ReadWishes(wishStore).wishes, added)
           /\ ReadWishes(wishStore).saved \in BOOLEAN
           /\ ReadWishes(wishStore) = [wishes |-> ReadWishes(wishStore).wishes,
                                       saved |-> ReadWishes(wishStore).saved]
  <1>1. Good(Defaults, added)
    BY SimpleLists DEF ListsGood
  <1>2. PICK list : Good(list, added) /\ wishStore \in {Absent, Broken, Stored(list)}
    BY DEF ListsGood
  <1>3. wishStore.list = <<>> \/ wishStore = Stored(list)
    BY <1>2 DEF Absent, Broken
  <1>4. wishStore = Stored(list) => wishStore.list = list
    BY DEF Stored
  <1>5. PICK l, s : /\ ReadWishes(wishStore) = [wishes |-> l, saved |-> s]
                    /\ l \in {Defaults, wishStore.list} /\ s \in BOOLEAN
    BY DEF ReadWishes
  <1>6. Good(l, added)
    <2>1. Good(<<>>, added)
      BY SimpleLists DEF ListsGood
    <2> QED BY <1>1, <1>2, <1>3, <1>4, <1>5, <2>1
  <1> QED BY <1>5, <1>6

LEMMA WrittenIsRead ==
    ASSUME NEW list, NEW n, Good(list, n)
    PROVE  ReadWishes(Stored(list)) = [wishes |-> list, saved |-> TRUE]
  <1>1. Stored(list) # Absent /\ Stored(list) # Broken /\ Stored(list).list = list
    BY DEF Stored, Absent, Broken
  <1>2. Accepted(list)
    BY DEF Good
  <1> QED BY <1>1, <1>2 DEF ReadWishes

\* A wish more, one less, or one done.
LEMMA OneMore ==
    ASSUME NEW list, NEW n \in Nat, Good(list, n), Len(list) < MaxWishes, n < MaxAdded
    PROVE  Good(Append(list, [id |-> n + 1, done |-> FALSE]), n + 1)
  <1> DEFINE new == [id |-> n + 1, done |-> FALSE]
             next == Append(list, new)
  <1>1. /\ list \in Seq(Wish) /\ Len(list) \in Nat
        /\ \A i, j \in 1..Len(list) : list[i].id = list[j].id => i = j
        /\ \A i \in 1..Len(list) : list[i] \in Wish /\ list[i].id <= n
    BY GoodIs, LenProperties, ElementOfSeq
  <1>2. new \in Wish /\ new.id = n + 1 /\ MaxWishes \in Nat
    BY WishAssumption DEF Wish, Ids
  <1>3. \A i \in 1..Len(list) : list[i].id \in Nat
    BY <1>1, WishAssumption DEF Wish, Ids, DefaultIds
  <1> HIDE DEF new
  <1>4. /\ next \in Seq(Wish) /\ Len(next) = Len(list) + 1
        /\ \A i \in 1..Len(list) : next[i] = list[i]
        /\ next[Len(list) + 1] = new
    BY <1>1, <1>2, AppendProperties
  <1> HIDE DEF next
  <1>5. \A i \in 1..Len(next) : next[i].id <= n + 1
    BY <1>1, <1>2, <1>3, <1>4
  <1>6. ASSUME NEW i \in 1..Len(next), NEW j \in 1..Len(next), next[i].id = next[j].id
        PROVE  i = j
    BY <1>1, <1>2, <1>3, <1>4, <1>6
  <1>7. Good(next, n + 1)
    BY <1>1, <1>2, <1>4, <1>5, <1>6, GoodIs
  <1> QED BY <1>7 DEF next, new

LEMMA OneLess ==
    ASSUME NEW list, NEW n \in Nat, Good(list, n), NEW i \in 1..Len(list)
    PROVE  Good(RemoveAt(list, i), n)
  <1> DEFINE a == SubSeq(list, 1, i - 1)
             b == SubSeq(list, i + 1, Len(list))
  <1>1. /\ list \in Seq(Wish) /\ Len(list) \in Nat /\ Len(list) <= MaxWishes /\ MaxWishes \in Nat
        /\ \A k, j \in 1..Len(list) : list[k].id = list[j].id => k = j
        /\ \A k \in 1..Len(list) : list[k] \in Wish /\ list[k].id <= n
    BY GoodIs, LenProperties, ElementOfSeq, WishAssumption
  <1>2. a \in Seq(Wish) /\ Len(a) = i - 1 /\ \A j \in 1..i - 1 : a[j] = list[j]
    BY <1>1, SubSeqProperties
  <1>3. b \in Seq(Wish) /\ Len(b) = Len(list) - i
        /\ \A j \in 1..Len(list) - i : b[j] = list[i + j]
    BY <1>1, SubSeqProperties
  <1> HIDE DEF a, b
  <1> DEFINE next == a \o b
  <1>4. /\ next \in Seq(Wish) /\ Len(next) = Len(a) + Len(b)
        /\ \A j \in 1..Len(a) + Len(b) : next[j] = IF j <= Len(a) THEN a[j] ELSE b[j - Len(a)]
    BY <1>2, <1>3, ConcatProperties
  <1> HIDE DEF next
  <1>5. Len(next) = Len(list) - 1
    BY <1>1, <1>2, <1>3, <1>4
  <1>6. \A j \in 1..Len(next) : next[j] = list[IF j < i THEN j ELSE j + 1]
    <2>1. ASSUME NEW j \in 1..Len(next), j < i PROVE next[j] = list[j]
      BY <1>1, <1>2, <1>4, <1>5, <2>1
    <2>2. ASSUME NEW j \in 1..Len(next), ~(j < i) PROVE next[j] = list[j + 1]
      <3>1. j - Len(a) \in 1..Len(list) - i /\ ~(j <= Len(a)) /\ i + (j - Len(a)) = j + 1
        BY <1>1, <1>2, <1>5, <2>2
      <3> QED BY <1>1, <1>2, <1>3, <1>4, <1>5, <3>1
    <2> QED BY <2>1, <2>2
  <1>7. \A j \in 1..Len(next) : next[j].id <= n
    BY <1>1, <1>5, <1>6
  <1>8. ASSUME NEW k \in 1..Len(next), NEW j \in 1..Len(next), next[k].id = next[j].id
        PROVE  k = j
    <2> DEFINE f(m) == IF m < i THEN m ELSE m + 1
    <2>1. f(k) \in 1..Len(list) /\ f(j) \in 1..Len(list)
      BY <1>1, <1>5
    <2>2. next[k] = list[f(k)] /\ next[j] = list[f(j)]
      BY <1>6
    <2>3. f(k) = f(j)
      <3> HIDE DEF f
      <3> QED BY <1>1, <1>8, <2>1, <2>2
    <2> QED BY <2>3
  <1>9. Good(next, n)
    BY <1>1, <1>4, <1>5, <1>7, <1>8, GoodIs
  <1> QED BY <1>9 DEF next, a, b, RemoveAt

LEMMA OneDone ==
    ASSUME NEW list, NEW n \in Nat, Good(list, n), NEW i \in 1..Len(list)
    PROVE  Good([list EXCEPT ![i].done = ~@], n)
  <1> DEFINE next == [list EXCEPT ![i].done = ~@]
             new == [list[i] EXCEPT !.done = ~@]
  <1>1. /\ list \in Seq(Wish) /\ Len(list) \in Nat /\ Len(list) <= MaxWishes
        /\ \A k, j \in 1..Len(list) : list[k].id = list[j].id => k = j
        /\ \A k \in 1..Len(list) : list[k] \in Wish /\ list[k].id <= n
    BY GoodIs, LenProperties, ElementOfSeq
  <1>2. new \in Wish /\ new.id = list[i].id
    BY <1>1 DEF Wish
  <1>3. next = [list EXCEPT ![i] = new]
    OBVIOUS
  <1> HIDE DEF new
  <1>4. /\ next \in Seq(Wish) /\ Len(next) = Len(list)
        /\ \A j \in 1..Len(list) : next[j] = IF j = i THEN new ELSE list[j]
    <2>1. /\ [list EXCEPT ![i] = new] \in Seq(Wish)
          /\ Len([list EXCEPT ![i] = new]) = Len(list)
          /\ \A j \in 1..Len(list) : [list EXCEPT ![i] = new][j] = IF j = i THEN new ELSE list[j]
      BY <1>1, <1>2, ExceptSeq
    <2> HIDE DEF next
    <2> QED BY <1>3, <2>1
  <1> HIDE DEF next
  <1>5. \A j \in 1..Len(list) : next[j].id = list[j].id
    BY <1>2, <1>4
  <1>6. Good(next, n)
    BY <1>1, <1>4, <1>5, GoodIs
  <1> QED BY <1>6 DEF next

LEMMA WishFirst == WishInit => WishInv
  <1> SUFFICES ASSUME WishInit PROVE WishInv
    OBVIOUS
  <1>1. added = 0 /\ 0 \in 0..MaxAdded /\ Good(<<>>, 0) /\ <<>> \in Seq(Wish)
    BY SimpleLists, WishAssumption DEF WishInit
  <1>2. ListsGood
    <2>1. wishStore \in {Absent, Broken, Stored(<<>>)} /\ wishes = [w \in Windows |-> <<>>]
      BY DEF WishInit
    <2> QED BY <1>1, <2>1 DEF ListsGood
  <1>3. WindowsOK /\ SavedMeansKept
    BY DEF WishInit, WindowsOK, SavedMeansKept
  <1> QED BY <1>2, <1>3 DEF WishInv

\* A save of a good list keeps everything.
LEMMA SaveKeeps ==
    ASSUME WishInv, NEW w \in opened, NEW next, SaveWishes(w, next),
           added' \in 0..MaxAdded, added <= added', Good(next, added')
    PROVE  WishInv'
  <1>0. w \in Windows /\ DOMAIN wishes = Windows /\ saved \in [Windows -> BOOLEAN]
    BY DEF WishInv, ListsGood, WindowsOK
  <1>1. ASSUME NEW list, Good(list, added) PROVE Good(list, added')
    <2>0. list \in Seq(Wish) /\ Accepted(list)
      BY <1>1 DEF Good
    <2>1. \A i \in 1..Len(list) : list[i].id \in Nat /\ list[i].id <= added
      BY <1>1, <2>0, WishIds DEF Good
    <2>2. added \in Nat /\ added' \in Nat
      BY WishAssumption DEF WishInv, ListsGood
    <2>3. \A i \in 1..Len(list) : list[i].id <= added'
      BY <2>1, <2>2
    <2> QED BY <2>0, <2>3 DEF Good
  <1>2. wishes' = [wishes EXCEPT ![w] = next] /\ opened' = opened
    BY DEF SaveWishes
  <1>3. /\ wishes' = [v \in Windows |-> wishes'[v]] /\ DOMAIN wishes' = Windows
        /\ \A v \in Windows : Good(wishes'[v], added')
    BY <1>0, <1>1, <1>2 DEF WishInv, ListsGood
  <1>4. wishStore' = Stored(next) \/ wishStore' = wishStore
    BY DEF SaveWishes
  <1>5. ListsGood'
    <2>1. CASE wishStore' = Stored(next)
      BY <1>3, <2>1 DEF ListsGood
    <2>2. CASE wishStore' = wishStore
      <3>1. PICK list : Good(list, added) /\ wishStore \in {Absent, Broken, Stored(list)}
        BY DEF WishInv, ListsGood
      <3>2. Good(list, added')
        BY <1>1, <3>1
      <3> QED BY <1>3, <2>2, <3>1, <3>2 DEF ListsGood
    <2> QED BY <1>4, <2>1, <2>2
  <1>6. WindowsOK'
    BY <1>0, Zenon DEF SaveWishes, WishInv, WindowsOK
  <1>7. SavedMeansKept'
    <2> SUFFICES ASSUME NEW v \in Windows, ~shared', v \in opened', saved'[v]
                 PROVE  ReadWishes(wishStore') = [wishes |-> wishes'[v], saved |-> TRUE]
      BY DEF SavedMeansKept
    <2>1. v = w
      BY DEF SaveWishes
    <2>2. wishStore' = Stored(next)
      BY <1>0, <2>1 DEF SaveWishes
    <2>3. wishes'[v] = next
      BY <1>0, <1>2, <2>1
    <2> QED BY <2>2, <2>3, WrittenIsRead
  <1> QED BY <1>5, <1>6, <1>7 DEF WishInv
LEMMA WishStep == WishInv /\ [WishNext]_wishVars => WishInv'
  <1> SUFFICES ASSUME WishInv, [WishNext]_wishVars PROVE WishInv'
    OBVIOUS
  <1>0. /\ added \in 0..MaxAdded /\ added \in Nat /\ MaxAdded \in Nat
        /\ DOMAIN wishes = Windows /\ saved \in [Windows -> BOOLEAN]
        /\ \A w \in Windows : Good(wishes[w], added)
    BY WishAssumption DEF WishInv, ListsGood, WindowsOK
  <1>l. \A w \in Windows : DOMAIN wishes[w] = 1..Len(wishes[w])
    BY <1>0, LenProperties DEF Good
  <1>1. ASSUME NEW w \in Windows, OpenSpace(w) PROVE WishInv'
    <2>1. /\ wishes' = [wishes EXCEPT ![w] = ReadWishes(wishStore).wishes]
          /\ saved' = [saved EXCEPT ![w] = ReadWishes(wishStore).saved]
          /\ opened' = opened \cup {w} /\ UNCHANGED <<wishStore, added, shared>>
      BY <1>1 DEF OpenSpace
    <2>2. /\ Good(ReadWishes(wishStore).wishes, added)
          /\ ReadWishes(wishStore).saved \in BOOLEAN
          /\ ReadWishes(wishStore) = [wishes |-> ReadWishes(wishStore).wishes,
                                      saved |-> ReadWishes(wishStore).saved]
      BY ReadIsGood DEF WishInv
    <2>3. ListsGood'
      BY <1>0, <2>1, <2>2 DEF WishInv, ListsGood
    <2>4. WindowsOK'
      BY <2>1, <2>2, Zenon DEF WishInv, WindowsOK
    <2>5. SavedMeansKept'
      <3> SUFFICES ASSUME NEW v \in Windows, ~shared', v \in opened', saved'[v]
                   PROVE  ReadWishes(wishStore') = [wishes |-> wishes'[v], saved |-> TRUE]
        BY DEF SavedMeansKept
      <3>1. CASE v = w
        <4>1. wishes'[v] = ReadWishes(wishStore).wishes /\ saved'[v] = ReadWishes(wishStore).saved
          BY <1>0, <2>1, <3>1
        <4>2. ReadWishes(wishStore).saved = TRUE
          BY <2>2, <4>1, Zenon
        <4> QED BY <2>1, <2>2, <4>1, <4>2
      <3>2. CASE v # w
        <4>1. wishes'[v] = wishes[v] /\ saved'[v] = saved[v] /\ v \in opened
          BY <1>0, <2>1, <3>2
        <4> QED BY <2>1, <4>1 DEF WishInv, SavedMeansKept
      <3> QED BY <3>1, <3>2
    <2> QED BY <2>3, <2>4, <2>5 DEF WishInv
  <1>2. ASSUME NEW w \in Windows, CloseSpace(w) PROVE WishInv'
    <2>1. /\ wishes' = [wishes EXCEPT ![w] = <<>>] /\ saved' = [saved EXCEPT ![w] = TRUE]
          /\ opened' = opened \ {w} /\ UNCHANGED <<wishStore, added, shared>>
      BY <1>2 DEF CloseSpace
    <2>2. ListsGood'
      <3>1. Good(<<>>, added)
        BY <1>0, SimpleLists
      <3> QED BY <1>0, <2>1, <3>1 DEF WishInv, ListsGood
    <2>3. WindowsOK'
      BY <2>1, Zenon DEF WishInv, WindowsOK
    <2>4. SavedMeansKept'
      <3> SUFFICES ASSUME NEW v \in Windows, ~shared', v \in opened', saved'[v]
                   PROVE  ReadWishes(wishStore') = [wishes |-> wishes'[v], saved |-> TRUE]
        BY DEF SavedMeansKept
      <3>1. v # w /\ wishes'[v] = wishes[v] /\ saved'[v] = saved[v] /\ v \in opened
        BY <1>0, <2>1
      <3> QED BY <2>1, <3>1 DEF WishInv, SavedMeansKept
    <2> QED BY <2>2, <2>3, <2>4 DEF WishInv
  <1>3. ASSUME NEW w \in Windows, AddWish(w) PROVE WishInv'
    <2>1. /\ w \in opened /\ Len(wishes[w]) < MaxWishes /\ added < MaxAdded /\ added' = added + 1
          /\ SaveWishes(w, Append(wishes[w], [id |-> added', done |-> FALSE]))
      BY <1>3 DEF AddWish
    <2>2. Good(Append(wishes[w], [id |-> added', done |-> FALSE]), added')
      BY <1>0, <2>1, OneMore
    <2>3. added' \in 0..MaxAdded /\ added <= added'
      BY <1>0, <2>1
    <2> QED BY <2>1, <2>2, <2>3, SaveKeeps
  <1>4. ASSUME NEW w \in Windows, NEW i \in 1..MaxWishes, Toggle(w, i) PROVE WishInv'
    <2>1. /\ w \in opened /\ i \in 1..Len(wishes[w]) /\ added' = added
          /\ SaveWishes(w, [wishes[w] EXCEPT ![i].done = ~@])
      BY <1>4, <1>l DEF Toggle
    <2>2. Good([wishes[w] EXCEPT ![i].done = ~@], added)
      BY <1>0, <2>1, OneDone
    <2>3. added' \in 0..MaxAdded /\ added <= added'
      BY <1>0, <2>1
    <2> QED BY <2>1, <2>2, <2>3, SaveKeeps
  <1>5. ASSUME NEW w \in Windows, NEW i \in 1..MaxWishes, RemoveWish(w, i) PROVE WishInv'
    <2>1. /\ w \in opened /\ i \in 1..Len(wishes[w]) /\ added' = added
          /\ SaveWishes(w, RemoveAt(wishes[w], i))
      BY <1>5, <1>l DEF RemoveWish
    <2>2. Good(RemoveAt(wishes[w], i), added)
      BY <1>0, <2>1, OneLess
    <2>3. added' \in 0..MaxAdded /\ added <= added'
      BY <1>0, <2>1
    <2> QED BY <2>1, <2>2, <2>3, SaveKeeps
  <1>6. CASE UNCHANGED wishVars
    BY <1>6, Zenon DEF wishVars, WishInv, ListsGood, WindowsOK, SavedMeansKept
  <1> QED BY <1>1, <1>2, <1>3, <1>4, <1>5, <1>6 DEF WishNext

LEMMA WishInvSound == WishInv => WishesSound
  <1> SUFFICES ASSUME WishInv PROVE WishesSound
    OBVIOUS
  <1>1. PICK list : Good(list, added) /\ wishStore \in {Absent, Broken, Stored(list)}
    BY DEF WishInv, ListsGood
  <1>2. list \in Seq(Wish) /\ Accepted(list) /\ <<>> \in Seq(Wish)
    BY <1>1 DEF Good
  <1>3. /\ wishStore.kind \in {"absent", "broken", "list"} /\ wishStore.list \in Seq(Wish)
        /\ wishStore.kind = "list" => wishStore.list = list
    <2>1. CASE wishStore = Absent
      BY <1>2, <2>1 DEF Absent
    <2>2. CASE wishStore = Broken
      BY <1>2, <2>2 DEF Broken
    <2>3. CASE wishStore = Stored(list)
      BY <1>2, <2>3 DEF Stored
    <2> QED BY <1>1, <2>1, <2>2, <2>3
  <1>4. wishes \in [Windows -> Seq(Wish)]
    <2>1. \A w \in Windows : wishes[w] \in Seq(Wish)
      BY DEF WishInv, ListsGood, Good
    <2>2. wishes = [w \in Windows |-> wishes[w]]
      BY DEF WishInv, ListsGood
    <2> QED BY <2>1, <2>2
  <1>5. WishTypeOK
    BY <1>3, <1>4, Zenon DEF WishInv, ListsGood, WindowsOK, WishTypeOK
  <1>6. WrittenIsReadable
    BY <1>2, <1>3 DEF WrittenIsReadable
  <1> QED BY <1>5, <1>6 DEF WishInv, WishesSound

\* The wishes, for any number of windows and wishes: what is written is accepted
\* when it is read, and a window that says its wishes are kept tells the truth
\* until two write at once.
THEOREM WishesAreSound == WishSpec => []WishesSound
  BY WishFirst, WishStep, WishInvSound, PTL DEF WishSpec

-----------------------------------------------------------------------------
(* The music: where the player lies, and the collection of two tabs.       *)

\* Of finitely many integers one is the greatest and one is the least.
LEMMA Extremes ==
    ASSUME NEW n \in Nat, NEW f \in [0..n -> Int]
    PROVE  /\ \E m \in 0..n : \A i \in 0..n : f[i] <= f[m]
           /\ \E m \in 0..n : \A i \in 0..n : f[m] <= f[i]
  <1> DEFINE Both(k) == /\ \E m \in 0..k : \A i \in 0..k : f[i] <= f[m]
                        /\ \E m \in 0..k : \A i \in 0..k : f[m] <= f[i]
             Failing == {k \in 0..n : ~Both(k)}
  <1>1. Both(0)
    <2>1. 0..0 = {0} /\ f[0] \in Int /\ f[0] <= f[0]
      OBVIOUS
    <2> QED BY <2>1
  <1>2. ASSUME NEW k \in 1..n, Both(k - 1) PROVE Both(k)
    <2>1. PICK a \in 0..k - 1 : \A i \in 0..k - 1 : f[i] <= f[a]
      BY <1>2
    <2>2. PICK b \in 0..k - 1 : \A i \in 0..k - 1 : f[b] <= f[i]
      BY <1>2
    <2>3. /\ 0..k = 0..k - 1 \cup {k} /\ a \in 0..k /\ b \in 0..k /\ k \in 0..k
          /\ \A i \in 0..k : f[i] \in Int
      OBVIOUS
    <2>4. \E m \in 0..k : \A i \in 0..k : f[i] <= f[m]
      <3>1. CASE f[k] <= f[a]
        <4>1. \A i \in 0..k : f[i] <= f[a]
          BY <2>1, <2>3, <3>1
        <4> QED BY <2>3, <4>1
      <3>2. CASE f[a] < f[k]
        <4>1. \A i \in 0..k : f[i] <= f[k]
          BY <2>1, <2>3, <3>2
        <4> QED BY <2>3, <4>1
      <3> QED BY <2>3, <3>1, <3>2
    <2>5. \E m \in 0..k : \A i \in 0..k : f[m] <= f[i]
      <3>1. CASE f[b] <= f[k]
        <4>1. \A i \in 0..k : f[b] <= f[i]
          BY <2>2, <2>3, <3>1
        <4> QED BY <2>3, <4>1
      <3>2. CASE f[k] < f[b]
        <4>1. \A i \in 0..k : f[k] <= f[i]
          BY <2>2, <2>3, <3>2
        <4> QED BY <2>3, <4>1
      <3> QED BY <2>3, <3>1, <3>2
    <2> QED BY <2>4, <2>5
  <1> HIDE DEF Both
  <1>3. Failing = {}
    <2>1. SUFFICES ASSUME Failing # {} PROVE FALSE
      OBVIOUS
    <2>2. PICK k \in Failing : \A m \in Failing : k <= m
      <3>1. Failing \in SUBSET Nat
        OBVIOUS
      <3> QED BY <2>1, <3>1, Least
    <2>3. k # 0
      BY <1>1
    <2>4. k \in 1..n /\ k - 1 \in 0..n /\ ~(k <= k - 1)
      BY <2>3
    <2>5. Both(k - 1)
      BY <2>2, <2>4
    <2> QED BY <1>2, <2>4, <2>5
  <1>4. Both(n)
    BY <1>3
  <1> QED BY <1>4 DEF Both

\* What the greatest and the least of the edges of some rects say of them all.
LEMMA EdgesOf ==
    ASSUME NEW n \in Nat, NEW f \in [0..n -> Int],
           NEW S, \A x : x \in S <=> \E i \in 0..n : x = f[i]
    PROVE  /\ Max(S) \in S /\ Min(S) \in S
           /\ \A x \in Int : Max(S) <= x <=> \A i \in 0..n : f[i] <= x
           /\ \A x \in Int : x < Min(S) <=> \A i \in 0..n : x < f[i]
  <1>1. \A i \in 0..n : f[i] \in Int
    OBVIOUS
  <1>2. PICK a \in 0..n : \A i \in 0..n : f[i] <= f[a]
    BY Extremes
  <1>3. PICK b \in 0..n : \A i \in 0..n : f[b] <= f[i]
    BY Extremes
  <1>4. Max(S) \in S /\ \A s \in S : Max(S) >= s
    <2>1. f[a] \in S /\ \A s \in S : f[a] >= s
      BY <1>1, <1>2
    <2> QED BY <2>1 DEF Max
  <1>5. Min(S) \in S /\ \A s \in S : Min(S) <= s
    <2>1. f[b] \in S /\ \A s \in S : f[b] <= s
      BY <1>3
    <2> QED BY <2>1 DEF Min
  <1>6. ASSUME NEW x \in Int PROVE Max(S) <= x <=> \A i \in 0..n : f[i] <= x
    <2>1. PICK m \in 0..n : Max(S) = f[m]
      BY <1>4
    <2>2. \A i \in 0..n : f[m] >= f[i]
      BY <1>4, <2>1
    <2> QED BY <1>1, <2>1, <2>2
  <1>7. ASSUME NEW x \in Int PROVE x < Min(S) <=> \A i \in 0..n : x < f[i]
    <2>1. PICK m \in 0..n : Min(S) = f[m]
      BY <1>5
    <2>2. \A i \in 0..n : f[m] <= f[i]
      BY <1>5, <2>1
    <2> QED BY <1>1, <2>1, <2>2
  <1> QED BY <1>4, <1>5, <1>6, <1>7

\* What is left of a slot lies in the slot and in everything that cuts it, and
\* is all that does.
LEMMA ClippedIs ==
    ASSUME NEW frame \in Rects, NEW cuts \in Seq(Rects)
    PROVE  /\ ClipPlayerRect(frame, cuts) \in Rects \cup {Hidden}
           /\ \A x, y \in Edges :
                 Covers(ClipPlayerRect(frame, cuts), x, y) <=>
                    /\ Covers(frame, x, y)
                    /\ \A i \in DOMAIN cuts : Covers(cuts[i], x, y)
  <1> DEFINE n == Len(cuts)
             at(i) == IF i = 0 THEN frame ELSE cuts[i]
             rects == {frame} \cup Range(cuts)
             c == Common(rects)
             shown == ClipPlayerRect(frame, cuts)
  <1>1. n \in Nat /\ DOMAIN cuts = 1..n /\ \A i \in 1..n : cuts[i] \in Rects
    BY LenProperties, ElementOfSeq
  <1>2. \A i \in 0..n : at(i) \in Rects
    BY <1>1
  <1>3. rects = {at(i) : i \in 0..n}
    <2>1. Range(cuts) = {cuts[i] : i \in 1..n}
      BY <1>1 DEF Range
    <2>2. 0..n = {0} \cup 1..n /\ \A i \in 1..n : i # 0
      BY <1>1
    <2> QED BY <2>1, <2>2
  <1>4. \A x, y : (\A r \in rects : Covers(r, x, y)) <=>
                     Covers(frame, x, y) /\ \A i \in DOMAIN cuts : Covers(cuts[i], x, y)
    <2>1. Range(cuts) = {cuts[i] : i \in DOMAIN cuts}
      BY DEF Range
    <2> HIDE DEF n
    <2> QED BY <2>1
  <1> HIDE DEF n, at, rects
  <1>5. /\ Edges \subseteq Int
        /\ \A r \in Rects : /\ r.left \in Edges /\ r.right \in Edges
                            /\ r.top \in Edges /\ r.bottom \in Edges
                            /\ r.left <= r.right /\ r.top <= r.bottom
    BY OverlayAssumption DEF Rects
  <1>6. /\ c.left \in Edges /\ \A x \in Int : c.left <= x <=> \A i \in 0..n : at(i).left <= x
        /\ c.top \in Edges /\ \A x \in Int : c.top <= x <=> \A i \in 0..n : at(i).top <= x
        /\ c.right \in Edges /\ \A x \in Int : x < c.right <=> \A i \in 0..n : x < at(i).right
        /\ c.bottom \in Edges /\ \A x \in Int : x < c.bottom <=> \A i \in 0..n : x < at(i).bottom
    <2> DEFINE l == [i \in 0..n |-> at(i).left]
               r == [i \in 0..n |-> at(i).right]
               t == [i \in 0..n |-> at(i).top]
               b == [i \in 0..n |-> at(i).bottom]
    <2>1. l \in [0..n -> Int] /\ r \in [0..n -> Int] /\ t \in [0..n -> Int] /\ b \in [0..n -> Int]
      BY <1>2, <1>5
    <2> DEFINE ls == {x.left : x \in rects}
               rs == {x.right : x \in rects}
               ts == {x.top : x \in rects}
               bs == {x.bottom : x \in rects}
    <2>2. \A i \in 0..n : /\ l[i] = at(i).left /\ r[i] = at(i).right
                          /\ t[i] = at(i).top /\ b[i] = at(i).bottom
      OBVIOUS
    <2> HIDE DEF l, r, t, b
    <2>3. /\ \A x : x \in ls <=> \E i \in 0..n : x = l[i]
          /\ \A x : x \in rs <=> \E i \in 0..n : x = r[i]
          /\ \A x : x \in ts <=> \E i \in 0..n : x = t[i]
          /\ \A x : x \in bs <=> \E i \in 0..n : x = b[i]
      BY <1>3, <2>2
    <2>4. ls \subseteq Edges /\ rs \subseteq Edges /\ ts \subseteq Edges /\ bs \subseteq Edges
      BY <1>2, <1>3, <1>5
    <2>5. c.left = Max(ls) /\ c.right = Min(rs) /\ c.top = Max(ts) /\ c.bottom = Min(bs)
      BY DEF c, Common
    <2> HIDE DEF ls, rs, ts, bs
    <2>6. Max(ls) \in ls /\ \A x \in Int : Max(ls) <= x <=> \A i \in 0..n : l[i] <= x
      BY <1>1, <2>1, <2>3, EdgesOf
    <2>7. Max(ts) \in ts /\ \A x \in Int : Max(ts) <= x <=> \A i \in 0..n : t[i] <= x
      BY <1>1, <2>1, <2>3, EdgesOf
    <2>8. Min(rs) \in rs /\ \A x \in Int : x < Min(rs) <=> \A i \in 0..n : x < r[i]
      BY <1>1, <2>1, <2>3, EdgesOf
    <2>9. Min(bs) \in bs /\ \A x \in Int : x < Min(bs) <=> \A i \in 0..n : x < b[i]
      BY <1>1, <2>1, <2>3, EdgesOf
    <2>10. c.left \in Edges /\ \A x \in Int : c.left <= x <=> \A i \in 0..n : at(i).left <= x
      BY <2>2, <2>4, <2>5, <2>6
    <2>11. c.top \in Edges /\ \A x \in Int : c.top <= x <=> \A i \in 0..n : at(i).top <= x
      BY <2>2, <2>4, <2>5, <2>7
    <2>12. c.right \in Edges /\ \A x \in Int : x < c.right <=> \A i \in 0..n : x < at(i).right
      BY <2>2, <2>4, <2>5, <2>8
    <2>13. c.bottom \in Edges /\ \A x \in Int : x < c.bottom <=> \A i \in 0..n : x < at(i).bottom
      BY <2>2, <2>4, <2>5, <2>9
    <2> QED BY <2>10, <2>11, <2>12, <2>13
  <1>7. c.left \in Int /\ c.top \in Int /\ c.right \in Int /\ c.bottom \in Int
    BY <1>5, <1>6
  <1>8. c = [left |-> c.left, right |-> c.right, top |-> c.top, bottom |-> c.bottom]
    BY DEF Common
  <1> HIDE DEF c
  <1>9. ASSUME NEW x \in Edges, NEW y \in Edges
        PROVE  Covers(c, x, y) <=> \A r \in rects : Covers(r, x, y)
    <2>1. x \in Int /\ y \in Int
      BY <1>5
    <2>2. Covers(c, x, y) <=> \A i \in 0..n : Covers(at(i), x, y)
      BY <1>6, <2>1 DEF Covers
    <2> QED BY <1>3, <2>2
  <1>10. CASE IsValidRect(c) /\ \A r \in rects : IsValidRect(r)
    <2>1. shown = c
      BY <1>10 DEF c, rects, ClipPlayerRect
    <2>2. c \in Rects
      <3>1. c.left <= c.right /\ c.top <= c.bottom
        BY <1>10, <1>7 DEF IsValidRect
      <3> QED BY <1>6, <1>8, <3>1 DEF Rects
    <2> HIDE DEF shown
    <2> QED BY <1>4, <1>9, <2>1, <2>2 DEF shown
  <1>11. CASE ~(IsValidRect(c) /\ \A r \in rects : IsValidRect(r))
    <2>1. shown = Hidden
      BY <1>11 DEF c, rects, ClipPlayerRect
    <2>2. \A x, y \in Edges : ~Covers(Hidden, x, y)
      BY <1>5 DEF Covers, Hidden
    <2>3. ASSUME NEW x \in Edges, NEW y \in Edges, \A r \in rects : Covers(r, x, y) PROVE FALSE
      <3>1. x \in Int /\ y \in Int /\ Covers(c, x, y)
        BY <1>5, <1>9, <2>3
      <3>2. IsValidRect(c)
        BY <1>7, <3>1 DEF Covers, IsValidRect
      <3>3. \A r \in rects : r \in Rects
        BY <1>2, <1>3
      <3>4. \A r \in rects : IsValidRect(r)
        <4>1. \A r \in rects : /\ r.left \in Int /\ r.right \in Int
                                /\ r.top \in Int /\ r.bottom \in Int
          BY <1>5, <3>3
        <4> QED BY <2>3, <3>1, <4>1 DEF Covers, IsValidRect
      <3> QED BY <1>11, <3>2, <3>4
    <2> HIDE DEF shown
    <2> QED BY <1>4, <2>1, <2>2, <2>3 DEF shown
  <1> QED BY <1>10, <1>11

\* What was shown last is right unless an update is due, and one is due only
\* while there is something to show and a slot for it.
OverlayInv ==
    /\ OverlayTypeOK
    /\ DOMAIN clips = PlayerSlots /\ clips = [s \in PlayerSlots |-> clips[s]]
    /\ scheduled => over \in PlayerSlots /\ hasItem
    /\ over # Nowhere /\ hasItem /\ ~scheduled => geometry = ClipPlayerRect(rect[over], clips[over])

LEMMA OverlayFirst == OverlayInit => OverlayInv
  <1> SUFFICES ASSUME OverlayInit PROVE OverlayInv
    OBVIOUS
  <1>1. Corner \in Rects
    <2>1. PICK e \in Edges : e = CHOOSE x \in Edges : TRUE
      BY OverlayAssumption
    <2>2. e \in Int /\ e <= e
      BY OverlayAssumption
    <2>3. Corner = [left |-> e, right |-> e, top |-> e, bottom |-> e]
      BY <2>1 DEF Corner
    <2> QED BY <2>1, <2>2, <2>3 DEF Rects
  <1>2. \A s \in PlayerSlots : clips[s] = <<>>
    BY DEF OverlayInit
  <1>3. <<>> \in Seq(Rects)
    OBVIOUS
  <1>4. OverlayTypeOK
    <2>1. \A s \in PlayerSlots : clips[s] \in Seq(Rects)
      BY <1>2, <1>3
    <2>2. rect \in [PlayerSlots -> Rects] /\ moves \in 0..MaxMoves
      BY <1>1, OverlayAssumption DEF OverlayInit
    <2> QED BY <2>1, <2>2 DEF OverlayInit, OverlayTypeOK
  <1> QED BY <1>4 DEF OverlayInit, OverlayInv

LEMMA OverlayStep == OverlayInv /\ [OverlayNext]_overlayVars => OverlayInv'
  <1> SUFFICES ASSUME OverlayInv, [OverlayNext]_overlayVars PROVE OverlayInv'
    OBVIOUS
  <1> USE DEF OverlayInv, OverlayTypeOK
  <1>1. ASSUME NEW s \in PlayerSlots \cup {Nowhere}, PlaceOver(s) PROVE OverlayInv'
    <2>1. CASE s = over
      BY <1>1, <2>1 DEF PlaceOver
    <2>2. CASE s # over
      BY <1>1, <2>2 DEF PlaceOver, Observes
    <2> QED BY <2>1, <2>2
  <1>2. ASSUME NEW s \in PlayerSlots, LayoutMoves(s) PROVE OverlayInv'
    <2> USE DEF LayoutMoves, Moved
    <2>1. moves' \in 0..MaxMoves
      BY <1>2, OverlayAssumption
    <2>2. /\ scheduled' = (scheduled \/ (over = s /\ hasItem))
          /\ UNCHANGED <<over, hasItem, geometry>>
      BY <1>2
    <2>3. PICK r \in Rects : \/ rect' = [rect EXCEPT ![s] = r] /\ UNCHANGED clips
                             \/ clips' = [clips EXCEPT ![s] = Append(@, r)] /\ UNCHANGED rect
      BY <1>2
    <2> HIDE DEF LayoutMoves, Moved
    <2>4. /\ rect' \in [PlayerSlots -> Rects]
          /\ \A u \in PlayerSlots : clips'[u] \in Seq(Rects)
          /\ DOMAIN clips' = PlayerSlots /\ clips' = [u \in PlayerSlots |-> clips'[u]]
      <3>1. CASE rect' = [rect EXCEPT ![s] = r] /\ UNCHANGED clips
        BY <3>1
      <3>2. CASE clips' = [clips EXCEPT ![s] = Append(@, r)] /\ UNCHANGED rect
        <4>1. Append(clips[s], r) \in Seq(Rects)
          BY AppendProperties
        <4>2. \A u \in PlayerSlots : clips'[u] = IF u = s THEN Append(clips[s], r) ELSE clips[u]
          BY <3>2
        <4>3. DOMAIN clips' = PlayerSlots /\ clips' = [u \in PlayerSlots |-> clips'[u]]
          BY <3>2
        <4> QED BY <3>2, <4>1, <4>2, <4>3
      <3> QED BY <2>3, <3>1, <3>2
    <2>5. \A u \in PlayerSlots \ {s} : rect'[u] = rect[u] /\ clips'[u] = clips[u]
      BY <2>3
    <2>6. OverlayTypeOK'
      BY <2>1, <2>2, <2>4
    <2>7. over # Nowhere /\ hasItem /\ ~scheduled' => over \in PlayerSlots \ {s} /\ ~scheduled
      BY <2>2
    <2> QED BY <2>2, <2>4, <2>5, <2>6, <2>7
  <1>3. ASSUME PlayOrStop PROVE OverlayInv'
    BY <1>3 DEF PlayOrStop, Observes
  <1>4. ASSUME Update PROVE OverlayInv'
    <2>1. geometry' \in Rects \cup {Hidden}
      <3>1. rect[over] \in Rects /\ clips[over] \in Seq(Rects)
        BY <1>4 DEF Update
      <3> QED BY <1>4, <3>1, ClippedIs DEF Update
    <2> QED BY <1>4, <2>1 DEF Update
  <1>5. ASSUME UNCHANGED overlayVars PROVE OverlayInv'
    BY <1>5 DEF overlayVars
  <1> HIDE DEF OverlayInv
  <1> QED BY <1>1, <1>2, <1>3, <1>4, <1>5 DEF OverlayNext

LEMMA OverlayInvSound == OverlayInv => OverlaySound
  <1> SUFFICES ASSUME OverlayInv PROVE OverlaySound
    OBVIOUS
  <1>1. ASSUME over # Nowhere, hasItem, ~scheduled
        PROVE  \A x, y \in Edges :
                  Covers(geometry, x, y) <=>
                     /\ Covers(rect[over], x, y)
                     /\ \A i \in DOMAIN clips[over] : Covers(clips[over][i], x, y)
    <2>1. rect[over] \in Rects /\ clips[over] \in Seq(Rects)
      BY <1>1 DEF OverlayInv, OverlayTypeOK
    <2>2. geometry = ClipPlayerRect(rect[over], clips[over])
      BY <1>1 DEF OverlayInv
    <2> QED BY <2>1, <2>2, ClippedIs
  <1> QED BY <1>1 DEF OverlayInv, OverlaySound, ShownIsSlot

\* The places of a list up to one of them.
UpTo(places, i) == {j \in places : j <= i}
InOrder(places) ==
    \A k \in 1..Cardinality(places) : \E i \in places : Cardinality(UpTo(places, i)) = k

\* What is taken from a list in order, if every number of places is reached.
LEMMA TakenInOrder ==
    ASSUME NEW list \in Seq(Songs), NEW places \in SUBSET DOMAIN list,
           Cardinality(places) \in Nat, InOrder(places)
    PROVE  /\ AtPlaces(list, places) \in Seq(Songs)
           /\ Len(AtPlaces(list, places)) = Cardinality(places)
           /\ \A k \in 1..Cardinality(places) :
                 \E i \in places : /\ AtPlaces(list, places)[k] = list[i]
                                   /\ Cardinality(UpTo(places, i)) = k
  <1> DEFINE n == Cardinality(places)
             at(k) == CHOOSE i \in places : Cardinality({j \in places : j <= i}) = k
             out == [k \in 1..n |-> list[at(k)]]
  <1>1. out = AtPlaces(list, places)
    BY DEF AtPlaces
  <1>2. \A k \in 1..n : at(k) \in places /\ Cardinality(UpTo(places, at(k))) = k
    BY DEF UpTo, InOrder
  <1> HIDE DEF n, at
  <1>3. \A i \in places : list[i] \in Songs
    BY LenProperties, ElementOfSeq
  <1>4. \A k \in 1..n : out[k] = list[at(k)] /\ out[k] \in Songs
    BY <1>2, <1>3
  <1>5. n \in Nat
    BY DEF n
  <1>6. out \in Seq(Songs) /\ Len(out) = n
    BY <1>4, <1>5, IsASeq
  <1> HIDE DEF out
  <1>7. \A k \in 1..n : \E i \in places :
           out[k] = list[i] /\ Cardinality(UpTo(places, i)) = k
    BY <1>2, <1>4
  <1> QED BY <1>1, <1>6, <1>7 DEF n

\* How many places lie up to one of them: all but the one that is taken out.
LEMMA CountTo == \A n \in Nat : IsFiniteSet(1..n) /\ Cardinality(1..n) = n
  <1>1. ASSUME NEW n \in Nat PROVE IsFiniteSet(1..n) /\ Cardinality(1..n) = n
    <2>1. IsFiniteSet(1..n) /\ Cardinality(1..n) = IF 1 > n THEN 0 ELSE n - 1 + 1
      BY FS_Interval
    <2>2. (IF 1 > n THEN 0 ELSE n - 1 + 1) = n
      OBVIOUS
    <2> QED BY <2>1, <2>2
  <1> QED BY <1>1

LEMMA AllPlaces ==
    ASSUME NEW n \in Nat
    PROVE  /\ Cardinality(1..n) = n /\ InOrder(1..n)
           /\ \A i \in 1..n : Cardinality(UpTo(1..n, i)) = i
  <1>1. \A i \in 1..n : UpTo(1..n, i) = 1..i /\ i \in Nat
    BY DEF UpTo
  <1> QED BY <1>1, CountTo DEF InOrder

LEMMA OnePlaceLess ==
    ASSUME NEW n \in Nat, NEW p \in 1..n
    PROVE  Cardinality(1..n \ {p}) = n - 1 /\ InOrder(1..n \ {p})
  <1> DEFINE places == 1..n \ {p}
  <1>1. \A k \in Nat : p \in 1..k => Cardinality(1..k \ {p}) = k - 1
    BY CountTo, FS_RemoveElement
  <1>2. Cardinality(places) = n - 1
    BY <1>1
  <1>3. ASSUME NEW k \in 1..n - 1
        PROVE  \E i \in places : Cardinality(UpTo(places, i)) = k
    <2>1. CASE k < p
      <3>1. k \in places /\ UpTo(places, k) = 1..k /\ k \in Nat
        BY <2>1 DEF UpTo
      <3> QED BY <3>1, CountTo
    <2>2. CASE p <= k
      <3>1. k + 1 \in places /\ UpTo(places, k + 1) = 1..(k + 1) \ {p}
        BY <2>2 DEF UpTo
      <3>2. k + 1 \in Nat /\ p \in 1..(k + 1) /\ k + 1 - 1 = k
        BY <2>2
      <3>3. Cardinality(1..(k + 1) \ {p}) = k
        BY <1>1, <3>2
      <3> QED BY <3>1, <3>3
    <2> QED BY <2>1, <2>2
  <1> HIDE DEF places
  <1>4. InOrder(places)
    BY <1>2, <1>3 DEF InOrder
  <1> QED BY <1>2, <1>4 DEF places

\* A list of songs, each once and not too many, as it is saved and read.
SongLists ==
    {list \in Seq(Songs) : /\ Len(list) <= MaxSaved
                           /\ \A i, j \in 1..Len(list) : list[i] = list[j] => i = j}

\* What was saved is read as it was.
LEMMA RestoredAsSaved ==
    ASSUME NEW list \in SongLists PROVE Restore(list) = list
  <1> DEFINE n == Len(list)
             places == {i \in DOMAIN list : i <= MaxSaved /\ \A j \in 1..i - 1 : list[j] # list[i]}
  <1>1. n \in Nat /\ DOMAIN list = 1..n /\ list \in Seq(Songs) /\ n <= MaxSaved
        /\ \A i, j \in 1..n : list[i] = list[j] => i = j
    BY LenProperties DEF SongLists
  <1>2. MaxSaved \in Nat
    BY LibraryAssumption
  <1>3. places = 1..n
    <2> HIDE DEF n
    <2>1. ASSUME NEW i \in 1..n PROVE i <= MaxSaved /\ \A j \in 1..i - 1 : list[j] # list[i]
      <3>1. \A j \in 1..i - 1 : j \in 1..n /\ j # i
        BY <1>1
      <3> QED BY <1>1, <1>2, <3>1
    <2> QED BY <1>1, <2>1
  <1>4. Restore(list) = AtPlaces(list, 1..n)
    BY <1>3 DEF Restore
  <1> HIDE DEF n, places
  <1>5. /\ Cardinality(1..n) = n /\ InOrder(1..n)
        /\ \A i \in 1..n : Cardinality(UpTo(1..n, i)) = i
    BY <1>1, AllPlaces
  <1>7. AtPlaces(list, 1..n) \in Seq(Songs) /\ Len(AtPlaces(list, 1..n)) = n
        /\ \A k \in 1..n : AtPlaces(list, 1..n)[k] = list[k]
    <2>1. 1..n \in SUBSET DOMAIN list /\ Cardinality(1..n) \in Nat
      BY <1>1, <1>5
    <2> DEFINE out == AtPlaces(list, 1..n)
    <2>2. /\ out \in Seq(Songs) /\ Len(out) = Cardinality(1..n)
          /\ \A k \in 1..Cardinality(1..n) : \E i \in 1..n :
                out[k] = list[i] /\ Cardinality(UpTo(1..n, i)) = k
      BY <1>1, <1>5, <2>1, TakenInOrder
    <2> HIDE DEF out
    <2>3. ASSUME NEW k \in 1..n PROVE out[k] = list[k]
      <3>1. PICK i \in 1..n : out[k] = list[i] /\ Cardinality(UpTo(1..n, i)) = k
        BY <1>5, <2>2
      <3> QED BY <1>5, <3>1
    <2> QED BY <1>5, <2>2, <2>3 DEF out
  <1> QED BY <1>1, <1>4, <1>7, SeqEqual DEF n

\* All but one song: a list that is as good, without it.
LEMMA LeftOut ==
    ASSUME NEW list \in SongLists, NEW s \in Songs
    PROVE  /\ AllBut(list, s) \in SongLists /\ \A k \in 1..Len(AllBut(list, s)) : AllBut(list, s)[k] # s
  <1> DEFINE n == Len(list)
             places == {i \in DOMAIN list : list[i] # s}
             out == AllBut(list, s)
  <1>1. n \in Nat /\ DOMAIN list = 1..n /\ list \in Seq(Songs) /\ n <= MaxSaved
        /\ \A i, j \in 1..n : list[i] = list[j] => i = j
    BY LenProperties DEF SongLists
  <1>2. out = AtPlaces(list, places) /\ places \in SUBSET DOMAIN list
    BY DEF AllBut
  <1>3. \A i \in places : list[i] # s /\ i \in 1..n
    BY <1>1
  <1>4. \/ places = 1..n
        \/ \E p \in 1..n : places = 1..n \ {p}
    BY <1>1
  <1> HIDE DEF n, places, out
  <1>5. Cardinality(places) \in Nat /\ Cardinality(places) <= n /\ InOrder(places)
    <2>1. CASE places = 1..n
      BY <1>1, <2>1, AllPlaces
    <2>2. ASSUME NEW p \in 1..n, places = 1..n \ {p}
          PROVE  Cardinality(places) = n - 1 /\ InOrder(places)
      BY <1>1, <2>2, OnePlaceLess
    <2>3. \A p \in 1..n : n - 1 \in Nat /\ n - 1 <= n
      BY <1>1
    <2> QED BY <1>4, <2>1, <2>2, <2>3
  <1>6. /\ out \in Seq(Songs) /\ Len(out) = Cardinality(places)
        /\ \A k \in 1..Cardinality(places) :
              \E i \in places : out[k] = list[i] /\ Cardinality(UpTo(places, i)) = k
    BY <1>1, <1>2, <1>5, TakenInOrder
  <1>7. Len(out) <= MaxSaved
    BY <1>1, <1>5, <1>6, LibraryAssumption
  <1>8. ASSUME NEW k \in 1..Len(out), NEW l \in 1..Len(out), out[k] = out[l] PROVE k = l
    <2>1. PICK i \in places : out[k] = list[i] /\ Cardinality(UpTo(places, i)) = k
      BY <1>6
    <2>2. PICK j \in places : out[l] = list[j] /\ Cardinality(UpTo(places, j)) = l
      BY <1>6
    <2>3. i = j
      BY <1>1, <1>3, <1>8, <2>1, <2>2
    <2> QED BY <2>1, <2>2, <2>3
  <1>9. \A k \in 1..Len(out) : out[k] # s
    BY <1>3, <1>6
  <1> QED BY <1>6, <1>7, <1>8, <1>9 DEF SongLists, out

\* One song before the others.
LEMMA PutFirst ==
    ASSUME NEW list \in SongLists, NEW s \in Songs, Len(list) < MaxSaved,
           \A k \in 1..Len(list) : list[k] # s
    PROVE  <<s>> \o list \in SongLists
  <1> DEFINE n == Len(list)
             out == <<s>> \o list
  <1>1. n \in Nat /\ list \in Seq(Songs) /\ n < MaxSaved /\ MaxSaved \in Nat
        /\ \A i, j \in 1..n : list[i] = list[j] => i = j
    BY LenProperties, LibraryAssumption DEF SongLists
  <1>2. <<s>> \in Seq(Songs) /\ Len(<<s>>) = 1 /\ <<s>>[1] = s
    OBVIOUS
  <1>3. /\ out \in Seq(Songs) /\ Len(out) = 1 + n
        /\ \A k \in 1..1 + n : out[k] = IF k <= 1 THEN <<s>>[k] ELSE list[k - 1]
    BY <1>1, <1>2, ConcatProperties
  <1>4. \A k \in 1..n : list[k] # s
    OBVIOUS
  <1> HIDE DEF n, out
  <1>5. Len(out) <= MaxSaved
    BY <1>1, <1>3
  <1>6. ASSUME NEW k \in 1..Len(out), NEW l \in 1..Len(out), out[k] = out[l] PROVE k = l
    <2>1. \A m \in 1..Len(out) : /\ m = 1 => out[m] = s
                                 /\ m # 1 => m - 1 \in 1..n /\ out[m] = list[m - 1]
      BY <1>1, <1>2, <1>3
    <2>2. CASE k = 1 \/ l = 1
      BY <1>4, <1>6, <2>1, <2>2
    <2>3. CASE k # 1 /\ l # 1
      <3>1. k - 1 \in 1..n /\ l - 1 \in 1..n /\ list[k - 1] = list[l - 1]
        BY <1>6, <2>1, <2>3
      <3>2. k - 1 = l - 1
        BY <1>1, <3>1
      <3> QED BY <1>1, <1>3, <3>2
    <2> QED BY <2>2, <2>3
  <1> QED BY <1>3, <1>5, <1>6 DEF SongLists, out

\* Every copy, in the storage, in a tab or on its way, is such a list; while no
\* write crossed another or failed, a tab that has not the stored list is told it
\* by the one event it has not handled.
LibraryTypes ==
    /\ storage \in SongLists /\ restored \subseteq Tabs
    /\ writes \in 0..MaxWrites /\ overlapped \in BOOLEAN
    /\ library \in [Tabs -> SongLists]
    /\ storageEvents \in [Tabs -> Seq(SongLists)]

LibraryInv ==
    /\ LibraryTypes
    /\ \A t \in Tabs \ restored : storageEvents[t] = <<>>
    /\ ~overlapped =>
          \A t \in restored : \/ storageEvents[t] = <<>> /\ library[t] = storage
                              \/ storageEvents[t] = <<storage>>

LEMMA LibraryFirst == LibraryInit => LibraryInv
  <1> SUFFICES ASSUME LibraryInit PROVE LibraryInv
    OBVIOUS
  <1>1. <<>> \in SongLists
    <2>1. <<>> \in Seq(Songs) /\ Len(<<>>) = 0 /\ 1..0 = {}
      OBVIOUS
    <2> QED BY <2>1, LibraryAssumption DEF SongLists
  <1>2. <<>> \in Seq(SongLists)
    OBVIOUS
  <1>3. library \in [Tabs -> SongLists] /\ storageEvents \in [Tabs -> Seq(SongLists)]
    BY <1>1, <1>2 DEF LibraryInit
  <1>4. /\ storage = <<>> /\ restored = {} /\ writes = 0 /\ overlapped = FALSE
        /\ \A t \in Tabs : storageEvents[t] = <<>>
    BY DEF LibraryInit
  <1>5. 0 \in 0..MaxWrites
    BY LibraryAssumption
  <1> QED BY <1>1, <1>3, <1>4, <1>5 DEF LibraryInv, LibraryTypes

\* A write, of a list that may be written.
LEMMA PersistKeeps ==
    ASSUME LibraryInv, NEW t \in Tabs, NEW next \in SongLists, Persist(t, next)
    PROVE  LibraryInv'
  <1> DEFINE told == [u \in Tabs |-> IF u \in restored \ {t} /\ next # storage
                                     THEN Append(storageEvents[u], next) ELSE storageEvents[u]]
  <1>1. /\ writes' \in 0..MaxWrites /\ restored' = restored
        /\ library' = [library EXCEPT ![t] = next]
    BY LibraryAssumption DEF Persist, LibraryInv, LibraryTypes
  <1>2. \/ storage' = next /\ storageEvents' = told /\ Overlap
        \/ overlapped' = TRUE /\ UNCHANGED <<storage, storageEvents>>
    BY DEF Persist
  <1>3. /\ library' \in [Tabs -> SongLists]
        /\ \A u \in Tabs : library'[u] = IF u = t THEN next ELSE library[u]
    BY <1>1 DEF LibraryInv, LibraryTypes
  <1>4. CASE overlapped' = TRUE /\ UNCHANGED <<storage, storageEvents>>
    BY <1>1, <1>3, <1>4 DEF LibraryInv, LibraryTypes
  <1>5. CASE storage' = next /\ storageEvents' = told /\ Overlap
    <2>1. \A u \in Tabs : storageEvents'[u] = IF u \in restored \ {t} /\ next # storage
                                     THEN Append(storageEvents[u], next) ELSE storageEvents[u]
      BY <1>5
    <2>2. overlapped' \in BOOLEAN
      BY <1>5 DEF Overlap, LibraryInv, LibraryTypes
    <2>3. storageEvents' \in [Tabs -> Seq(SongLists)]
      <3>1. \A u \in Tabs : storageEvents[u] \in Seq(SongLists)
        BY DEF LibraryInv, LibraryTypes
      <3>2. \A u \in Tabs : Append(storageEvents[u], next) \in Seq(SongLists)
        BY <3>1, AppendProperties
      <3> QED BY <1>5, <3>1, <3>2
    <2>4. LibraryTypes'
      BY <1>1, <1>3, <1>5, <2>2, <2>3 DEF LibraryInv, LibraryTypes
    <2>5. \A u \in Tabs \ restored' : storageEvents'[u] = <<>>
      BY <1>1, <2>1 DEF LibraryInv
    <2>6. ASSUME ~overlapped', NEW u \in restored'
          PROVE  \/ storageEvents'[u] = <<>> /\ library'[u] = storage'
                 \/ storageEvents'[u] = <<storage'>>
      <3>1. /\ u \in Tabs /\ u \in restored /\ ~overlapped
            /\ storageEvents[u] = <<>>
        BY <1>1, <1>5, <2>6 DEF Overlap, LibraryInv, LibraryTypes
      <3>2. library[u] = storage
        <4>1. <<>> # <<storage>>
          OBVIOUS
        <4> QED BY <3>1, <4>1 DEF LibraryInv
      <3>3. CASE u = t
        BY <1>3, <1>5, <2>1, <3>1, <3>3
      <3>4. CASE u # t /\ next = storage
        BY <1>3, <1>5, <2>1, <3>1, <3>2, <3>4
      <3>5. CASE u # t /\ next # storage
        <4>1. Append(<<>>, next) = <<next>>
          OBVIOUS
        <4> QED BY <1>5, <2>1, <3>1, <3>5, <4>1
      <3> QED BY <3>3, <3>4, <3>5
    <2> QED BY <2>4, <2>5, <2>6 DEF LibraryInv
  <1> QED BY <1>2, <1>4, <1>5

LEMMA LibraryStep == LibraryInv /\ [LibraryNext]_libraryVars => LibraryInv'
  <1> SUFFICES ASSUME LibraryInv, [LibraryNext]_libraryVars PROVE LibraryInv'
    OBVIOUS
  <1>1. ASSUME NEW t \in Tabs, Restores(t) PROVE LibraryInv'
    <2>1. /\ restored' = restored \cup {t} /\ t \notin restored
          /\ UNCHANGED <<storage, storageEvents, writes, overlapped>>
      BY <1>1 DEF Restores
    <2>2. library' = [library EXCEPT ![t] = storage]
      BY <1>1, RestoredAsSaved DEF Restores, LibraryInv, LibraryTypes
    <2>3. /\ library' \in [Tabs -> SongLists]
          /\ \A u \in Tabs : library'[u] = IF u = t THEN storage ELSE library[u]
      BY <2>2 DEF LibraryInv, LibraryTypes
    <2>4. LibraryTypes'
      BY <2>1, <2>3 DEF LibraryInv, LibraryTypes
    <2>5. storageEvents[t] = <<>>
      BY <2>1 DEF LibraryInv
    <2> QED BY <2>1, <2>3, <2>4, <2>5 DEF LibraryInv, LibraryTypes
  <1>2. ASSUME NEW t \in Tabs, HandleStorageEvent(t) PROVE LibraryInv'
    <2> DEFINE q == storageEvents[t]
    <2>1. /\ q # <<>> /\ library' = [library EXCEPT ![t] = Restore(Head(q))]
          /\ storageEvents' = [storageEvents EXCEPT ![t] = Tail(q)]
          /\ UNCHANGED <<storage, restored, writes, overlapped>>
      BY <1>2 DEF HandleStorageEvent
    <2>2. q \in Seq(SongLists)
      BY DEF LibraryInv, LibraryTypes
    <2>3. Head(q) \in SongLists /\ Tail(q) \in Seq(SongLists)
      <3> HIDE DEF q
      <3> QED BY <2>1, <2>2, HeadTailProperties
    <2>4. Restore(Head(q)) = Head(q)
      BY <2>3, RestoredAsSaved
    <2>5. /\ library' \in [Tabs -> SongLists]
          /\ \A u \in Tabs : library'[u] = IF u = t THEN Head(q) ELSE library[u]
      BY <2>1, <2>3, <2>4 DEF LibraryInv, LibraryTypes
    <2>6. /\ storageEvents' \in [Tabs -> Seq(SongLists)]
          /\ \A u \in Tabs : storageEvents'[u] = IF u = t THEN Tail(q) ELSE storageEvents[u]
      BY <2>1, <2>3 DEF LibraryInv, LibraryTypes
    <2>7. LibraryTypes'
      BY <2>1, <2>5, <2>6 DEF LibraryInv, LibraryTypes
    <2>8. t \in restored
      BY <2>1 DEF LibraryInv
    <2>9. \A u \in Tabs \ restored' : storageEvents'[u] = <<>>
      BY <2>1, <2>6, <2>8 DEF LibraryInv
    <2>10. ASSUME ~overlapped', NEW u \in restored'
           PROVE  \/ storageEvents'[u] = <<>> /\ library'[u] = storage'
                  \/ storageEvents'[u] = <<storage'>>
      <3>1. u \in Tabs /\ u \in restored /\ ~overlapped
        BY <2>1, <2>10 DEF LibraryInv, LibraryTypes
      <3>2. CASE u = t
        <4>1. q = <<storage>>
          BY <2>1, <3>1, <3>2 DEF LibraryInv
        <4>2. Head(<<storage>>) = storage /\ Tail(<<storage>>) = <<>>
          OBVIOUS
        <4> QED BY <2>1, <2>5, <2>6, <3>1, <3>2, <4>1, <4>2
      <3>3. CASE u # t
        BY <2>1, <2>5, <2>6, <3>1, <3>3 DEF LibraryInv
      <3> QED BY <3>2, <3>3
    <2> QED BY <2>7, <2>9, <2>10 DEF LibraryInv
  <1>3. ASSUME NEW t \in Tabs, NEW s \in Songs, SaveFavorite(t, s) PROVE LibraryInv'
    <2>1. library[t] \in SongLists
      BY DEF LibraryInv, LibraryTypes
    <2>2. <<s>> \o AllBut(library[t], s) \in SongLists
      <3>1. AllBut(library[t], s) \in SongLists /\ Len(AllBut(library[t], s)) < MaxSaved
            /\ \A k \in 1..Len(AllBut(library[t], s)) : AllBut(library[t], s)[k] # s
        BY <1>3, <2>1, LeftOut DEF SaveFavorite
      <3> QED BY <3>1, PutFirst
    <2> QED BY <1>3, <2>2, PersistKeeps DEF SaveFavorite
  <1>4. ASSUME NEW t \in Tabs, NEW s \in Songs, RemoveFavorite(t, s) PROVE LibraryInv'
    <2>1. AllBut(library[t], s) \in SongLists
      BY LeftOut DEF LibraryInv, LibraryTypes
    <2> QED BY <1>4, <2>1, PersistKeeps DEF RemoveFavorite
  <1>5. ASSUME UNCHANGED libraryVars PROVE LibraryInv'
    BY <1>5 DEF libraryVars, LibraryInv, LibraryTypes
  <1> QED BY <1>1, <1>2, <1>3, <1>4, <1>5 DEF LibraryNext

LEMMA LibraryInvSound == LibraryInv => LibrarySound
  <1> SUFFICES ASSUME LibraryInv PROVE LibrarySound
    OBVIOUS
  <1>1. \A t \in Tabs : library[t] \in Seq(Songs)
    BY DEF LibraryInv, LibraryTypes, SongLists
  <1>2. ASSUME NEW t \in Tabs, NEW i \in DOMAIN storageEvents[t]
        PROVE  storageEvents[t][i] \in Seq(Songs)
    <2>1. storageEvents[t] \in Seq(SongLists)
      BY DEF LibraryInv, LibraryTypes
    <2>2. i \in 1..Len(storageEvents[t])
      BY <2>1, LenProperties
    <2> QED BY <2>1, <2>2, ElementOfSeq DEF SongLists
  <1>3. LibraryTypeOK
    <2>1. library \in [Tabs -> Seq(Songs)]
      BY <1>1 DEF LibraryInv, LibraryTypes
    <2> QED BY <1>2, <2>1 DEF LibraryInv, LibraryTypes, SongLists, LibraryTypeOK
  <1>4. RestoreKeepsAll
    BY RestoredAsSaved DEF LibraryInv, LibraryTypes, RestoreKeepsAll
  <1>5. TabsAgree
    <2>1. <<>> # <<storage>>
      OBVIOUS
    <2> QED BY <2>1 DEF LibraryInv, TabsAgree
  <1> QED BY <1>3, <1>4, <1>5 DEF LibrarySound

\* The player and the collection, for any slots, tabs and songs.
THEOREM OverlayIsSound == OverlaySpec => []OverlaySound
  BY OverlayFirst, OverlayStep, OverlayInvSound, PTL DEF OverlaySpec

\* What a tab wrote is read as it was, and tabs whose writes neither crossed nor
\* failed agree.
THEOREM LibraryIsSound == LibrarySpec => []LibrarySound
  BY LibraryFirst, LibraryStep, LibraryInvSound, PTL DEF LibrarySpec

-----------------------------------------------------------------------------
(* The dates of our space.                                                 *)

\* The sums of a sequence of terms exist, so a function that is defined by what
\* every month adds is one.
LEMMA Sums ==
    ASSUME NEW d \in [Nat -> Int]
    PROVE  \E G \in [Nat -> Int] : G[0] = 0 /\ \A m \in Nat \ {0} : G[m] = G[m - 1] + d[m - 1]
  <1> DEFINE Upto(k) == {g \in [0..k -> Int] :
                            g[0] = 0 /\ \A m \in 1..k : g[m] = g[m - 1] + d[m - 1]}
             Failing == {k \in Nat : Upto(k) = {}}
  <1>1. Upto(0) # {}
    <2> DEFINE g == [i \in 0..0 |-> 0]
    <2>1. g \in Upto(0)
      OBVIOUS
    <2> QED BY <2>1
  <1>2. ASSUME NEW k \in Nat \ {0}, Upto(k - 1) # {} PROVE Upto(k) # {}
    <2>1. PICK g \in [0..k - 1 -> Int] :
             g[0] = 0 /\ \A m \in 1..k - 1 : g[m] = g[m - 1] + d[m - 1]
      BY <1>2
    <2> DEFINE h == [i \in 0..k |-> IF i = k THEN g[k - 1] + d[k - 1] ELSE g[i]]
    <2>2. g[k - 1] \in Int /\ d[k - 1] \in Int
      OBVIOUS
    <2>3. h \in [0..k -> Int] /\ h[0] = 0
      BY <2>1, <2>2
    <2>4. ASSUME NEW m \in 1..k PROVE h[m] = h[m - 1] + d[m - 1]
      <3>1. CASE m = k
        <4>1. k \in 0..k /\ k - 1 \in 0..k /\ k - 1 # k
          OBVIOUS
        <4> QED BY <3>1, <4>1
      <3>2. CASE m # k
        <4>1. m \in 1..k - 1 /\ m \in 0..k /\ m - 1 \in 0..k /\ m - 1 # k
          BY <3>2
        <4> QED BY <2>1, <3>2, <4>1
      <3> QED BY <3>1, <3>2
    <2> QED BY <2>3, <2>4
  <1>3. ASSUME NEW k \in Nat PROVE Upto(k) # {}
    <2>1. SUFFICES ASSUME Failing # {} PROVE FALSE
      OBVIOUS
    <2>2. PICK f \in Failing : \A m \in Failing : f <= m
      <3>1. Failing \in SUBSET Nat
        OBVIOUS
      <3> HIDE DEF Failing
      <3> QED BY <2>1, <3>1, Least
    <2>3. \A m : m \in Failing <=> m \in Nat /\ Upto(m) = {}
      OBVIOUS
    <2> HIDE DEF Upto, Failing
    <2>4. f \in Nat /\ Upto(f) = {} /\ f # 0
      BY <1>1, <2>2, <2>3
    <2>5. f \in Nat \ {0} /\ f - 1 \in Nat /\ ~(f <= f - 1)
      BY <2>4
    <2>6. Upto(f - 1) # {}
      BY <2>2, <2>3, <2>5
    <2> QED BY <1>2, <2>4, <2>5, <2>6
  <1>4. ASSUME NEW k \in Nat, NEW l \in Nat, NEW g \in Upto(k), NEW h \in Upto(l),
               NEW m \in Nat, m <= k, m <= l
        PROVE  g[m] = h[m]
    <2> DEFINE Differ == {i \in Nat : i <= k /\ i <= l /\ g[i] # h[i]}
    <2>1. SUFFICES ASSUME Differ # {} PROVE FALSE
      BY <1>4
    <2>2. PICK i \in Differ : \A j \in Differ : i <= j
      <3>1. Differ \in SUBSET Nat
        OBVIOUS
      <3> HIDE DEF Differ
      <3> QED BY <2>1, <3>1, Least
    <2>3. g[0] = 0 /\ h[0] = 0
      OBVIOUS
    <2>4. i \in 1..k /\ i \in 1..l /\ i - 1 \in Nat /\ ~(i <= i - 1)
      BY <2>2, <2>3
    <2>5. g[i - 1] = h[i - 1]
      BY <2>2, <2>4
    <2>6. g[i] = g[i - 1] + d[i - 1] /\ h[i] = h[i - 1] + d[i - 1]
      BY <2>4
    <2> QED BY <2>2, <2>5, <2>6
  <1> DEFINE pick(k) == CHOOSE g \in Upto(k) : TRUE
             G == [m \in Nat |-> pick(m)[m]]
  <1>5. \A k \in Nat : pick(k) \in Upto(k)
    BY <1>3
  <1>6. \A k \in Nat : \A g \in Upto(k) :
           /\ \A i \in 0..k : g[i] \in Int
           /\ g[0] = 0 /\ \A m \in 1..k : g[m] = g[m - 1] + d[m - 1]
    OBVIOUS
  <1> HIDE DEF Upto, pick
  <1>7. G \in [Nat -> Int]
    <2>1. ASSUME NEW m \in Nat PROVE pick(m)[m] \in Int
      BY <1>5, <1>6
    <2> QED BY <2>1
  <1>8. G[0] = 0
    BY <1>5, <1>6
  <1>9. ASSUME NEW m \in Nat \ {0} PROVE G[m] = G[m - 1] + d[m - 1]
    <2>1. m \in 1..m /\ m - 1 \in Nat /\ m - 1 <= m - 1 /\ m - 1 <= m
      OBVIOUS
    <2>2. pick(m)[m] = pick(m)[m - 1] + d[m - 1]
      BY <1>5, <1>6, <2>1
    <2>3. pick(m)[m - 1] = pick(m - 1)[m - 1]
      BY <1>4, <1>5, <2>1
    <2>4. G[m] = pick(m)[m] /\ G[m - 1] = pick(m - 1)[m - 1]
      BY <2>1
    <2> QED BY <2>2, <2>3, <2>4
  <1> HIDE DEF G
  <1> QED BY <1>7, <1>8, <1>9

LEMMA MonthsAre == \A m \in Nat : MonthDays(m) \in 28..31
  BY DEF MonthDays

\* A month adds its days to those before it, and later months have more before them.
LEMMA DaysAddUp ==
    /\ DaysBefore[0] = 0
    /\ \A m \in Nat : DaysBefore[m] \in Int /\ DaysBefore[m + 1] = DaysBefore[m] + MonthDays(m)
  <1> DEFINE Days(f) == f = [m \in Nat |-> IF m = 0 THEN 0 ELSE f[m - 1] + MonthDays(m - 1)]
             d == [m \in Nat |-> MonthDays(m)]
  <1>1. d \in [Nat -> Int]
    BY MonthsAre
  <1>2. PICK G \in [Nat -> Int] : G[0] = 0 /\ \A m \in Nat \ {0} : G[m] = G[m - 1] + d[m - 1]
    <2> HIDE DEF d
    <2> QED BY <1>1, Sums
  <1>3. Days(G)
    <2> DEFINE H == [m \in Nat |-> IF m = 0 THEN 0 ELSE G[m - 1] + MonthDays(m - 1)]
    <2>1. ASSUME NEW m \in Nat PROVE G[m] = H[m]
      <3>1. m # 0 => m - 1 \in Nat /\ d[m - 1] = MonthDays(m - 1)
        OBVIOUS
      <3> QED BY <1>2, <3>1
    <2>2. DOMAIN G = Nat /\ DOMAIN H = Nat /\ G = [m \in Nat |-> G[m]]
      OBVIOUS
    <2> HIDE DEF H
    <2>3. G = H
      <3>1. H = [m \in Nat |-> H[m]]
        BY DEF H
      <3> QED BY <2>1, <2>2, <3>1
    <2> QED BY <2>3 DEF H
  <1>4. DaysBefore = CHOOSE f : Days(f)
    BY DEF DaysBefore
  <1>5. Days(DaysBefore)
    <2> HIDE DEF Days
    <2> QED BY <1>3, <1>4
  <1>6. /\ DaysBefore[0] = 0
        /\ \A m \in Nat \ {0} : DaysBefore[m] = DaysBefore[m - 1] + MonthDays(m - 1)
    BY <1>5
  <1> HIDE DEF Days
  <1>7. \A m \in Nat : DaysBefore[m + 1] = DaysBefore[m] + MonthDays(m)
    <2>1. ASSUME NEW m \in Nat PROVE DaysBefore[m + 1] = DaysBefore[m] + MonthDays(m)
      <3>1. m + 1 \in Nat \ {0} /\ (m + 1) - 1 = m
        OBVIOUS
      <3> QED BY <1>6, <3>1
    <2> QED BY <2>1
  <1> DEFINE Failing == {m \in Nat : DaysBefore[m] \notin Int}
  <1>8. Failing = {}
    <2>1. SUFFICES ASSUME Failing # {} PROVE FALSE
      OBVIOUS
    <2>2. PICK f \in Failing : \A m \in Failing : f <= m
      <3>1. Failing \in SUBSET Nat
        OBVIOUS
      <3> HIDE DEF Failing
      <3> QED BY <2>1, <3>1, Least
    <2>3. f \in Nat \ {0} /\ f - 1 \in Nat /\ ~(f <= f - 1)
      BY <1>6, <2>2
    <2>4. DaysBefore[f - 1] \in Int /\ MonthDays(f - 1) \in Int
      BY <2>2, <2>3, MonthsAre
    <2>5. DaysBefore[f] = DaysBefore[f - 1] + MonthDays(f - 1)
      BY <1>6, <2>3
    <2>6. DaysBefore[f] \in Int
      BY <2>4, <2>5
    <2> QED BY <2>2, <2>6
  <1> QED BY <1>6, <1>7, <1>8

LEMMA LaterMonths == \A m, n \in Nat : m <= n => DaysBefore[m] <= DaysBefore[n]
  <1> SUFFICES ASSUME NEW m \in Nat PROVE \A n \in Nat : m <= n => DaysBefore[m] <= DaysBefore[n]
    OBVIOUS
  <1> DEFINE Failing == {n \in Nat : m <= n /\ ~(DaysBefore[m] <= DaysBefore[n])}
  <1>1. SUFFICES ASSUME Failing # {} PROVE FALSE
    OBVIOUS
  <1>2. PICK f \in Failing : \A n \in Failing : f <= n
    <2>1. Failing \in SUBSET Nat
      OBVIOUS
    <2> HIDE DEF Failing
    <2> QED BY <1>1, <2>1, Least
  <1>3. f # m
    BY <1>2, DaysAddUp
  <1>4. f - 1 \in Nat /\ m <= f - 1 /\ (f - 1) + 1 = f /\ ~(f <= f - 1)
    BY <1>2, <1>3
  <1>5. DaysBefore[m] <= DaysBefore[f - 1]
    BY <1>2, <1>4
  <1>6. DaysBefore[f] = DaysBefore[f - 1] + MonthDays(f - 1) /\ MonthDays(f - 1) \in 28..31
    BY <1>4, DaysAddUp, MonthsAre
  <1>7. DaysBefore[m] \in Int /\ DaysBefore[f - 1] \in Int
    BY <1>4, DaysAddUp
  <1> QED BY <1>2, <1>5, <1>6, <1>7

\* The days there are.
RealDates == {x \in Nat \X Nat : Day(x) >= 1 /\ Day(x) <= MonthDays(Month(x))}

LEMMA DateIs ==
    \A x \in RealDates : /\ x = <<Month(x), Day(x)>> /\ Month(x) \in Nat /\ Day(x) \in 1..31
                         /\ Day(x) <= MonthDays(Month(x))
                         /\ DayNumber(x) = DaysBefore[Month(x)] + Day(x)
  BY MonthsAre DEF RealDates, Month, Day, DayNumber

\* A day that is not before another has no fewer days before it, and as many
\* only if it is that day.
LEMMA DaysInOrder ==
    ASSUME NEW x \in RealDates, NEW y \in RealDates, ~Before(x, y)
    PROVE  DayNumber(y) <= DayNumber(x) /\ (DayNumber(x) = DayNumber(y) <=> x = y)
  <1> DEFINE m == Month(x)
             n == Month(y)
             a == Day(x)
             b == Day(y)
             p == DaysBefore[m]
             q == DaysBefore[n]
  <1>1. /\ x = <<m, a>> /\ m \in Nat /\ a \in 1..31 /\ DayNumber(x) = p + a
        /\ y = <<n, b>> /\ n \in Nat /\ b \in 1..31 /\ DayNumber(y) = q + b /\ b <= MonthDays(n)
    BY DateIs
  <1>2. n < m \/ (n = m /\ b <= a)
    BY <1>1 DEF Before
  <1>3. p \in Int /\ q \in Int /\ MonthDays(n) \in 28..31
    BY <1>1, DaysAddUp, MonthsAre
  <1>4. n < m => q + MonthDays(n) <= p
    <2>1. n < m => n + 1 \in Nat /\ n + 1 <= m
      BY <1>1
    <2> QED BY <1>1, <2>1, DaysAddUp, LaterMonths
  <1> HIDE DEF m, n, a, b, p, q
  <1>5. CASE n < m
    <2>1. q + b < p + a
      BY <1>1, <1>3, <1>4, <1>5
    <2>2. x # y
      BY <1>1, <1>5
    <2> QED BY <1>1, <1>3, <2>1, <2>2
  <1>6. CASE n = m /\ b <= a
    <2>1. p = q
      BY <1>6 DEF p, q
    <2>2. p + a = q + b <=> a = b
      BY <1>1, <1>3, <2>1
    <2>3. x = y <=> a = b
      BY <1>1, <1>6
    <2>4. q + b <= p + a
      BY <1>1, <1>3, <1>6, <2>1
    <2> QED BY <1>1, <2>2, <2>3, <2>4
  <1> QED BY <1>2, <1>5, <1>6

\* An anniversary is a day there is, in its month.
LEMMA AnniversaryIs ==
    ASSUME NEW start \in RealDates, NEW n \in Nat
    PROVE  /\ AnniversaryAt(start, n) \in RealDates
           /\ Month(AnniversaryAt(start, n)) = Month(start) + n
           /\ Day(AnniversaryAt(start, n)) =
                 Smaller(Day(start), MonthDays(Month(start) + n))
  <1> DEFINE m == Month(start) + n
             a == Smaller(Day(start), MonthDays(m))
  <1>1. Month(start) \in Nat /\ Day(start) \in 1..31
    BY DateIs
  <1>2. m \in Nat
    BY <1>1
  <1>3. MonthDays(m) \in 28..31
    BY <1>2, MonthsAre
  <1>4. AnniversaryAt(start, n) = <<m, a>>
    BY DEF AnniversaryAt
  <1>5. a \in Nat /\ a >= 1 /\ a <= MonthDays(m)
    <2> HIDE DEF m
    <2> QED BY <1>1, <1>3 DEF Smaller
  <1> HIDE DEF m, a
  <1>6. <<m, a>> \in Nat \X Nat /\ Month(<<m, a>>) = m /\ Day(<<m, a>>) = a
    BY <1>2, <1>5 DEF Month, Day
  <1> QED BY <1>4, <1>5, <1>6 DEF RealDates, m, a

\* What the window computes of a day is true of it.
LEMMA DatesAreTrue ==
    ASSUME NEW day \in RealDates, NEW start \in RealDates,
           NEW shown, shown = GetRelationshipDates(day, start)
    PROVE  /\ IsNextAnniversary(shown.anniversaryMonths, day, start)
           /\ shown.daysUntil >= 0
           /\ shown.daysUntil = 0 <=> day = AnniversaryAt(start, shown.anniversaryMonths)
           /\ ~Before(day, start) =>
                 shown.daysUntil <= 31 + IF shown.anniversaryMonths = 1 THEN 31 ELSE 0
  <1> DEFINE s == Month(start)
             m == Month(day)
             months == Larger(1, m - s)
             n == AnniversaryMonths(day, start)
             next == AnniversaryAt(start, n)
  <1>1. /\ shown.anniversaryMonths = n
        /\ shown.daysUntil = DayNumber(next) - DayNumber(day)
    BY DEF GetRelationshipDates
  <1>2. s \in Nat /\ m \in Nat /\ Day(start) \in 1..31 /\ Day(day) \in 1..31
        /\ Day(day) <= MonthDays(m) /\ Day(start) <= MonthDays(s)
    BY DateIs
  <1>3. n = IF Before(AnniversaryAt(start, months), day) THEN months + 1 ELSE months
    BY DEF AnniversaryMonths
  <1> HIDE DEF s, m, n
  <1>4. /\ months \in Nat \ {0} /\ (months = m - s \/ (months = 1 /\ m - s < 1))
        /\ n \in {months, months + 1} /\ n \in Nat \ {0}
    BY <1>2, <1>3 DEF Larger
  <1> HIDE DEF months
  <1>5. \A k \in Nat : /\ AnniversaryAt(start, k) \in RealDates
                       /\ Month(AnniversaryAt(start, k)) = s + k
                       /\ Day(AnniversaryAt(start, k)) = Smaller(Day(start), MonthDays(s + k))
    BY AnniversaryIs DEF s
  <1>6. \A k \in Nat : Before(AnniversaryAt(start, k), day) <=>
                          \/ s + k < m
                          \/ s + k = m /\ Smaller(Day(start), MonthDays(m)) < Day(day)
    <2>1. ASSUME NEW k \in Nat
          PROVE  Before(AnniversaryAt(start, k), day) <=>
                          \/ s + k < m
                          \/ s + k = m /\ Smaller(Day(start), MonthDays(m)) < Day(day)
      <3>1. Month(day) = m
        BY DEF m
      <3> QED BY <1>5, <3>1 DEF Before
    <2> QED BY <2>1
  <1>7. ~Before(next, day)
    <2>1. CASE ~Before(AnniversaryAt(start, months), day)
      BY <1>3, <2>1
    <2>2. CASE Before(AnniversaryAt(start, months), day)
      <3>1. n = months + 1
        BY <1>3, <2>2
      <3>2. m < s + n
        BY <1>2, <1>4, <3>1
      <3>3. ~(s + n < m) /\ s + n # m
        BY <1>2, <1>4, <3>2
      <3> QED BY <1>4, <1>6, <3>3
    <2> QED BY <2>1, <2>2
  <1>8. ASSUME NEW k \in 1..n - 1 PROVE Before(AnniversaryAt(start, k), day)
    <2>1. k \in Nat /\ k >= 1 /\ k < n
      BY <1>4
    <2>2. CASE n = months
      <3>1. s + k < m
        BY <1>2, <1>4, <2>1, <2>2
      <3> QED BY <1>6, <2>1, <3>1
    <2>3. CASE n = months + 1
      <3>1. Before(AnniversaryAt(start, months), day)
        BY <1>3, <1>4, <2>3
      <3>2. CASE k = months
        BY <3>1, <3>2
      <3>3. CASE k # months
        <4>1. s + k < m
          BY <1>2, <1>4, <2>1, <2>3, <3>3
        <4> QED BY <1>6, <2>1, <4>1
      <3> QED BY <3>2, <3>3
    <2> QED BY <1>4, <2>2, <2>3
  <1>9. IsNextAnniversary(n, day, start)
    BY <1>4, <1>7, <1>8 DEF IsNextAnniversary
  <1>10. next \in RealDates /\ DayNumber(next) \in Int /\ DayNumber(day) \in Int
         /\ DayNumber(start) \in Int
    <2>1. \A x \in RealDates : DayNumber(x) \in Int
      <3>1. ASSUME NEW x \in RealDates PROVE DayNumber(x) \in Int
        <4>1. Month(x) \in Nat /\ Day(x) \in Int /\ DayNumber(x) = DaysBefore[Month(x)] + Day(x)
          BY DateIs
        <4>2. DaysBefore[Month(x)] \in Int
          BY <4>1, DaysAddUp
        <4> QED BY <4>1, <4>2
      <3> QED BY <3>1
    <2> QED BY <1>4, <1>5, <2>1
  <1>11. DayNumber(day) <= DayNumber(next) /\ (DayNumber(next) = DayNumber(day) <=> next = day)
    BY <1>7, <1>10, DaysInOrder
  <1>12. shown.daysUntil >= 0 /\ (shown.daysUntil = 0 <=> day = next)
    <2> HIDE DEF next
    <2> QED BY <1>1, <1>10, <1>11
  <1>13. ASSUME ~Before(day, start)
         PROVE  shown.daysUntil <= 31 + IF n = 1 THEN 31 ELSE 0
    <2> DEFINE a == Day(next)
               b == Day(day)
               p == DaysBefore[m]
    <2>3. s <= m
      BY <1>2, <1>13 DEF Before, s, m
    <2>4. /\ a = Smaller(Day(start), MonthDays(s + n)) /\ a \in 1..31
          /\ DayNumber(next) = DaysBefore[s + n] + a /\ next \in RealDates
      <3>1. a = Smaller(Day(start), MonthDays(s + n)) /\ Month(next) = s + n /\ next \in RealDates
        BY <1>4, <1>5
      <3> QED BY <3>1, DateIs
    <2>5. DayNumber(day) = p + b /\ b \in 1..31 /\ b <= MonthDays(m) /\ p \in Int
          /\ MonthDays(m) \in 28..31
      BY <1>2, DateIs, DaysAddUp, MonthsAre DEF m
    <2>6. DaysBefore[m + 1] = p + MonthDays(m)
      BY <1>2, DaysAddUp
    <2> HIDE DEF next, a, b, p
    <2>7. CASE s + n = m
      <3>1. DayNumber(next) = p + a
        BY <2>4, <2>7 DEF p
      <3>2. shown.daysUntil <= 31
        BY <1>1, <2>4, <2>5, <3>1
      <3> QED BY <1>1, <2>4, <2>5, <3>1, <3>2
    <2>8. CASE s + n = m + 1
      <3>1. DayNumber(next) = p + MonthDays(m) + a
        BY <2>4, <2>6, <2>8
      <3>2. CASE n = 1
        <4>1. shown.daysUntil = MonthDays(m) + a - b
          BY <1>1, <2>4, <2>5, <3>1
        <4>2. shown.daysUntil <= 62
          BY <2>4, <2>5, <4>1
        <4> QED BY <3>2, <4>2
      <3>3. CASE n # 1
        <4>1. n = months + 1 /\ s + months = m
          BY <1>2, <1>4, <2>8, <3>3
        <4>2. Before(AnniversaryAt(start, months), day)
          BY <1>3, <1>4, <4>1
        <4>3. Smaller(Day(start), MonthDays(m)) < b
          <5>1. ~(s + months < m)
            BY <1>2, <1>4, <4>1
          <5> QED BY <1>4, <1>6, <4>2, <5>1 DEF b
        <4>4. Day(start) < b
          BY <1>2, <2>5, <4>3 DEF Smaller
        <4>5. a <= Day(start)
          <5>1. s + n \in Nat
            BY <1>2, <1>4
          <5>2. MonthDays(s + n) \in 28..31
            BY <5>1, MonthsAre
          <5> QED BY <1>2, <2>4, <5>2 DEF Smaller
        <4>6. shown.daysUntil = MonthDays(m) + a - b
          BY <1>1, <2>4, <2>5, <3>1
        <4>7. shown.daysUntil <= 31
          BY <1>2, <2>4, <2>5, <4>4, <4>5, <4>6
        <4>8. 31 + (IF n = 1 THEN 31 ELSE 0) = 31
          BY <3>3
        <4> QED BY <4>7, <4>8
      <3> QED BY <3>2, <3>3
    <2>9. s + n = m \/ s + n = m + 1
      <3>1. ~(s + n < m)
        BY <1>4, <1>6, <1>7 DEF next
      <3>2. CASE n = months
        BY <1>2, <1>4, <2>3, <3>1, <3>2
      <3>3. CASE n = months + 1
        <4>1. Before(AnniversaryAt(start, months), day) /\ months \in Nat
          BY <1>3, <1>4, <3>3
        <4>2. s + months <= m
          BY <1>2, <1>6, <4>1
        <4> QED BY <1>2, <1>4, <3>1, <3>3, <4>2
      <3> QED BY <1>4, <3>2, <3>3
    <2> QED BY <2>7, <2>8, <2>9
  <1> QED BY <1>1, <1>9, <1>12, <1>13

\* The day after a day is a day.
LEMMA DayAfter == ASSUME NEW x \in RealDates PROVE NextDay(x) \in RealDates
  <1>1. Month(x) \in Nat /\ Day(x) \in 1..31 /\ Month(x) + 1 \in Nat
    BY DateIs
  <1>2. MonthDays(Month(x) + 1) \in 28..31 /\ MonthDays(Month(x)) \in 28..31
    BY <1>1, MonthsAre
  <1>3. ASSUME NEW m \in Nat, NEW a \in Nat, a >= 1, a <= MonthDays(m)
        PROVE  <<m, a>> \in RealDates
    <2>1. Month(<<m, a>>) = m /\ Day(<<m, a>>) = a /\ <<m, a>> \in Nat \X Nat
      BY DEF Month, Day
    <2> QED BY <1>3, <2>1 DEF RealDates
  <1>4. CASE Day(x) < MonthDays(Month(x))
    <2>1. Day(x) + 1 \in Nat /\ Day(x) + 1 >= 1 /\ Day(x) + 1 <= MonthDays(Month(x))
      BY <1>1, <1>2, <1>4
    <2> QED BY <1>1, <1>3, <1>4, <2>1 DEF NextDay
  <1>5. CASE ~(Day(x) < MonthDays(Month(x)))
    <2>1. 1 <= MonthDays(Month(x) + 1)
      BY <1>2
    <2> QED BY <1>1, <1>3, <1>5, <2>1 DEF NextDay
  <1> QED BY <1>4, <1>5

\* The number of the day after a day is the next.
LEMMA NextNumber ==
    ASSUME NEW x \in RealDates PROVE DayNumber(NextDay(x)) = DayNumber(x) + 1
  <1> DEFINE m == Month(x)
             p == DaysBefore[m]
  <1>1. /\ m \in Nat /\ m + 1 \in Nat /\ Day(x) \in 1..31 /\ Day(x) <= MonthDays(m)
        /\ DayNumber(x) = p + Day(x)
    BY DateIs
  <1>2. p \in Int /\ DaysBefore[m + 1] = p + MonthDays(m) /\ MonthDays(m) \in 28..31
    BY <1>1, DaysAddUp, MonthsAre
  <1>3. CASE Day(x) < MonthDays(m)
    <2>1. NextDay(x) = <<m, Day(x) + 1>>
      BY <1>3 DEF NextDay
    <2>2. DayNumber(<<m, Day(x) + 1>>) = p + (Day(x) + 1)
      BY DEF DayNumber, Month, Day
    <2> HIDE DEF p, m
    <2> QED BY <1>1, <1>2, <2>1, <2>2
  <1>4. CASE ~(Day(x) < MonthDays(m))
    <2>1. NextDay(x) = <<m + 1, 1>>
      BY <1>4 DEF NextDay
    <2>2. DayNumber(<<m + 1, 1>>) = DaysBefore[m + 1] + 1
      BY DEF DayNumber, Month, Day
    <2> HIDE DEF p, m
    <2> QED BY <1>1, <1>2, <1>4, <2>1, <2>2
  <1> QED BY <1>3, <1>4

\* Days are told apart by their numbers.
LEMMA NumbersTell ==
    ASSUME NEW x \in RealDates, NEW y \in RealDates
    PROVE  /\ DayNumber(x) \in Int /\ DayNumber(y) \in Int
           /\ x = y <=> DayNumber(x) = DayNumber(y)
  <1>1. ASSUME NEW z \in RealDates PROVE DayNumber(z) \in Int
    <2>1. Month(z) \in Nat /\ Day(z) \in Int /\ DayNumber(z) = DaysBefore[Month(z)] + Day(z)
      BY DateIs
    <2>2. DaysBefore[Month(z)] \in Int
      BY <2>1, DaysAddUp
    <2> QED BY <2>1, <2>2
  <1>2. ~Before(x, y) \/ ~Before(y, x)
    <2>1. Month(x) \in Nat /\ Month(y) \in Nat /\ Day(x) \in Int /\ Day(y) \in Int
      BY DateIs
    <2> QED BY <2>1 DEF Before
  <1> QED BY <1>1, <1>2, DaysInOrder

\* The days from a start to a day, both included.
Counted(day, start) == Larger(0, DayNumber(day) - DayNumber(start) + 1)

\* A day more, once the start has come.
LEMMA CountsOn ==
    ASSUME NEW x \in RealDates, NEW start \in RealDates, NextDay(x) \in RealDates
    PROVE  Counted(NextDay(x), start) =
              IF Counted(x, start) > 0 \/ NextDay(x) = start THEN Counted(x, start) + 1 ELSE 0
  <1> DEFINE a == DayNumber(x)
             b == DayNumber(start)
             c == DayNumber(NextDay(x))
  <1>1. a \in Int /\ b \in Int /\ c \in Int /\ (NextDay(x) = start <=> c = b)
    BY NumbersTell
  <1>2. c = a + 1
    BY NextNumber
  <1>3. Counted(x, start) = Larger(0, a - b + 1) /\ Counted(NextDay(x), start) = Larger(0, c - b + 1)
    BY DEF Counted
  <1> HIDE DEF a, b, c
  <1> QED BY <1>1, <1>2, <1>3 DEF Larger

DatesInv ==
    /\ startDate \in RealDates /\ today \in RealDates /\ computed \in RealDates
    /\ dates = GetRelationshipDates(computed, startDate)
    /\ together = Counted(today, startDate)

LEMMA DatesFirst == DatesInit => DatesInv
  <1> SUFFICES ASSUME DatesInit PROVE DatesInv
    OBVIOUS
  <1>1. today \in RealDates /\ computed = today
    <2>1. Month(<<0, 1>>) = 0 /\ Day(<<0, 1>>) = 1 /\ <<0, 1>> \in Nat \X Nat
      BY DEF Month, Day
    <2>2. MonthDays(0) \in 28..31
      BY MonthsAre
    <2> QED BY <2>1, <2>2 DEF DatesInit, RealDates
  <1>2. startDate \in RealDates
    <2>1. startDate \in StartMonths \X StartDays /\ Day(startDate) <= MonthDays(Month(startDate))
      BY DEF DatesInit
    <2>2. startDate \in Nat \X Nat /\ Day(startDate) >= 1
      <3>1. StartMonths \subseteq Nat /\ \A a \in StartDays : a \in Nat /\ a >= 1
        BY DatesAssumption
      <3>2. startDate \in Nat \X Nat /\ startDate[2] \in StartDays
        BY <2>1, <3>1
      <3> QED BY <3>1, <3>2 DEF Day
    <2> QED BY <2>1, <2>2 DEF RealDates
  <1>3. together = Counted(today, startDate)
    <2>1. together = IF today = startDate THEN 1 ELSE 0
      BY DEF DatesInit
    <2>2. /\ DayNumber(today) \in Int /\ DayNumber(startDate) \in Int
          /\ today = startDate <=> DayNumber(today) = DayNumber(startDate)
      BY <1>1, <1>2, NumbersTell
    <2>3. DayNumber(today) <= DayNumber(startDate)
      <3>1. today = <<0, 1>> /\ Month(startDate) \in Nat /\ Day(startDate) \in 1..31
        BY <1>2, DateIs DEF DatesInit
      <3>2. Month(<<0, 1>>) = 0 /\ Day(<<0, 1>>) = 1
        BY DEF Month, Day
      <3>3. ~Before(startDate, today)
        BY <3>1, <3>2 DEF Before
      <3> QED BY <1>1, <1>2, <3>3, DaysInOrder
    <2> QED BY <2>1, <2>2, <2>3 DEF Counted, Larger
  <1> QED BY <1>1, <1>2, <1>3 DEF DatesInit, DatesInv

LEMMA DatesStep == DatesInv /\ [DatesNext]_datesVars => DatesInv'
  <1> SUFFICES ASSUME DatesInv, [DatesNext]_datesVars PROVE DatesInv'
    OBVIOUS
  <1>1. CASE Midnight
    <2>1. NextDay(today) \in RealDates
      BY DayAfter DEF DatesInv
    <2>2. together' = Counted(NextDay(today), startDate)
      BY <1>1, <2>1, CountsOn DEF DatesInv, Midnight
    <2> QED BY <1>1, <2>1, <2>2 DEF DatesInv, Midnight, Counted
  <1>2. CASE RefreshDates
    BY <1>2 DEF DatesInv, RefreshDates, Counted
  <1>3. CASE UNCHANGED datesVars
    BY <1>3 DEF DatesInv, datesVars, Counted
  <1> QED BY <1>1, <1>2, <1>3 DEF DatesNext

LEMMA DatesInvSound == DatesInv => DatesTrue
  <1> SUFFICES ASSUME DatesInv PROVE DatesTrue
    OBVIOUS
  <1> USE DEF DatesInv
  <1>1. startDate \in RealDates /\ computed \in RealDates
        /\ dates = GetRelationshipDates(computed, startDate)
        /\ together = Counted(today, startDate)
    OBVIOUS
  <1> HIDE DEF DatesInv
  <1>2. computed = today => dates.daysTogether = together
    BY <1>1 DEF GetRelationshipDates, Counted
  <1> QED BY <1>1, <1>2, DatesAreTrue DEF DatesTrue

\* The dates the window shows were right on the day it computed them, for any
\* start and however long the page slept.
THEOREM DatesAreSound == DatesSpec => []DatesTrue
  BY DatesFirst, DatesStep, DatesInvSound, PTL DEF DatesSpec

-----------------------------------------------------------------------------
(* The pages: what holds of a part holds of the whole.                     *)

\* A step of the whole is a step of the part it exercises, and none of another.
LEMMA PartsMove ==
    [Next]_vars =>
       /\ [DesktopNext]_desktopVars
       /\ [StageNext]_stageVars
       /\ [SponsorNext]_sponsorVars
       /\ [VisitorNext]_visitorVars
       /\ [BrowserNext]_browserVars
       /\ [ActivityNext]_activityVars
       /\ [WishNext]_wishVars
       /\ [OverlayNext]_overlayVars
       /\ [LibraryNext]_libraryVars
       /\ [DatesNext]_datesVars
  <1> USE DEF Only
  <1>1. [Next]_vars => [DesktopNext]_desktopVars
    BY Zenon DEF Next, vars
  <1>2. [Next]_vars => [StageNext]_stageVars
    BY Zenon DEF Next, vars
  <1>3. [Next]_vars => [SponsorNext]_sponsorVars
    BY Zenon DEF Next, vars
  <1>4. [Next]_vars => [VisitorNext]_visitorVars
    BY Zenon DEF Next, vars
  <1>5. [Next]_vars => [BrowserNext]_browserVars
    BY Zenon DEF Next, vars
  <1>6. [Next]_vars => [ActivityNext]_activityVars
    BY Zenon DEF Next, vars
  <1>7. [Next]_vars => [WishNext]_wishVars
    BY Zenon DEF Next, vars
  <1>8. [Next]_vars => [OverlayNext]_overlayVars
    BY Zenon DEF Next, vars
  <1>9. [Next]_vars => [LibraryNext]_libraryVars
    BY Zenon DEF Next, vars
  <1>10. [Next]_vars => [DatesNext]_datesVars
    BY Zenon DEF Next, vars
  <1> QED BY <1>1, <1>2, <1>3, <1>4, <1>5, <1>6, <1>7, <1>8, <1>9, <1>10

LEMMA PartsBegin ==
    Init => /\ DesktopInit /\ StageInit /\ SponsorInit /\ VisitorInit
            /\ BrowserInit /\ ActivityInit /\ WishInit
            /\ OverlayInit /\ LibraryInit /\ DatesInit
  BY DEF Init

\* The windows of the desktop, the stage, the browser and the wishes, whatever
\* the visitor, the mode, the launch URL and the other tabs do.
THEOREM PagesDesktop == Spec => []DesktopPartsSound
  <1>1. DesktopInv /\ StageInv /\ BrowserInv /\ WishInv => DesktopPartsSound
    BY DesktopInvSound, StageInvSound, BrowserInvSound, WishInvSound DEF DesktopPartsSound
  <1> QED BY <1>1, PartsBegin, PartsMove, DesktopFirst, DesktopStep, StageFirst, StageStep,
        BrowserFirst, BrowserStep, WishFirst, WishStep, PTL DEF Spec

\* The wallet window: asked is what was reviewed in it, and nothing more while the
\* outcome of its own last transfer is unknown.
THEOREM PagesSponsor == Spec => []SponsorSound
  BY PartsBegin, PartsMove, SponsorFirst, SponsorStep, SponsorInvSound, PTL DEF Spec

\* The visitor's applications belong to the visitor who is logged in.
THEOREM PagesVisitor == Spec => []VisitorSound
  BY PartsBegin, PartsMove, VisitorFirst, VisitorStep, VisitorInvSound, PTL DEF Spec

\* The activities of a reply are told apart, and the page calls no tool under way
\* in a reply that is over.
THEOREM PagesActivities == Spec => []ActivitiesSound
  BY PartsBegin, PartsMove, ActivityFirst, ActivityStep, ActivityInvSound, PTL DEF Spec

\* The player lies over its slot, and the collection is read as it was written.
THEOREM PagesMusic == Spec => []MusicSound
  <1>1. OverlayInv /\ LibraryInv => MusicSound
    BY OverlayInvSound, LibraryInvSound DEF MusicSound
  <1> QED BY <1>1, PartsBegin, PartsMove, OverlayFirst, OverlayStep, LibraryFirst, LibraryStep,
        PTL DEF Spec

\* The dates of our space are true of the day they were computed on.
THEOREM PagesDates == Spec => []DatesTrue
  BY PartsBegin, PartsMove, DatesFirst, DatesStep, DatesInvSound, PTL DEF Spec

\* What is over stays over.
THEOREM PagesOver == Spec => OverStaysOver
  <1>1. Spec => []ActivityInv /\ [][ActivityNext]_activityVars
    BY PartsBegin, PartsMove, ActivityFirst, ActivityStep, PTL DEF Spec
  <1>2. ActivityInv /\ [ActivityNext]_activityVars => [StaysOver]_activityVars
    BY OverStep
  <1>3. Spec => [][StaysOver]_activityVars
    BY <1>1, <1>2, PTL
  <1> QED BY <1>3, PTL DEF OverStaysOver, StaysOver

\* The history of the browser implements two stacks of pages.
THEOREM PagesStacks == Spec => BehavesAsStacks
  BY PartsBegin, PartsMove, BrowserFirst, BrowserStep, StacksBegin, StacksStep, PTL
  DEF Spec, BehavesAsStacks, Stacks!HistorySpec
=============================================================================
