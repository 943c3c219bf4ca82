----------------------------- MODULE SiteBrowser -----------------------------
(***************************************************************************)
(* NEKO Browser (neko-browser.tsx): the documents it has shown, with the   *)
(* index of the one it shows, and the gallery of the archive, where one    *)
(* photograph of the chosen category can be looked at.  Scroll positions   *)
(* and the focus are left out.                                             *)
(***************************************************************************)
EXTENDS Integers, Sequences, FiniteSets

CONSTANT MaxHistory     \* 40: the documents remembered

ASSUME HistoryAssumption == MaxHistory \in Nat \ {0}

Documents == {"about", "projects", "minecraft", "contact"}
Categories == {"all", "city", "garden", "architecture"}

\* minecraft-gallery.json, three photographs of it.
Gallery == <<"city", "garden", "city">>
NoPhoto == 0

VARIABLES history, index, category, photo

browserVars == <<history, index, category, photo>>

BrowserTypeOK ==
    /\ history \in Seq(Documents) /\ Len(history) \in 1..MaxHistory
    /\ index \in DOMAIN history
    /\ category \in Categories
    /\ photo \in DOMAIN Gallery \cup {NoPhoto}

BrowserInit ==
    /\ \E d \in Documents : history = <<d>>
    /\ index = 1 /\ category = "all" /\ photo = NoPhoto

Selected == history[index]
Images == {i \in DOMAIN Gallery : category \in {"all", Gallery[i]}}

\* A link of the desktop, also while the browser is open.
LaunchBrowser(d) ==
    /\ history' = <<d>> /\ index' = 1 /\ photo' = NoPhoto
    /\ UNCHANGED category

\* Slip: a visit keeps what was ahead.
AppendsToAll(d) ==
    /\ d # Selected
    /\ LET next == Append(history, d) IN
       history' = IF Len(next) > MaxHistory THEN Tail(next) ELSE next
    /\ index' = Len(history')
    /\ photo' = NoPhoto
    /\ UNCHANGED category

\* Slip: the index does not follow the documents that are forgotten.
IndexRunsOn(d) ==
    /\ d # Selected
    /\ LET next == Append(SubSeq(history, 1, index), d) IN
       history' = IF Len(next) > MaxHistory THEN Tail(next) ELSE next
    /\ index' = index + 1
    /\ photo' = NoPhoto
    /\ UNCHANGED category

Navigate(d) ==
    /\ d # Selected
    /\ LET next == Append(SubSeq(history, 1, index), d) IN
       history' = IF Len(next) > MaxHistory THEN Tail(next) ELSE next
    /\ index' = Len(history')
    /\ photo' = NoPhoto
    /\ UNCHANGED category

Travel(i) ==
    /\ i \in DOMAIN history
    /\ index' = i /\ photo' = NoPhoto
    /\ UNCHANGED <<history, category>>

Backward == index > 1 /\ Travel(index - 1)
Forward == index < Len(history) /\ Travel(index + 1)

\* Slip: the photograph stays when the filter changes.
FilterKeepsPhoto(c) ==
    /\ Selected = "minecraft"
    /\ category' = c
    /\ UNCHANGED <<history, index, photo>>

ChooseCategory(c) ==
    /\ Selected = "minecraft"
    /\ category' = c /\ photo' = NoPhoto
    /\ UNCHANGED <<history, index>>

OpenPhoto(i) ==
    /\ Selected = "minecraft" /\ i \in Images
    /\ photo' = i
    /\ UNCHANGED <<history, index, category>>

ClosePhoto ==
    /\ photo # NoPhoto
    /\ photo' = NoPhoto
    /\ UNCHANGED <<history, index, category>>

\* The k-th of the images, in the order of the gallery.
NthImage(k) == CHOOSE i \in Images : Cardinality({j \in Images : j < i}) = k

StepPhoto(direction) ==
    /\ photo \in Images /\ Cardinality(Images) >= 2
    /\ LET current == Cardinality({j \in Images : j < photo}) IN
       photo' = NthImage((current + direction + Cardinality(Images)) % Cardinality(Images))
    /\ UNCHANGED <<history, index, category>>

BrowserNext ==
    \/ \E d \in Documents : LaunchBrowser(d) \/ Navigate(d)
    \/ Backward \/ Forward
    \/ \E c \in Categories : ChooseCategory(c)
    \/ \E i \in DOMAIN Gallery : OpenPhoto(i)
    \/ ClosePhoto \/ StepPhoto(1) \/ StepPhoto(0 - 1)

BrowserSpec == BrowserInit /\ [][BrowserNext]_browserVars

-----------------------------------------------------------------------------
(* Properties.                                                             *)

\* The buttons do what the buttons of a browser do: one array and an index
\* behave as two stacks, also when the oldest documents are forgotten.
Stacks == INSTANCE BrowserHistory
    WITH MaxKept <- MaxHistory,
         back <- SubSeq(history, 1, index - 1),
         shown <- history[index],
         forward <- SubSeq(history, index + 1, Len(history))

BehavesAsStacks == Stacks!HistorySpec

\* A photograph is shown only in the archive, and it is one the filter shows;
\* and going back never shows the same document again.
PhotoBelongs == photo # NoPhoto => Selected = "minecraft" /\ photo \in Images
NeighboursDiffer == \A i \in 1..Len(history) - 1 : history[i] # history[i + 1]

BrowserSound == BrowserTypeOK /\ PhotoBelongs /\ NeighboursDiffer
=============================================================================
