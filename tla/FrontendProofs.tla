--------------------------- MODULE FrontendProofs ---------------------------
(***************************************************************************)
(* Proofs about the frontend around the desktop: the attempt limiter and   *)
(* the guard it implements, one request through the chat route, the tools  *)
(* of the agent, the player, the panorama, the wallpaper and its clock --  *)
(* each for every value of its constants, and all of them for Frontend.    *)
(***************************************************************************)
EXTENDS Frontend, SequenceTheorems, FiniteSetTheorems, WellFoundedInduction, TLAPS

\* Every set of numbers that has a member has a least one.
LEMMA Least ==
    ASSUME NEW S \in SUBSET Nat, S # {}
    PROVE  \E n \in S : \A m \in S : n <= m
  <1> DEFINE Before == OpToRel(<, Nat)
  <1>1. IsWellFoundedOn(Before, Nat)
    BY NatLessThanWellFounded
  <1>2. \A a, b \in Nat : <<a, b>> \in Before <=> a < b
    BY DEF OpToRel
  <1> HIDE DEF Before
  <1>3. PICK n \in S : \A m \in S : ~(<<m, n>> \in Before)
    BY <1>1, WFMin
  <1>4. ASSUME NEW m \in S PROVE n <= m
    <2>1. m \in Nat /\ n \in Nat /\ ~(m < n)
      BY <1>2, <1>3
    <2> QED BY <2>1
  <1> QED BY <1>3, <1>4

-----------------------------------------------------------------------------
(* The tools of the agent.                                                 *)

\* What is known of a call is what it gave, and between two calls there is
\* nothing to be known.
ToolsInv ==
    /\ configured \subseteq 1..Questions
    /\ called \in ToolNames /\ arguments \in Arguments
    /\ \/ result = NoResult /\ called = "site_info"
       \/ result = Gives(called, arguments, configured)

LEMMA ArgumentKinds ==
    ASSUME NEW args \in Arguments
    PROVE  args.kind = "answers" => args.answers \in [1..Questions -> Supplied]
  BY DEF Arguments

\* The quiz stops at the first question that is not answered rightly.
LEMMA QuizStops ==
    ASSUME NEW args, args.kind = "answers", NEW config, config = 1..Questions,
           NEW first \in 1..Questions, args.answers[first] # "right",
           \A p \in 1..first - 1 : args.answers[p] = "right"
    PROVE  VerifyQuiz(args, config) = Quiz(FALSE, first - 1)
  <1> DEFINE open == {q \in 1..Questions : args.answers[q] # "right"}
             chosen == CHOOSE q \in open : \A p \in open : q <= p
  <1>1. first \in open /\ open # {} /\ open \subseteq Int
    OBVIOUS
  <1>2. \A p \in open : first <= p
    <2>1. SUFFICES ASSUME NEW p \in open, ~(first <= p) PROVE FALSE
      OBVIOUS
    <2>2. p \in 1..first - 1 /\ args.answers[p] # "right"
      BY <2>1
    <2> QED BY <2>2
  <1>3. chosen = first
    <2>1. chosen \in open /\ \A p \in open : chosen <= p
      BY <1>1, <1>2
    <2>2. chosen <= first /\ first <= chosen /\ chosen \in Int /\ first \in Int
      BY <1>1, <1>2, <2>1
    <2> QED BY <2>2
  <1>4. VerifyQuiz(args, config) = Quiz(FALSE, chosen - 1)
    BY <1>1 DEF VerifyQuiz
  <1> HIDE DEF chosen
  <1> QED BY <1>3, <1>4

LEMMA QuizPasses ==
    ASSUME NEW args, args.kind = "answers", NEW config, config = 1..Questions,
           \A p \in 1..Questions : args.answers[p] = "right"
    PROVE  VerifyQuiz(args, config) = Quiz(TRUE, Questions)
  <1>1. {q \in 1..Questions : args.answers[q] # "right"} = {}
    OBVIOUS
  <1> QED BY <1>1 DEF VerifyQuiz

\* A quiz is passed, or there is the first question that stops it.
LEMMA QuizCases ==
    ASSUME NEW args, args.kind = "answers", NEW config, config = 1..Questions,
           ~\A p \in 1..Questions : args.answers[p] = "right"
    PROVE  \E first \in 1..Questions :
              /\ args.answers[first] # "right"
              /\ \A p \in 1..first - 1 : args.answers[p] = "right"
              /\ VerifyQuiz(args, config) = Quiz(FALSE, first - 1)
  <1> DEFINE open == {q \in 1..Questions : args.answers[q] # "right"}
  <1>1. open \in SUBSET Nat /\ open # {}
    OBVIOUS
  <1>2. PICK first \in open : \A p \in open : first <= p
    BY <1>1, Least
  <1>3. ASSUME NEW p \in 1..first - 1 PROVE args.answers[p] = "right"
    <2>1. p \in 1..Questions /\ ~(first <= p)
      BY QuizAssumption
    <2> QED BY <1>2, <2>1
  <1>4. first \in 1..Questions /\ args.answers[first] # "right"
    OBVIOUS
  <1> QED BY <1>3, <1>4, QuizStops

\* What a result can be, by the tool.
LEMMA GivesCases ==
    ASSUME NEW name \in ToolNames, NEW args \in Arguments, NEW config
    PROVE  \/ Gives(name, args, config) = Error
           \/ /\ name = "site_info"
              /\ \E e \in SUBSET SitePages : Gives(name, args, config) = Entries(e)
           \/ /\ name = "desktop_apps"
              /\ \E e \in SUBSET SiteApps : Gives(name, args, config) = Entries(e)
           \/ /\ name = "girlfriend_mode" /\ args.kind = "answers" /\ config = 1..Questions
              /\ Gives(name, args, config) = VerifyQuiz(args, config)
  <1>1. \A all : \/ SelectPublicEntries(args, all) = Error
                 \/ \E e \in SUBSET all : SelectPublicEntries(args, all) = Entries(e)
    BY DEF SelectPublicEntries
  <1>2. VerifyQuiz(args, config) = Error \/ (args.kind = "answers" /\ config = 1..Questions)
    BY DEF VerifyQuiz
  <1>3. CASE name = "site_info"
    BY <1>1, <1>3 DEF Gives
  <1>4. CASE name = "desktop_apps"
    BY <1>1, <1>4 DEF Gives
  <1>5. CASE name = "girlfriend_mode"
    BY <1>2, <1>5 DEF Gives
  <1>6. CASE name = "bash"
    BY <1>6 DEF Gives
  <1> QED BY <1>3, <1>4, <1>5, <1>6 DEF ToolNames, Registered

LEMMA ToolsFirst == ToolsInit => ToolsInv
  <1>1. ASSUME ToolsInit PROVE arguments \in Arguments
    BY <1>1 DEF ToolsInit, Arguments
  <1> QED BY <1>1 DEF ToolsInit, ToolsInv, ToolNames, Registered

LEMMA ToolsStep == ToolsInv /\ [ToolsNext]_toolVars => ToolsInv'
  <1> SUFFICES ASSUME ToolsInv, [ToolsNext]_toolVars PROVE ToolsInv'
    OBVIOUS
  <1>1. CASE CallTool
    BY <1>1 DEF CallTool, ToolsInv
  <1>2. CASE GoesOn
    <2>1. arguments' \in Arguments
      BY <1>2 DEF GoesOn, Arguments
    <2> QED BY <1>2, <2>1 DEF GoesOn, ToolsInv, ToolNames, Registered
  <1>3. CASE UNCHANGED toolVars
    BY <1>3 DEF toolVars, ToolsInv
  <1> QED BY <1>1, <1>2, <1>3 DEF ToolsNext

\* Between two calls, and for a tool that looks up or refuses.
LEMMA NoQuizSound ==
    ASSUME ToolsInv,
           \/ result = NoResult /\ called = "site_info"
           \/ result = Error
           \/ called = "site_info" /\ \E e \in SUBSET SitePages : result = Entries(e)
           \/ called = "desktop_apps" /\ \E e \in SUBSET SiteApps : result = Entries(e),
           result # Error \/ result = Gives(called, arguments, configured)
    PROVE  ToolsSound
  <1>1. /\ result.progress = 0 /\ result.kind # "quiz" /\ ~TakenForUnlock(result)
    BY DEF NoResult, Error, Entries, TakenForUnlock
  <1>2. ToolsTypeOK
    BY <1>1, QuizAssumption DEF ToolsInv, ToolsTypeOK
  <1>3. OnlyPublic
    BY DEF OnlyPublic, NoResult, Error, Entries
  <1>4. Discreet
    BY <1>1 DEF Discreet
  <1>5. UnlockMeansAll
    <2>1. SUFFICES ASSUME called = "girlfriend_mode", configured = 1..Questions,
                          arguments.kind = "answers",
                          \A q \in 1..Questions : arguments.answers[q] = "right"
                   PROVE  FALSE
      BY <1>1 DEF UnlockMeansAll
    <2>2. result = Error /\ Gives(called, arguments, configured) = Quiz(TRUE, Questions)
      BY <2>1, QuizPasses DEF Gives
    <2> QED BY <2>2 DEF Error, Quiz
  <1> QED BY <1>2, <1>3, <1>4, <1>5 DEF ToolsSound

\* What an answer behind the first that fails says changes nothing.
LEMMA QuizDiscreet ==
    ASSUME ToolsInv, called = "girlfriend_mode", arguments.kind = "answers",
           configured = 1..Questions, NEW first \in 1..Questions,
           arguments.answers[first] # "right",
           \A p \in 1..first - 1 : arguments.answers[p] = "right",
           result = Quiz(FALSE, first - 1)
    PROVE  Discreet
  <1>1. result.progress = first - 1
    BY DEF Quiz
  <1>2. SUFFICES ASSUME NEW q \in result.progress + 2..Questions, NEW s \in Supplied
                 PROVE  Gives(called, [arguments EXCEPT !.answers[q] = s], configured) = result
    BY DEF Discreet
  <1> DEFINE args == [arguments EXCEPT !.answers[q] = s]
  <1>3. arguments.answers \in [1..Questions -> Supplied] /\ q \in 1..Questions /\ q > first
    <2>1. arguments.answers \in [1..Questions -> Supplied]
      BY ArgumentKinds DEF ToolsInv
    <2>2. q \in 1..Questions /\ q > first
      <3> DEFINE rightly == result.progress
      <3>1. q \in rightly + 2..Questions /\ rightly = first - 1 /\ Questions \in Nat
        BY <1>1, QuizAssumption
      <3> HIDE DEF rightly
      <3> QED BY <3>1
    <2> QED BY <2>1, <2>2
  <1>4. args.kind = "answers" /\ \A p \in 1..Questions : p # q => args.answers[p] = arguments.answers[p]
    <2>1. arguments.kind = "answers" /\ DOMAIN arguments.answers = 1..Questions
      BY <1>3
    <2>2. "kind" \in DOMAIN arguments /\ "answers" \in DOMAIN arguments
      BY DEF ToolsInv, Arguments
    <2> QED BY <2>1, <2>2
  <1> HIDE DEF args
  <1>5. args.answers[first] # "right" /\ \A p \in 1..first - 1 : args.answers[p] = "right"
    BY <1>3, <1>4, QuizAssumption
  <1>6. VerifyQuiz(args, configured) = Quiz(FALSE, first - 1)
    BY <1>4, <1>5, QuizStops
  <1>7. Gives(called, args, configured) = VerifyQuiz(args, configured)
    BY DEF Gives
  <1> QED BY <1>6, <1>7 DEF args

LEMMA ToolsInvSound == ToolsInv => ToolsSound
  <1> SUFFICES ASSUME ToolsInv PROVE ToolsSound
    OBVIOUS
  <1>1. CASE result = NoResult /\ called = "site_info"
    <2>1. result # Error
      BY <1>1 DEF NoResult, Error
    <2> QED BY <1>1, <2>1, NoQuizSound
  <1>2. CASE result = Gives(called, arguments, configured)
    <2>1. CASE ~(called = "girlfriend_mode" /\ arguments.kind = "answers"
                   /\ configured = 1..Questions) \/ result = Error
      BY <1>2, <2>1, GivesCases, NoQuizSound DEF ToolsInv
    <2>2. CASE /\ called = "girlfriend_mode" /\ arguments.kind = "answers"
               /\ configured = 1..Questions
      <3>1. result = VerifyQuiz(arguments, configured)
        BY <1>2, <2>2 DEF Gives
      <3>2. CASE \A p \in 1..Questions : arguments.answers[p] = "right"
        <4>1. result = Quiz(TRUE, Questions)
          BY <2>2, <3>1, <3>2, QuizPasses
        <4>2. result.entries = {} /\ result.progress = Questions /\ TakenForUnlock(result)
          BY <4>1 DEF Quiz, TakenForUnlock
        <4>3. result.progress + 2..Questions = {}
          BY <4>2, QuizAssumption
        <4>4. Discreet /\ OnlyPublic /\ UnlockMeansAll
          BY <2>2, <3>2, <4>2, <4>3 DEF Discreet, OnlyPublic, UnlockMeansAll
        <4>5. ToolsTypeOK
          BY <4>2, QuizAssumption DEF ToolsInv, ToolsTypeOK
        <4> QED BY <4>4, <4>5 DEF ToolsSound
      <3>3. CASE ~\A p \in 1..Questions : arguments.answers[p] = "right"
        <4>1. PICK first \in 1..Questions :
                 /\ arguments.answers[first] # "right"
                 /\ \A p \in 1..first - 1 : arguments.answers[p] = "right"
                 /\ VerifyQuiz(arguments, configured) = Quiz(FALSE, first - 1)
          BY <2>2, <3>3, QuizCases
        <4>2. result = Quiz(FALSE, first - 1)
          BY <3>1, <4>1
        <4>3. result.entries = {} /\ result.progress = first - 1 /\ ~TakenForUnlock(result)
          BY <4>2 DEF Quiz, TakenForUnlock
        <4>4. Discreet
          BY <2>2, <4>1, <4>2, QuizDiscreet
        <4>5. OnlyPublic /\ UnlockMeansAll
          BY <3>3, <4>3 DEF OnlyPublic, UnlockMeansAll
        <4>6. ToolsTypeOK
          <5>1. first - 1 \in 0..Questions
            BY QuizAssumption
          <5> QED BY <4>3, <5>1 DEF ToolsInv, ToolsTypeOK
        <4> QED BY <4>4, <4>5, <4>6 DEF ToolsSound
      <3> QED BY <3>2, <3>3
    <2> QED BY <2>1, <2>2
  <1> QED BY <1>1, <1>2 DEF ToolsInv

\* The tools, for a quiz of any length and any public entries: only five right
\* answers unlock, no result tells of an answer behind the first that fails,
\* and only public entries are given out.
THEOREM ToolsAreSound == ToolsSpec => []ToolsSound
  BY ToolsFirst, ToolsStep, ToolsInvSound, PTL DEF ToolsSpec

-----------------------------------------------------------------------------
(* The window over ascending times.                                        *)

Times(ts) ==
    /\ ts \in Seq(Nat)
    /\ \A i, j \in 1..Len(ts) : i <= j => ts[i] <= ts[j]

LEMMA TimesAre ==
    ASSUME NEW ts, Times(ts)
    PROVE  /\ ts \in Seq(Nat) /\ Len(ts) \in Nat /\ \A i \in 1..Len(ts) : ts[i] \in Nat
           /\ \A i, j \in 1..Len(ts) : i <= j => ts[i] <= ts[j]
  BY DEF Times

\* LeftBehind() counts the times the window has left behind, and those come first.
LEMMA LeftBehindIs ==
    ASSUME NEW ts, Times(ts), NEW t \in Nat
    PROVE  /\ LeftBehind(ts, t) \in 0..Len(ts)
           /\ \A i \in 1..Len(ts) : ts[i] + Window <= t <=> i <= LeftBehind(ts, t)
  <1> DEFINE live == {i \in 1..Len(ts) : ~(ts[i] + Window <= t)}
  <1>0. Len(ts) \in Nat /\ Window \in Nat /\ \A i \in 1..Len(ts) : ts[i] \in Nat
    BY PolicyAssumption DEF Times
  <1>1. \E n \in 0..Len(ts) : \A i \in 1..Len(ts) : ts[i] + Window <= t <=> i <= n
    <2>1. CASE live = {}
      <3> DEFINE n == Len(ts)
      <3>1. n \in 0..n /\ \A i \in 1..n : ts[i] + Window <= t <=> i <= n
        BY <2>1, <1>0
      <3> HIDE DEF n
      <3>2. \E m \in 0..n : \A i \in 1..n : ts[i] + Window <= t <=> i <= m
        BY <3>1, Zenon
      <3> QED BY <3>2 DEF n
    <2>2. CASE live # {}
      <3>1. live \in SUBSET Nat
        BY <1>0
      <3>2. PICK l \in live : \A m \in live : l <= m
        BY <2>2, <3>1, Least
      <3>3. l - 1 \in 0..Len(ts)
        BY <1>0
      <3>4. ASSUME NEW i \in 1..Len(ts) PROVE ts[i] + Window <= t <=> i <= l - 1
        <4>1. CASE i <= l - 1
          <5>1. ~(l <= i)
            BY <1>0, <4>1
          <5> QED BY <3>2, <4>1, <5>1
        <4>2. CASE ~(i <= l - 1)
          <5>1. l <= i /\ l \in 1..Len(ts) /\ ~(ts[l] + Window <= t)
            BY <1>0, <4>2
          <5>2. ts[l] <= ts[i]
            BY <5>1 DEF Times
          <5> QED BY <1>0, <4>2, <5>1, <5>2
        <4> QED BY <4>1, <4>2
      <3> QED BY <3>3, <3>4
    <2> QED BY <2>1, <2>2
  <1> QED BY <1>1 DEF LeftBehind

\* What the window keeps: the later ones, in their order, and nothing else.
LEMMA Kept ==
    ASSUME NEW ts, Times(ts), NEW t \in Nat
    PROVE  /\ Len(InWindow(ts, t)) = Len(ts) - LeftBehind(ts, t)
           /\ \A i \in 1..Len(ts) - LeftBehind(ts, t) :
                 InWindow(ts, t)[i] = ts[LeftBehind(ts, t) + i]
           /\ InWindow(ts, t) \in Seq(Nat)
  <1> DEFINE o == LeftBehind(ts, t)
             n == Len(ts)
  <1>1. n \in Nat /\ o \in 0..n /\ \A i \in 1..n : ts[i] \in Nat
    BY LeftBehindIs, TimesAre, Zenon
  <1>2. InWindow(ts, t) = SubSeq(ts, o + 1, n)
    BY DEF InWindow
  <1> HIDE DEF o, n
  <1>3. o + 1 \in Int /\ n \in Int /\ \A i \in o + 1..n : ts[i] \in Nat
    BY <1>1
  <1>4. /\ SubSeq(ts, o + 1, n) \in Seq(Nat)
        /\ Len(SubSeq(ts, o + 1, n)) = IF o + 1 <= n THEN n - (o + 1) + 1 ELSE 0
        /\ \A i \in 1..n - (o + 1) + 1 : SubSeq(ts, o + 1, n)[i] = ts[(o + 1) + i - 1]
    BY <1>3, SubSeqProperties
  <1>5. Len(SubSeq(ts, o + 1, n)) = n - o
    BY <1>1, <1>4
  <1>6. ASSUME NEW i \in 1..n - o PROVE SubSeq(ts, o + 1, n)[i] = ts[o + i]
    <2>1. i \in 1..n - (o + 1) + 1 /\ (o + 1) + i - 1 = o + i
      BY <1>1
    <2> QED BY <1>4, <2>1
  <1> QED BY <1>2, <1>4, <1>5, <1>6 DEF o, n

LEMMA KeptTimes ==
    ASSUME NEW ts, Times(ts), NEW t \in Nat
    PROVE  /\ Times(InWindow(ts, t))
           /\ \A i \in 1..Len(InWindow(ts, t)) :
                 /\ InWindow(ts, t)[i] + Window > t
                 /\ \E j \in 1..Len(ts) : InWindow(ts, t)[i] = ts[j]
  <1> DEFINE o == LeftBehind(ts, t)
             n == Len(ts)
             w == InWindow(ts, t)
  <1>1. n \in Nat /\ o \in 0..n /\ \A i \in 1..n : ts[i] \in Nat /\ (ts[i] + Window <= t <=> i <= o)
    BY LeftBehindIs, TimesAre, Zenon
  <1>2. w \in Seq(Nat) /\ Len(w) = n - o /\ \A i \in 1..n - o : w[i] = ts[o + i]
    BY Kept
  <1>3. \A i, j \in 1..n : i <= j => ts[i] <= ts[j]
    BY DEF Times
  <1> HIDE DEF o, n, w
  <1>4. \A i \in 1..n - o : o + i \in 1..n /\ ~(o + i <= o)
    BY <1>1
  <1>5. ASSUME NEW i \in 1..Len(w) PROVE w[i] + Window > t /\ \E j \in 1..n : w[i] = ts[j]
    <2>1. i \in 1..n - o
      BY <1>2
    <2>2. o + i \in 1..n /\ w[i] = ts[o + i] /\ ~(ts[o + i] + Window <= t) /\ ts[o + i] \in Nat
      BY <1>1, <1>2, <1>4, <2>1
    <2> QED BY <2>2, PolicyAssumption
  <1>6. ASSUME NEW i \in 1..Len(w), NEW j \in 1..Len(w), i <= j PROVE w[i] <= w[j]
    <2>1. i \in 1..n - o /\ j \in 1..n - o
      BY <1>2
    <2>2. o + i <= o + j
      BY <1>1, <1>6, <2>1
    <2>3. w[i] = ts[o + i] /\ w[j] = ts[o + j] /\ o + i \in 1..n /\ o + j \in 1..n
      BY <1>2, <1>4, <2>1
    <2>4. ts[o + i] <= ts[o + j]
      BY <1>3, <2>2, <2>3
    <2> QED BY <2>3, <2>4
  <1>7. Times(w)
    BY <1>2, <1>6 DEF Times
  <1> QED BY <1>5, <1>7 DEF n, w

\* A window that leaves nothing behind keeps all, one that left all has none.
LEMMA AllLive ==
    ASSUME NEW ts, Times(ts), NEW t \in Nat, \A i \in 1..Len(ts) : ts[i] + Window > t
    PROVE  InWindow(ts, t) = ts
  <1> DEFINE o == LeftBehind(ts, t)
             n == Len(ts)
             w == InWindow(ts, t)
  <1>1. ts \in Seq(Nat) /\ n \in Nat /\ o \in 0..n
        /\ \A i \in 1..n : ts[i] \in Nat /\ (ts[i] + Window <= t <=> i <= o)
    BY LeftBehindIs, TimesAre, Zenon
  <1>2. w \in Seq(Nat) /\ Len(w) = n - o /\ \A i \in 1..n - o : w[i] = ts[o + i]
    BY Kept
  <1>3. \A i \in 1..n : ts[i] + Window > t
    OBVIOUS
  <1> HIDE DEF o, n, w
  <1>4. o = 0
    <2>1. SUFFICES ASSUME o # 0 PROVE FALSE
      OBVIOUS
    <2>2. o \in 1..n /\ o <= o
      BY <1>1, <2>1
    <2>3. ts[o] + Window <= t /\ ts[o] + Window > t /\ ts[o] \in Nat
      BY <1>1, <1>3, <2>2
    <2> QED BY <2>3, PolicyAssumption
  <1>5. Len(w) = n /\ \A i \in 1..n : w[i] = ts[i]
    <2>1. n - o = n /\ \A i \in 1..n : o + i = i
      BY <1>1, <1>4
    <2> QED BY <1>2, <2>1
  <1>6. w = ts
    BY <1>1, <1>2, <1>5, SeqEqual DEF n
  <1> QED BY <1>6 DEF w

LEMMA AllOver ==
    ASSUME NEW ts, Times(ts), NEW t \in Nat, \A i \in 1..Len(ts) : ts[i] + Window <= t
    PROVE  InWindow(ts, t) = <<>>
  <1>1. InWindow(ts, t) \in Seq(Nat) /\ \A i \in 1..Len(InWindow(ts, t)) :
            /\ InWindow(ts, t)[i] + Window > t
            /\ \E j \in 1..Len(ts) : InWindow(ts, t)[i] = ts[j]
    BY KeptTimes DEF Times
  <1> DEFINE w == InWindow(ts, t)
  <1>2. \A i \in 1..Len(w) : FALSE
    <2>1. SUFFICES ASSUME NEW i \in 1..Len(w) PROVE FALSE
      OBVIOUS
    <2>2. PICK j \in 1..Len(ts) : w[i] = ts[j]
      BY <1>1
    <2>3. ts[j] \in Nat /\ ts[j] + Window > t /\ ts[j] + Window <= t
      BY <1>1, <2>2 DEF Times
    <2> QED BY <2>3, PolicyAssumption
  <1> HIDE DEF w
  <1>3. Len(w) \in Nat /\ w \in Seq(Nat)
    BY <1>1 DEF w
  <1>4. Len(w) = 0
    BY <1>2, <1>3
  <1>5. w = <<>>
    BY <1>3, <1>4, EmptySeq
  <1> QED BY <1>5 DEF w

\* Looking through a window that has moved on, at what an earlier look kept.
LEMMA LookTwice ==
    ASSUME NEW ts, Times(ts), NEW t \in Nat, NEW u \in Nat, t <= u
    PROVE  InWindow(InWindow(ts, t), u) = InWindow(ts, u)
  <1> DEFINE w == InWindow(ts, t)
             n == Len(ts)
             o == LeftBehind(ts, t)
             p == LeftBehind(ts, u)
             q == LeftBehind(w, u)
  <1>0. Times(w)
    BY KeptTimes
  <1>1. /\ n \in Nat /\ o \in 0..n /\ p \in 0..n
        /\ \A i \in 1..n : ts[i] + Window <= t <=> i <= o
        /\ \A i \in 1..n : ts[i] + Window <= u <=> i <= p
        /\ \A i \in 1..n : ts[i] \in Nat
    BY LeftBehindIs, TimesAre, Zenon
  <1>2. Len(w) = n - o /\ \A i \in 1..n - o : w[i] = ts[o + i]
    BY Kept
  <1>3. q \in 0..Len(w) /\ \A i \in 1..Len(w) : w[i] + Window <= u <=> i <= q
    BY <1>0, LeftBehindIs
  <1>4. /\ Len(InWindow(w, u)) = Len(w) - q
        /\ \A i \in 1..Len(w) - q : InWindow(w, u)[i] = w[q + i]
        /\ InWindow(w, u) \in Seq(Nat)
    BY <1>0, Kept
  <1>5. /\ Len(InWindow(ts, u)) = n - p
        /\ \A i \in 1..n - p : InWindow(ts, u)[i] = ts[p + i]
        /\ InWindow(ts, u) \in Seq(Nat)
    BY Kept
  <1> DEFINE v == InWindow(w, u)
             x == InWindow(ts, u)
  <1> HIDE DEF w, n, o, p, q, v, x
  <1>6. o <= p
    <2>1. SUFFICES ASSUME ~(o <= p) PROVE FALSE
      OBVIOUS
    <2>2. o \in 1..n /\ ~(o <= p) /\ o <= o
      BY <1>1, <2>1
    <2>3. ts[o] + Window <= t /\ ~(ts[o] + Window <= u) /\ ts[o] \in Nat
      BY <1>1, <2>2
    <2> QED BY <2>3, PolicyAssumption
  <1>7. q = p - o
    <2>1. \A i \in 1..n - o : i <= q <=> o + i <= p
      <3>1. SUFFICES ASSUME NEW i \in 1..n - o PROVE i <= q <=> o + i <= p
        OBVIOUS
      <3>2. o + i \in 1..n /\ w[i] = ts[o + i] /\ i \in 1..Len(w)
        BY <1>1, <1>2
      <3> QED BY <1>1, <1>3, <3>2
    <2>2. q \in 0..n - o /\ p - o \in 0..n - o
      BY <1>1, <1>2, <1>3, <1>6
    <2>3. CASE q > p - o
      BY <1>1, <2>1, <2>2, <2>3
    <2>4. CASE q < p - o
      <3>1. p - o \in 1..n - o /\ ~(p - o <= q) /\ o + (p - o) <= p
        BY <1>1, <2>2, <2>4
      <3> QED BY <2>1, <3>1
    <2> QED BY <1>1, <2>2, <2>3, <2>4
  <1>8. Len(v) = Len(x)
    BY <1>1, <1>2, <1>4, <1>5, <1>7 DEF v, x
  <1>9. ASSUME NEW i \in 1..Len(v) PROVE v[i] = x[i]
    <2>1. i \in 1..n - p /\ i \in 1..Len(w) - q /\ q + i \in 1..n - o /\ o + (q + i) = p + i
      BY <1>1, <1>2, <1>4, <1>6, <1>7 DEF v
    <2>2. v[i] = w[q + i] /\ w[q + i] = ts[o + (q + i)] /\ x[i] = ts[p + i]
      BY <1>2, <1>4, <1>5, <2>1 DEF v, x
    <2> QED BY <2>1, <2>2
  <1>10. v \in Seq(Nat) /\ x \in Seq(Nat)
    BY <1>4, <1>5 DEF v, x
  <1>11. v = x
    BY <1>8, <1>9, <1>10, SeqEqual
  <1> QED BY <1>11 DEF v, x, w

\* A time that is not before the others takes its place at the end.
LEMMA TimeAdded ==
    ASSUME NEW ts, Times(ts), NEW t \in Nat, \A i \in 1..Len(ts) : ts[i] <= t
    PROVE  /\ Times(Append(ts, t)) /\ Len(Append(ts, t)) = Len(ts) + 1
           /\ \A i \in 1..Len(ts) : Append(ts, t)[i] = ts[i]
           /\ Append(ts, t)[Len(ts) + 1] = t
  <1> DEFINE a == Append(ts, t)
             n == Len(ts)
  <1>1. a \in Seq(Nat) /\ Len(a) = n + 1 /\ n \in Nat
        /\ (\A i \in 1..n : a[i] = ts[i]) /\ a[n + 1] = t
    BY AppendProperties DEF Times
  <1>2. (\A i \in 1..n : ts[i] \in Nat /\ ts[i] <= t) /\ \A i, j \in 1..n : i <= j => ts[i] <= ts[j]
    BY DEF Times
  <1> HIDE DEF a, n
  <1>3. ASSUME NEW i \in 1..n + 1, NEW j \in 1..n + 1, i <= j PROVE a[i] <= a[j]
    <2>1. CASE j \in 1..n
      <3>1. i \in 1..n
        BY <1>1, <1>3, <2>1
      <3> QED BY <1>1, <1>2, <1>3, <2>1, <3>1
    <2>2. CASE i \in 1..n /\ j = n + 1
      BY <1>1, <1>2, <2>2
    <2>3. CASE i = n + 1 /\ j = n + 1
      BY <1>1, <2>3
    <2> QED BY <1>1, <1>3, <2>1, <2>2, <2>3
  <1>4. Times(a)
    BY <1>1, <1>3 DEF Times
  <1> QED BY <1>1, <1>4 DEF a, n

LEMMA NoTimes == Times(<<>>) /\ \A t \in Nat : InWindow(<<>>, t) = <<>>
  <1>1. <<>> \in Seq(Nat) /\ Len(<<>>) = 0
    BY EmptySeq
  <1>2. Times(<<>>)
    BY <1>1 DEF Times
  <1>3. \A i \in 1..Len(<<>>) : FALSE
    BY <1>1
  <1> QED BY <1>2, <1>3, AllOver

-----------------------------------------------------------------------------
(* The limiter.                                                            *)

\* The map is finite; of every identity the times ascend up to now, and a state
\* outlives its window and its quiet period.
Fits(s, t) ==
    /\ Times(s.timestamps)
    /\ \A i \in 1..Len(s.timestamps) :
          s.timestamps[i] <= t /\ s.timestamps[i] + Window <= s.expiresAt
    /\ s.blockedUntil <= s.expiresAt

MapInv ==
    /\ IsFiniteSet(DOMAIN states) /\ DOMAIN states \subseteq Keys
    /\ \A k \in DOMAIN states : states[k] \in State /\ Fits(states[k], now)

\* What holds an identity back is over when it was told to come back.
Tells(k) ==
    ~told[k].allowed =>
       /\ k \in DOMAIN states =>
             /\ states[k].blockedUntil <= told[k].retryAt
             /\ \A i \in 1..Len(states[k].timestamps) :
                   states[k].timestamps[i] + Window <= told[k].retryAt

TellsInv == told \in [Keys -> Answer] /\ \A k \in Keys : Tells(k)

LimiterInv ==
    /\ now \in 0..MaxTime /\ nextSweep \in Nat
    /\ MapInv /\ TellsInv /\ MapBounded

LEMMA SweptIs ==
    ASSUME LimiterInv
    PROVE  /\ DOMAIN Swept \subseteq DOMAIN states /\ IsFiniteSet(DOMAIN Swept)
           /\ Cardinality(DOMAIN Swept) <= MaxKeys
           /\ \A k \in DOMAIN Swept : Swept[k] = states[k]
           /\ \A k \in DOMAIN states : k \notin DOMAIN Swept => states[k].expiresAt <= now
  <1> DEFINE live == {k \in DOMAIN states : states[k].expiresAt > now}
  <1>0. now \in Nat /\ \A k \in DOMAIN states : states[k].expiresAt \in Nat
    BY PolicyAssumption DEF LimiterInv, MapInv, State
  <1>1. CASE now >= nextSweep
    <2>1. Swept = [k \in live |-> states[k]]
      BY <1>1 DEF Swept, Restrict
    <2>2. live \subseteq DOMAIN states /\ \A k \in DOMAIN states : k \notin live => states[k].expiresAt <= now
      BY <1>0
    <2> HIDE DEF live
    <2>3. DOMAIN Swept = live /\ \A k \in live : Swept[k] = states[k]
      BY <2>1
    <2>4. IsFiniteSet(DOMAIN states) /\ Cardinality(DOMAIN states) <= MaxKeys
      BY DEF LimiterInv, MapInv, MapBounded
    <2>5. IsFiniteSet(live) /\ Cardinality(live) <= Cardinality(DOMAIN states)
      BY <2>2, <2>4, FS_Subset
    <2>6. Cardinality(live) \in Nat /\ Cardinality(DOMAIN states) \in Nat
      BY <2>4, <2>5, FS_CardinalityType
    <2>7. Cardinality(live) <= MaxKeys
      BY <2>4, <2>5, <2>6, PolicyAssumption
    <2> QED BY <2>2, <2>3, <2>5, <2>7
  <1>2. CASE ~(now >= nextSweep)
    <2>1. Swept = states
      BY <1>2 DEF Swept
    <2> QED BY <2>1 DEF LimiterInv, MapInv, MapBounded
  <1> QED BY <1>1, <1>2

\* The state an attempt finds, or begins with.
LEMMA StateFound ==
    ASSUME LimiterInv, NEW k \in Keys
    PROVE  /\ StateOf(k) \in State /\ Fits(StateOf(k), now)
           /\ k \in DOMAIN Swept => StateOf(k) = states[k] /\ k \in DOMAIN states
           /\ k \notin DOMAIN Swept => StateOf(k) = NewState
  <1>0. now \in Nat /\ Window \in Nat
    BY PolicyAssumption DEF LimiterInv
  <1>1. CASE k \in DOMAIN Swept
    <2>1. StateOf(k) = states[k] /\ k \in DOMAIN states
      BY <1>1, SweptIs DEF StateOf
    <2> QED BY <1>1, <2>1 DEF LimiterInv, MapInv
  <1>2. CASE k \notin DOMAIN Swept
    <2>1. StateOf(k) = NewState
      BY <1>2 DEF StateOf
    <2>2. Times(<<>>) /\ Len(<<>>) = 0 /\ <<>> \in Seq(Nat)
      BY NoTimes, EmptySeq
    <2>3. NewState \in State /\ Fits(NewState, now)
      BY <1>0, <2>2 DEF NewState, State, Fits
    <2> QED BY <1>2, <2>1, <2>3
  <1> QED BY <1>1, <1>2

\* What an attempt keeps of the times of its identity, and with its own.
LEMMA AttemptTimes ==
    ASSUME LimiterInv, NEW k \in Keys
    PROVE  LET kept == InWindow(StateOf(k).timestamps, now) IN
           /\ Times(kept) /\ \A i \in 1..Len(kept) : kept[i] <= now
           /\ \A i \in 1..Len(kept) : kept[i] + Window > now
           /\ Times(Append(kept, now)) /\ Len(Append(kept, now)) = Len(kept) + 1
           /\ \A i \in 1..Len(kept) + 1 : Append(kept, now)[i] <= now
           /\ \A i \in 1..Len(kept) + 1 : Append(kept, now)[i] + Window > now
  <1> DEFINE ts == StateOf(k).timestamps
             kept == InWindow(ts, now)
  <1>1. Times(ts) /\ \A i \in 1..Len(ts) : ts[i] <= now
    BY StateFound DEF Fits
  <1>2. now \in Nat
    BY PolicyAssumption DEF LimiterInv
  <1> HIDE DEF ts
  <1>3. Times(kept) /\ \A i \in 1..Len(kept) :
            kept[i] + Window > now /\ \E j \in 1..Len(ts) : kept[i] = ts[j]
    BY <1>1, <1>2, KeptTimes
  <1> HIDE DEF kept
  <1>4. \A i \in 1..Len(kept) : kept[i] <= now
    BY <1>1, <1>3
  <1>5. /\ Times(Append(kept, now)) /\ Len(Append(kept, now)) = Len(kept) + 1
        /\ \A i \in 1..Len(kept) : Append(kept, now)[i] = kept[i]
        /\ Append(kept, now)[Len(kept) + 1] = now
    BY <1>2, <1>3, <1>4, TimeAdded
  <1>6. Len(kept) \in Nat
    BY <1>3, TimesAre
  <1>7. ASSUME NEW i \in 1..Len(kept) + 1
        PROVE  Append(kept, now)[i] <= now /\ Append(kept, now)[i] + Window > now
    <2>1. CASE i \in 1..Len(kept)
      BY <1>3, <1>4, <1>5, <2>1
    <2>2. CASE i = Len(kept) + 1
      BY <1>2, <1>5, <2>2, PolicyAssumption
    <2> QED BY <1>6, <2>1, <2>2
  <1> QED BY <1>3, <1>4, <1>5, <1>7 DEF ts, kept

\* The map with the state of one identity put into it.
LEMMA MapPut ==
    ASSUME LimiterInv, NEW k \in Keys, HasRoom(k), NEW s \in State, Fits(s, now),
           states' = [j \in DOMAIN Swept \cup {k} |-> IF j = k THEN s ELSE Swept[j]],
           UNCHANGED now
    PROVE  /\ MapInv' /\ MapBounded'
           /\ states'[k] = s /\ k \in DOMAIN states'
           /\ \A j \in DOMAIN states' : j # k => j \in DOMAIN states /\ states'[j] = states[j]
  <1>1. /\ DOMAIN states' = DOMAIN Swept \cup {k}
        /\ states'[k] = s /\ \A j \in DOMAIN Swept : j # k => states'[j] = Swept[j]
    OBVIOUS
  <1>2. \A j \in DOMAIN states' : j # k => j \in DOMAIN states /\ states'[j] = states[j]
    BY <1>1, SweptIs
  <1>3. IsFiniteSet(DOMAIN Swept) /\ Cardinality(DOMAIN Swept) \in Nat
        /\ Cardinality(DOMAIN Swept) <= MaxKeys
    BY SweptIs, FS_CardinalityType
  <1>4. /\ IsFiniteSet(DOMAIN Swept \cup {k})
        /\ Cardinality(DOMAIN Swept \cup {k}) =
              IF k \in DOMAIN Swept THEN Cardinality(DOMAIN Swept)
                                    ELSE Cardinality(DOMAIN Swept) + 1
    BY <1>3, FS_AddElement
  <1>5. Cardinality(DOMAIN states') <= MaxKeys
    BY <1>1, <1>3, <1>4, PolicyAssumption DEF HasRoom
  <1>6. ASSUME NEW j \in DOMAIN states' PROVE states'[j] \in State /\ Fits(states'[j], now') /\ j \in Keys
    <2>1. CASE j = k
      <3>1. states'[j] = s
        BY <1>1, <2>1
      <3>2. Fits(s, now')
        BY DEF Fits
      <3> QED BY <2>1, <3>1, <3>2 DEF Fits
    <2>2. CASE j # k
      <3>1. j \in DOMAIN states /\ states'[j] = states[j]
        BY <1>2, <2>2
      <3>2. states[j] \in State /\ Fits(states[j], now) /\ j \in Keys
        BY <3>1 DEF LimiterInv, MapInv
      <3> QED BY <3>1, <3>2 DEF Fits
    <2> QED BY <2>1, <2>2
  <1>7. MapInv'
    BY <1>1, <1>4, <1>6 DEF MapInv
  <1> QED BY <1>1, <1>2, <1>5, <1>7 DEF MapBounded

\* What an identity that did not ask was told still holds.
LEMMA TellsOthers ==
    ASSUME LimiterInv, NEW j \in Keys, told'[j] = told[j],
           j \in DOMAIN states' => j \in DOMAIN states /\ states'[j] = states[j]
    PROVE  Tells(j)'
  BY DEF LimiterInv, TellsInv, Tells

LEMMA LimiterFirst == LimiterInit => LimiterInv
  <1> SUFFICES ASSUME LimiterInit PROVE LimiterInv
    OBVIOUS
  <1>1. now \in 0..MaxTime /\ nextSweep \in Nat
    BY PolicyAssumption DEF LimiterInit
  <1>2. DOMAIN states = {}
    BY DEF LimiterInit
  <1>3. MapInv
    BY <1>2, FS_EmptySet DEF MapInv
  <1>4. MapBounded
    BY <1>2, FS_EmptySet, PolicyAssumption DEF MapBounded
  <1>5. told = [k \in Keys |-> Allowed] /\ Allowed \in Answer /\ Allowed.allowed
    BY DEF LimiterInit, Allowed, Answer
  <1>6. TellsInv
    BY <1>5 DEF TellsInv, Tells
  <1> QED BY <1>1, <1>3, <1>4, <1>6 DEF LimiterInv

LEMMA TakeKeeps == ASSUME LimiterInv, NEW k \in Keys, Take(k) PROVE LimiterInv'
  <1> DEFINE kept == InWindow(StateOf(k).timestamps, now)
             put(s) == [j \in DOMAIN Swept \cup {k} |-> IF j = k THEN s ELSE Swept[j]]
             blocked == [timestamps |-> kept, blockedUntil |-> now + Cooldown,
                         expiresAt |-> Greater(now + Cooldown, now + Window)]
             admitted == [timestamps |-> Append(kept, now),
                          blockedUntil |-> StateOf(k).blockedUntil,
                          expiresAt |-> now + Window]
  <1>0. /\ now \in Nat /\ Window \in Nat \ {0} /\ Cooldown \in Nat /\ Cooldown >= Window
        /\ nextSweep \in Nat /\ SweepEvery \in Nat
    BY PolicyAssumption DEF LimiterInv
  <1>1. now' \in 0..MaxTime /\ nextSweep' \in Nat /\ now' = now
    <2>1. now' = now /\ nextSweep' = IF now >= nextSweep THEN now + Lesser(Window, SweepEvery)
                                        ELSE nextSweep
      BY DEF Take
    <2>2. now + Lesser(Window, SweepEvery) \in Nat
      BY <1>0 DEF Lesser
    <2> QED BY <1>0, <2>1, <2>2 DEF LimiterInv
  <1>2. /\ Times(kept) /\ kept \in Seq(Nat) /\ Len(kept) \in Nat
        /\ \A i \in 1..Len(kept) : kept[i] \in Nat /\ kept[i] <= now
    BY AttemptTimes, TimesAre
  <1>3. CASE ~HasRoom(k) /\ states' = Swept /\ told' = told
    <2>1. /\ DOMAIN states' \subseteq DOMAIN states /\ IsFiniteSet(DOMAIN states')
          /\ Cardinality(DOMAIN states') <= MaxKeys
          /\ \A j \in DOMAIN states' : states'[j] = states[j]
      BY <1>3, SweptIs
    <2>2. \A j \in DOMAIN states' : Fits(states[j], now')
      BY <1>1, <2>1 DEF Fits, LimiterInv, MapInv
    <2>3. MapInv'
      BY <2>1, <2>2 DEF LimiterInv, MapInv, Fits
    <2>4. TellsInv'
      BY <1>3, <2>1, TellsOthers DEF LimiterInv, TellsInv
    <2> QED BY <1>1, <2>1, <2>3, <2>4 DEF LimiterInv, MapBounded
  <1>4. CASE /\ HasRoom(k) /\ states' = put(blocked)
             /\ told' = [told EXCEPT ![k] = [allowed |-> FALSE, retryAt |-> RetryAt]]
    <2>1. Greater(now + Cooldown, now + Window) = now + Cooldown
      BY <1>0 DEF Greater
    <2>2. blocked \in State /\ Fits(blocked, now)
      <3>1. \A i \in 1..Len(kept) : kept[i] <= now /\ kept[i] + Window <= now + Cooldown
        BY <1>0, <1>2
      <3>2. now + Cooldown \in Nat /\ now + Cooldown <= now + Cooldown
        BY <1>0
      <3> HIDE DEF kept
      <3> QED BY <1>2, <2>1, <3>1, <3>2 DEF State, Fits
    <2>3. /\ MapInv' /\ MapBounded' /\ states'[k] = blocked
          /\ \A j \in DOMAIN states' : j # k => j \in DOMAIN states /\ states'[j] = states[j]
      <3> HIDE DEF blocked
      <3> QED BY <1>1, <1>4, <2>2, MapPut
    <2>4. told' \in [Keys -> Answer] /\ told'[k].retryAt = now + Cooldown
          /\ \A j \in Keys : j # k => told'[j] = told[j]
      <3>1. [allowed |-> FALSE, retryAt |-> RetryAt] \in Answer /\ RetryAt = now + Cooldown
        <4>1. RetryAt \in Nat /\ RetryAt = now + Cooldown
          BY <1>0 DEF RetryAt
        <4> QED BY <4>1 DEF Answer
      <3>2. told \in [Keys -> Answer]
        BY DEF LimiterInv, TellsInv
      <3> QED BY <1>4, <3>1, <3>2
    <2>5. Tells(k)'
      <3>1. states'[k].blockedUntil = now + Cooldown /\ states'[k].timestamps = kept
        BY <2>3
      <3>2. \A i \in 1..Len(kept) : kept[i] + Window <= now + Cooldown
        BY <1>0, <1>2
      <3>3. now + Cooldown <= now + Cooldown
        BY <1>0
      <3> HIDE DEF kept
      <3> QED BY <2>4, <3>1, <3>2, <3>3 DEF Tells
    <2>6. TellsInv'
      BY <2>3, <2>4, <2>5, TellsOthers DEF TellsInv
    <2> QED BY <1>1, <2>3, <2>6 DEF LimiterInv
  <1>5. CASE /\ HasRoom(k) /\ ~Blocked(k) /\ states' = put(admitted)
             /\ told' = [told EXCEPT ![k] = Allowed]
    <2>1. StateOf(k) \in State
      BY StateFound
    <2>2. StateOf(k).blockedUntil \in Nat /\ StateOf(k).blockedUntil <= now
      <3>1. StateOf(k).blockedUntil \in Nat /\ ~(StateOf(k).blockedUntil > now)
        BY <1>5, <2>1 DEF State, Blocked
      <3> QED BY <1>0, <3>1
    <2>3. admitted \in State /\ Fits(admitted, now)
      <3> DEFINE longer == Append(kept, now)
                 until == StateOf(k).blockedUntil
      <3>1. Times(longer) /\ longer \in Seq(Nat) /\ Len(longer) = Len(kept) + 1
            /\ \A i \in 1..Len(longer) : longer[i] \in Nat
        BY AttemptTimes, TimesAre
      <3>2. \A i \in 1..Len(kept) + 1 : longer[i] <= now
        BY AttemptTimes
      <3>3. until \in Nat /\ until <= now /\ now + Window \in Nat /\ until <= now + Window
        BY <1>0, <2>2
      <3> HIDE DEF longer, until
      <3>4. \A i \in 1..Len(longer) : longer[i] <= now /\ longer[i] + Window <= now + Window
        BY <1>0, <3>1, <3>2
      <3>5. admitted = [timestamps |-> longer, blockedUntil |-> until, expiresAt |-> now + Window]
        BY DEF longer, until
      <3> HIDE DEF admitted
      <3> QED BY <3>1, <3>3, <3>4, <3>5 DEF State, Fits
    <2>4. /\ MapInv' /\ MapBounded'
          /\ \A j \in DOMAIN states' : j # k => j \in DOMAIN states /\ states'[j] = states[j]
      <3> HIDE DEF admitted
      <3> QED BY <1>1, <1>5, <2>3, MapPut
    <2>5. told' \in [Keys -> Answer] /\ told'[k].allowed
          /\ \A j \in Keys : j # k => told'[j] = told[j]
      <3>1. Allowed \in Answer /\ Allowed.allowed
        BY DEF Answer, Allowed
      <3>2. told \in [Keys -> Answer]
        BY DEF LimiterInv, TellsInv
      <3> QED BY <1>5, <3>1, <3>2
    <2>6. TellsInv'
      <3>1. Tells(k)'
        BY <2>5 DEF Tells
      <3> QED BY <2>4, <2>5, <3>1, TellsOthers DEF TellsInv
    <2> QED BY <1>1, <2>4, <2>6 DEF LimiterInv
  <1> HIDE DEF kept
  <1> QED BY <1>3, <1>4, <1>5 DEF Take, kept

LEMMA LimiterStep == LimiterInv /\ [LimiterNext]_limiterVars => LimiterInv'
  <1> SUFFICES ASSUME LimiterInv, [LimiterNext]_limiterVars PROVE LimiterInv'
    OBVIOUS
  <1>1. CASE Tick
    <2>1. now' \in 0..MaxTime /\ now <= now' /\ now \in Nat /\ now' \in Nat
          /\ UNCHANGED <<states, nextSweep, told>>
      BY <1>1, PolicyAssumption DEF Tick, LimiterInv
    <2>2. ASSUME NEW k \in DOMAIN states PROVE Fits(states'[k], now')
      <3> DEFINE ts == states[k].timestamps
      <3>1. Times(ts) /\ (\A i \in 1..Len(ts) : ts[i] <= now /\ ts[i] + Window <= states[k].expiresAt)
            /\ states[k].blockedUntil <= states[k].expiresAt
        BY DEF LimiterInv, MapInv, Fits
      <3>2. states'[k].timestamps = ts /\ states'[k].expiresAt = states[k].expiresAt
            /\ states'[k].blockedUntil = states[k].blockedUntil
        BY <2>1
      <3> HIDE DEF ts
      <3>3. \A i \in 1..Len(ts) : ts[i] <= now'
        BY <2>1, <3>1, TimesAre
      <3> QED BY <3>1, <3>2, <3>3 DEF Fits
    <2>3. MapInv'
      BY <2>1, <2>2 DEF LimiterInv, MapInv
    <2>4. TellsInv' /\ MapBounded'
      BY <2>1 DEF LimiterInv, TellsInv, Tells, MapBounded
    <2> QED BY <2>1, <2>3, <2>4 DEF LimiterInv
  <1>2. CASE UNCHANGED limiterVars
    BY <1>2 DEF limiterVars, LimiterInv, MapInv, Fits, TellsInv, Tells, MapBounded
  <1> QED BY <1>1, <1>2, TakeKeeps DEF LimiterNext

LEMMA LimiterInvSound == LimiterInv => LimiterSound
  <1> SUFFICES ASSUME LimiterInv PROVE LimiterSound
    OBVIOUS
  <1>1. LimiterTypeOK
    BY DEF LimiterInv, MapInv, TellsInv, LimiterTypeOK
  <1>2. ASSUME NEW k \in Keys, ~told[k].allowed, now >= told[k].retryAt PROVE ~Blocked(k)
    <2> DEFINE ts == StateOf(k).timestamps
    <2>0. now \in Nat /\ Limit \in Nat \ {0} /\ told[k].retryAt \in Nat /\ Window \in Nat
      BY PolicyAssumption DEF LimiterInv, TellsInv, Answer
    <2>1. Times(ts) /\ ts \in Seq(Nat) /\ StateOf(k).blockedUntil \in Nat
      BY StateFound DEF Fits, State
    <2>2. CASE k \in DOMAIN Swept
      <3>1. StateOf(k) = states[k] /\ k \in DOMAIN states
        BY <2>2, StateFound
      <3>2. /\ StateOf(k).blockedUntil <= told[k].retryAt
            /\ \A i \in 1..Len(ts) : ts[i] + Window <= told[k].retryAt
        BY <1>2, <3>1 DEF LimiterInv, TellsInv, Tells
      <3> DEFINE until == StateOf(k).blockedUntil
                 return == told[k].retryAt
      <3>3. until <= return /\ until \in Nat /\ return \in Nat /\ return <= now
            /\ (\A i \in 1..Len(ts) : ts[i] \in Nat /\ ts[i] + Window <= return)
        BY <1>2, <2>0, <2>1, <3>2, TimesAre
      <3> HIDE DEF ts, until, return
      <3>4. ~(until > now) /\ \A i \in 1..Len(ts) : ts[i] + Window <= now
        BY <2>0, <3>3
      <3>5. InWindow(ts, now) = <<>>
        BY <2>0, <2>1, <3>4, AllOver
      <3>6. ~(Len(<<>>) >= Limit)
        BY <2>0, EmptySeq
      <3> QED BY <3>4, <3>5, <3>6 DEF Blocked, ts, until
    <2>3. CASE k \notin DOMAIN Swept
      <3>1. StateOf(k).timestamps = <<>> /\ StateOf(k).blockedUntil = 0
        BY <2>3, StateFound DEF NewState
      <3>2. InWindow(<<>>, now) = <<>> /\ Len(<<>>) = 0
        BY <2>0, NoTimes, EmptySeq
      <3> QED BY <2>0, <3>1, <3>2 DEF Blocked
    <2> QED BY <2>2, <2>3
  <1>3. MapBounded
    BY DEF LimiterInv
  <1> QED BY <1>1, <1>2, <1>3 DEF LimiterSound, RetryAfterIsEnough

\* The map never outgrows its bound, and whoever comes back when told to is let
\* in, for any identities, limit, window and quiet period.
THEOREM LimiterIsSound == LimiterSpec => []LimiterSound
  BY LimiterFirst, LimiterStep, LimiterInvSound, PTL DEF LimiterSpec

-----------------------------------------------------------------------------
(* The limiter implements AttemptGuard.                                    *)

\* What the guard sees of the map.
Recent(f, t) == [k \in Keys |-> IF k \in DOMAIN f THEN InWindow(f[k].timestamps, t) ELSE <<>>]
Quiet(f, t) == [k \in Keys |-> IF k \in DOMAIN f /\ f[k].blockedUntil > t
                               THEN f[k].blockedUntil ELSE 0]

LEMMA SameWindow == \A ts, t : Guard!InWindow(ts, t) = InWindow(ts, t)
  <1>1. \A ts, t : Guard!LeftBehind(ts, t) = LeftBehind(ts, t)
    BY DEF Guard!LeftBehind, LeftBehind
  <1> QED BY <1>1 DEF Guard!InWindow, InWindow

\* What the sweep drops, nobody sees.
LEMMA SweepForgets ==
    ASSUME LimiterInv
    PROVE  Recent(Swept, now) = Recent(states, now) /\ Quiet(Swept, now) = Quiet(states, now)
  <1>0. now \in Nat
    BY PolicyAssumption DEF LimiterInv
  <1>1. ASSUME NEW k \in Keys
        PROVE  /\ Recent(Swept, now)[k] = Recent(states, now)[k]
               /\ Quiet(Swept, now)[k] = Quiet(states, now)[k]
    <2>1. CASE k \in DOMAIN Swept
      <3>1. k \in DOMAIN states /\ Swept[k] = states[k]
        BY <2>1, SweptIs
      <3> QED BY <2>1, <3>1 DEF Recent, Quiet
    <2>2. CASE k \notin DOMAIN Swept /\ k \notin DOMAIN states
      BY <2>2 DEF Recent, Quiet
    <2>3. CASE k \notin DOMAIN Swept /\ k \in DOMAIN states
      <3> DEFINE ts == states[k].timestamps
                 until == states[k].blockedUntil
                 end == states[k].expiresAt
      <3>1. end <= now
        BY <2>3, SweptIs
      <3>2. Times(ts) /\ until \in Nat /\ end \in Nat /\ until <= end
            /\ \A i \in 1..Len(ts) : ts[i] + Window <= end
        BY <2>3 DEF LimiterInv, MapInv, State, Fits
      <3> HIDE DEF ts, until, end
      <3>3. ~(until > now) /\ \A i \in 1..Len(ts) : ts[i] + Window <= now
        BY <1>0, <3>1, <3>2, TimesAre, PolicyAssumption
      <3>4. InWindow(ts, now) = <<>>
        BY <1>0, <3>2, <3>3, AllOver
      <3> QED BY <2>3, <3>3, <3>4 DEF Recent, Quiet, ts, until
    <2> QED BY <2>1, <2>2, <2>3
  <1>2. Recent(Swept, now) = Recent(states, now)
    BY <1>1 DEF Recent
  <1>3. Quiet(Swept, now) = Quiet(states, now)
    BY <1>1 DEF Quiet
  <1> QED BY <1>2, <1>3

\* What an attempt is judged by is what the guard sees.
LEMMA SeenByAttempt ==
    ASSUME LimiterInv, NEW k \in Keys
    PROVE  /\ InWindow(StateOf(k).timestamps, now) = Recent(states, now)[k]
           /\ StateOf(k).blockedUntil \in Nat
           /\ Quiet(states, now)[k] = IF StateOf(k).blockedUntil > now
                                      THEN StateOf(k).blockedUntil ELSE 0
  <1>0. now \in Nat
    BY PolicyAssumption DEF LimiterInv
  <1>1. /\ Recent(Swept, now)[k] = Recent(states, now)[k]
        /\ Quiet(Swept, now)[k] = Quiet(states, now)[k]
    BY SweepForgets
  <1>2. StateOf(k).blockedUntil \in Nat
    BY StateFound DEF State
  <1>3. CASE k \in DOMAIN Swept
    <2>1. StateOf(k) = Swept[k]
      BY <1>3 DEF StateOf
    <2> QED BY <1>1, <1>2, <1>3, <2>1 DEF Recent, Quiet
  <1>4. CASE k \notin DOMAIN Swept
    <2>1. StateOf(k).timestamps = <<>> /\ StateOf(k).blockedUntil = 0 /\ ~(0 > now)
      BY <1>0, <1>4 DEF StateOf, NewState
    <2>2. InWindow(<<>>, now) = <<>>
      BY <1>0, NoTimes
    <2> QED BY <1>1, <1>2, <1>4, <2>1, <2>2 DEF Recent, Quiet
  <1> QED BY <1>3, <1>4

\* The map after an attempt, as the guard sees it: only that identity moved.
LEMMA SeenAfterPut ==
    ASSUME LimiterInv, NEW k \in Keys, NEW s,
           states' = [j \in DOMAIN Swept \cup {k} |-> IF j = k THEN s ELSE Swept[j]],
           InWindow(s.timestamps, now) = s.timestamps
    PROVE  /\ Recent(states', now) = [Recent(states, now) EXCEPT ![k] = s.timestamps]
           /\ Quiet(states', now) = [Quiet(states, now) EXCEPT ![k] =
                 IF s.blockedUntil > now THEN s.blockedUntil ELSE 0]
  <1>1. /\ DOMAIN states' = DOMAIN Swept \cup {k} /\ states'[k] = s
        /\ \A j \in DOMAIN Swept : j # k => states'[j] = Swept[j]
    OBVIOUS
  <1>2. \A j \in Keys : j # k =>
           /\ Recent(states', now)[j] = Recent(Swept, now)[j]
           /\ Quiet(states', now)[j] = Quiet(Swept, now)[j]
    BY <1>1 DEF Recent, Quiet
  <1>3. /\ Recent(states', now)[k] = s.timestamps
        /\ Quiet(states', now)[k] = IF s.blockedUntil > now THEN s.blockedUntil ELSE 0
    BY <1>1 DEF Recent, Quiet
  <1>4. Recent(Swept, now) = Recent(states, now) /\ Quiet(Swept, now) = Quiet(states, now)
    BY SweepForgets
  <1>5. Recent(states', now) = [Recent(states, now) EXCEPT ![k] = s.timestamps]
    BY <1>2, <1>3, <1>4 DEF Recent
  <1>6. Quiet(states', now) = [Quiet(states, now) EXCEPT ![k] =
                 IF s.blockedUntil > now THEN s.blockedUntil ELSE 0]
    BY <1>2, <1>3, <1>4 DEF Quiet
  <1> QED BY <1>5, <1>6

\* What the guard's steps are, in terms of what it sees.
LEMMA GuardSteps ==
    /\ \A k \in Keys :
          /\ Quiet(states, now)[k] = 0 /\ Len(Recent(states, now)[k]) < Limit
          /\ Recent(states', now') = [Recent(states, now) EXCEPT ![k] = Append(@, now)]
          /\ now' = now /\ Quiet(states', now') = Quiet(states, now)
          => Guard!Next
    /\ \A k \in Keys :
          /\ Quiet(states, now)[k] # 0 \/ Len(Recent(states, now)[k]) >= Limit
          /\ Quiet(states', now') = [Quiet(states, now) EXCEPT ![k] = now + Cooldown]
          /\ now' = now /\ Recent(states', now') = Recent(states, now)
          => Guard!Next
  BY DEF Guard!Next, Guard!Admit, Guard!Refuse, Recent, Quiet

LEMMA GuardFirst == LimiterInit => Guard!Init
  <1> SUFFICES ASSUME LimiterInit PROVE Guard!Init
    OBVIOUS
  <1>1. DOMAIN states = {} /\ now = 0
    BY DEF LimiterInit
  <1> QED BY <1>1 DEF Guard!Init

LEMMA GuardTakes == ASSUME LimiterInv, NEW k \in Keys, Take(k)
                    PROVE  [Guard!Next]_(Guard!vars)
  <1> DEFINE kept == InWindow(StateOf(k).timestamps, now)
             until == StateOf(k).blockedUntil
             put(s) == [j \in DOMAIN Swept \cup {k} |-> IF j = k THEN s ELSE Swept[j]]
             blocked == [timestamps |-> kept, blockedUntil |-> now + Cooldown,
                         expiresAt |-> Greater(now + Cooldown, now + Window)]
             admitted == [timestamps |-> Append(kept, now), blockedUntil |-> until,
                          expiresAt |-> now + Window]
  <1>0. /\ now \in Nat /\ now' = now /\ Cooldown \in Nat \ {0} /\ Limit \in Nat
    BY PolicyAssumption DEF LimiterInv, Take
  <1>1. /\ kept = Recent(states, now)[k] /\ until \in Nat
        /\ Quiet(states, now)[k] = IF until > now THEN until ELSE 0
    BY SeenByAttempt
  <1>2. Times(kept) /\ InWindow(kept, now) = kept /\ Len(kept) \in Nat
    <2>1. Times(kept) /\ \A i \in 1..Len(kept) : kept[i] + Window > now
      BY AttemptTimes
    <2> HIDE DEF kept
    <2> QED BY <1>0, <2>1, AllLive, TimesAre
  <1>3. InWindow(Append(kept, now), now) = Append(kept, now)
    <2>1. /\ Times(Append(kept, now)) /\ Len(Append(kept, now)) = Len(kept) + 1
          /\ \A i \in 1..Len(kept) + 1 : Append(kept, now)[i] + Window > now
      BY AttemptTimes
    <2> HIDE DEF kept
    <2> QED BY <1>0, <2>1, AllLive
  <1>4. CASE states' = Swept
    <2>1. Recent(states', now') = Recent(states, now) /\ Quiet(states', now') = Quiet(states, now)
      BY <1>0, <1>4, SweepForgets
    <2> QED BY <1>0, <2>1 DEF Guard!vars, Recent, Quiet
  <1>5. CASE Blocked(k) /\ states' = put(blocked)
    <2>1. blocked.timestamps = kept /\ blocked.blockedUntil = now + Cooldown
      OBVIOUS
    <2>2. now + Cooldown > now /\ (Blocked(k) <=> until > now \/ Len(kept) >= Limit)
      BY <1>0 DEF Blocked
    <2>3. /\ Recent(states', now) = [Recent(states, now) EXCEPT ![k] = kept]
          /\ Quiet(states', now) = [Quiet(states, now) EXCEPT ![k] =
                IF now + Cooldown > now THEN now + Cooldown ELSE 0]
      <3> HIDE DEF blocked, kept
      <3>1. InWindow(blocked.timestamps, now) = blocked.timestamps
        BY <1>2, <2>1
      <3> QED BY <1>5, <2>1, <3>1, SeenAfterPut
    <2>4. Recent(states', now') = Recent(states, now)
      BY <1>0, <1>1, <2>3 DEF Recent
    <2>5. Quiet(states', now') = [Quiet(states, now) EXCEPT ![k] = now + Cooldown]
      BY <1>0, <2>2, <2>3
    <2>6. Quiet(states, now)[k] # 0 \/ Len(Recent(states, now)[k]) >= Limit
      <3> HIDE DEF kept, until
      <3>1. until > now => until # 0
        BY <1>0, <1>1
      <3> QED BY <1>1, <1>5, <2>2, <3>1
    <2> QED BY <1>0, <2>4, <2>5, <2>6, GuardSteps
  <1>6. CASE ~Blocked(k) /\ states' = put(admitted)
    <2>1. admitted.timestamps = Append(kept, now) /\ admitted.blockedUntil = until
      OBVIOUS
    <2>2. ~(until > now) /\ Len(kept) < Limit
      <3>1. ~(until > now) /\ ~(Len(kept) >= Limit)
        BY <1>6 DEF Blocked
      <3> HIDE DEF kept, until
      <3> QED BY <1>0, <1>2, <3>1
    <2>3. /\ Recent(states', now) = [Recent(states, now) EXCEPT ![k] = Append(kept, now)]
          /\ Quiet(states', now) = [Quiet(states, now) EXCEPT ![k] =
                IF until > now THEN until ELSE 0]
      <3> HIDE DEF admitted, kept, until
      <3>1. InWindow(admitted.timestamps, now) = admitted.timestamps
        BY <1>3, <2>1
      <3> QED BY <1>6, <2>1, <3>1, SeenAfterPut
    <2>4. Quiet(states, now)[k] = 0
      BY <1>1, <2>2
    <2>5. Quiet(states', now') = Quiet(states, now)
      BY <1>0, <2>2, <2>3, <2>4 DEF Quiet
    <2>6. Recent(states', now') = [Recent(states, now) EXCEPT ![k] = Append(@, now)]
      BY <1>0, <1>1, <2>3 DEF Recent
    <2>7. Len(Recent(states, now)[k]) < Limit
      BY <1>1, <2>2
    <2> QED BY <1>0, <2>4, <2>5, <2>6, <2>7, GuardSteps
  <1> HIDE DEF kept, until
  <1> QED BY <1>4, <1>5, <1>6 DEF Take, kept, until

LEMMA GuardTicks == ASSUME LimiterInv, Tick PROVE Guard!Next
  <1>0. now < MaxTime /\ now' = now + 1 /\ UNCHANGED states /\ now \in Nat /\ now + 1 \in Nat
        /\ now <= now + 1
    BY PolicyAssumption DEF LimiterInv, Tick
  <1>1. ASSUME NEW k \in Keys
        PROVE  InWindow(Recent(states, now)[k], now + 1) = Recent(states', now')[k]
    <2>1. CASE k \in DOMAIN states
      <3> DEFINE ts == states[k].timestamps
                 then == now + 1
      <3>1. Times(ts)
        BY <2>1 DEF LimiterInv, MapInv, Fits
      <3>2. Recent(states, now)[k] = InWindow(ts, now) /\ Recent(states', now')[k] = InWindow(ts, then)
        BY <1>0, <2>1 DEF Recent
      <3>3. then \in Nat /\ now <= then
        BY <1>0
      <3> HIDE DEF ts, then
      <3>4. InWindow(InWindow(ts, now), then) = InWindow(ts, then)
        BY <1>0, <3>1, <3>3, LookTwice
      <3> QED BY <3>2, <3>4 DEF then
    <2>2. CASE k \notin DOMAIN states
      BY <1>0, <2>2, NoTimes DEF Recent
    <2> QED BY <2>1, <2>2
  <1>2. ASSUME NEW k \in Keys
        PROVE  Quiet(states', now')[k] = IF Quiet(states, now)[k] > now + 1
                                         THEN Quiet(states, now)[k] ELSE 0
    <2>1. CASE k \in DOMAIN states
      <3>1. states[k].blockedUntil \in Nat
        BY <2>1 DEF LimiterInv, MapInv, State
      <3> QED BY <1>0, <2>1, <3>1 DEF Quiet
    <2>2. CASE k \notin DOMAIN states
      BY <1>0, <2>2 DEF Quiet
    <2> QED BY <2>1, <2>2
  <1>3. Recent(states', now') = [k \in Keys |-> InWindow(Recent(states, now)[k], now + 1)]
    BY <1>1 DEF Recent
  <1>4. Quiet(states', now') = [k \in Keys |-> IF Quiet(states, now)[k] > now + 1
                                         THEN Quiet(states, now)[k] ELSE 0]
    BY <1>2 DEF Quiet
  <1>5. Guard!Tick
    BY <1>0, <1>3, <1>4, SameWindow DEF Guard!Tick, Recent, Quiet
  <1> QED BY <1>5 DEF Guard!Next

LEMMA GuardStep == LimiterInv /\ [LimiterNext]_limiterVars => [Guard!Next]_(Guard!vars)
  <1> SUFFICES ASSUME LimiterInv, [LimiterNext]_limiterVars PROVE [Guard!Next]_(Guard!vars)
    OBVIOUS
  <1>1. CASE UNCHANGED limiterVars
    BY <1>1 DEF limiterVars, Guard!vars
  <1> QED BY <1>1, GuardTakes, GuardTicks DEF LimiterNext

\* The limiter with its bounded map and its sweeps is, to every identity it has
\* room for, the one with unbounded memory.
THEOREM ImplementsAttemptGuard == LimiterSpec => GuardSpec
  BY GuardFirst, GuardStep, LimiterFirst, LimiterStep, PTL
  DEF LimiterSpec, GuardSpec, Guard!Spec

-----------------------------------------------------------------------------
(* One request through the chat route.                                     *)

\* What exists at each stage of POST.
StageInv ==
    /\ at \in {"entry", "body"} =>
          ~Finished /\ abortReason = "none" /\ ~aborted /\ response = 0
    /\ at = "entry" => timers = {} /\ ~listening
    /\ at = "body" => timers \subseteq {"body"}
    /\ at \in {"entry", "body", "fetch"} => source = "none" /\ output = "none" /\ answered = 0
    /\ at = "discard" => answered # 0
    /\ at # "done" => output = "none" /\ response = 0
    /\ output = "none" => reader = "none" /\ ~pulling /\ produced = 0 /\ passed = 0
    /\ output # "none" => response = answered /\ source # "none"
    /\ at = "done" /\ output = "none" /\ ~Finished => timers = {} /\ ~listening
    /\ at \in {"fetch", "discard"} /\ Finished => abortReason # "none"

\* An abort is an end, its reason the outcome, and before the first end the
\* stream and the backend's answer are as the stream has them.
EndsInv ==
    /\ aborted => Finished
    /\ abortReason # "none" => aborted /\ outcome = abortReason
    /\ abortReason = "cancelled" => ~browser
    /\ output \in {"closed", "errored", "cancelled"} => Finished
    /\ output = "open" /\ ~Finished => reader = "held"
    /\ ~Finished => source # "cancelled" /\ reader \in {"none", "held"}
    /\ Finished => output # "open"

ProxyInv ==
    /\ ProxyTypeOK /\ StageInv /\ EndsInv
    /\ NothingArmedAfterEnd /\ BackendReleased
    /\ StreamEndsOnce /\ CompleteMeansAll /\ StatusTellsOutcome
    /\ passed <= produced

\* What a request that has not begun, or has ended, owes to nobody.
RestInv ==
    /\ NothingArmedAfterEnd /\ BackendReleased /\ StreamEndsOnce
    /\ CompleteMeansAll /\ StatusTellsOutcome /\ passed <= produced

\* The kinds of value, apart: names, flags and counts.
ProxyKinds ==
    /\ at \in {"entry", "body", "fetch", "discard", "done"}
    /\ response \in {0} \cup RouteStatuses \cup BackendStatuses
    /\ answered \in {0} \cup BackendStatuses
    /\ outcome \in Outcomes \cup {"none"} /\ abortReason \in Reasons \cup {"none"}
    /\ source \in {"none", "open", "ended", "failed", "cancelled"}
    /\ reader \in {"none", "held", "cancelling", "released"}
    /\ output \in {"none", "open", "closed", "errored", "cancelled"}

ProxyFlags ==
    /\ browser \in BOOLEAN /\ listening \in BOOLEAN /\ aborted \in BOOLEAN
    /\ misused \in BOOLEAN /\ pulling \in BOOLEAN
    /\ timers \subseteq Timers

ProxyCounts == produced \in 0..MaxChunks /\ passed \in 0..MaxChunks /\ queued \in 0..1

LEMMA ProxyTypeParts == ProxyKinds' /\ ProxyFlags' /\ ProxyCounts' => ProxyTypeOK'
  BY DEF ProxyKinds, ProxyFlags, ProxyCounts, ProxyTypeOK

\* A flag that stays, or takes a truth value, is a flag.
LEMMA ProxyFlagsMove ==
    ASSUME ProxyTypeOK,
           browser' = browser \/ browser' = FALSE,
           listening' = listening \/ listening' = FALSE \/ listening' \in BOOLEAN,
           aborted' = aborted \/ aborted' = TRUE,
           misused' = misused,
           pulling' = pulling \/ pulling' = FALSE,
           timers' = timers \/ timers' = {} \/ timers' \subseteq Timers
    PROVE  ProxyFlags'
  <1>0. /\ browser \in BOOLEAN /\ listening \in BOOLEAN /\ aborted \in BOOLEAN
        /\ misused \in BOOLEAN /\ pulling \in BOOLEAN /\ timers \subseteq Timers
    BY ZenonT(60) DEF ProxyTypeOK
  <1>1. browser' \in BOOLEAN
    BY <1>0, ZenonT(30)
  <1>2. listening' \in BOOLEAN
    BY <1>0, ZenonT(30)
  <1>3. aborted' \in BOOLEAN
    BY <1>0, ZenonT(30)
  <1>4. misused' \in BOOLEAN
    BY <1>0, ZenonT(30)
  <1>5. pulling' \in BOOLEAN
    BY <1>0, ZenonT(30)
  <1>6. timers' \subseteq Timers
    BY <1>0
  <1> QED BY <1>1, <1>2, <1>3, <1>4, <1>5, <1>6, Zenon DEF ProxyFlags

LEMMA ProxyInvType == ProxyInv => ProxyTypeOK
  BY DEF ProxyInv

LEMMA ProxyFirst == ProxyInit => ProxyInv
  <1> SUFFICES ASSUME ProxyInit PROVE ProxyInv
    OBVIOUS
  <1>1. ProxyTypeOK
    <2>1. produced \in 0..MaxChunks /\ passed \in 0..MaxChunks /\ queued \in 0..1
      BY ChunksAssumption DEF ProxyInit
    <2> QED BY <2>1 DEF ProxyInit, ProxyTypeOK
  <1>2. StageInv /\ EndsInv
    BY DEF ProxyInit, StageInv, EndsInv, Finished
  <1>3. RestInv
    BY DEF ProxyInit, RestInv, NothingArmedAfterEnd, BackendReleased, StreamEndsOnce,
      CompleteMeansAll, StatusTellsOutcome, Finished
  <1> QED BY <1>1, <1>2, <1>3 DEF ProxyInv, RestInv

\* What finish() leaves behind.
LEMMA FinishEnds ==
    ASSUME ProxyTypeOK, NothingArmedAfterEnd, NEW how \in Outcomes, Finish(how)
    PROVE  /\ outcome' \in Outcomes /\ outcome' # "none"
           /\ outcome' = IF Finished THEN outcome ELSE how
           /\ timers' = {} /\ ~listening' /\ listening' \in BOOLEAN
  <1>1. "none" \notin Outcomes
    BY DEF Outcomes, Reasons
  <1>2. CASE Finished
    <2>1. outcome \in Outcomes /\ timers = {} /\ ~listening /\ listening \in BOOLEAN
      BY <1>2 DEF Finished, ProxyTypeOK, NothingArmedAfterEnd
    <2>2. UNCHANGED <<timers, listening, outcome>>
      BY <1>2 DEF Finish, endVars
    <2> QED BY <1>1, <1>2, <2>1, <2>2
  <1>3. CASE ~Finished
    <2>1. outcome' = how /\ timers' = {} /\ listening' = FALSE
      BY <1>3 DEF Finish
    <2> QED BY <1>1, <1>3, <2>1
  <1> QED BY <1>2, <1>3

LEMMA EntryNext == ASSUME ProxyInv, Entry PROVE ProxyInv'
  <1> USE DEF ProxyInv
  <1>0. UNCHANGED streamVars /\ UNCHANGED <<answered, browser>>
    BY DEF Entry, Turned, ReadBody, BodyRefused, BodyRead
  <1>1. CASE Turned
    <2>1. UNCHANGED <<timers, listening, outcome, abortReason, aborted>> /\ at' = "done"
          /\ response' \in {403, 429, 503, 415} /\ at = "entry"
      BY <1>1 DEF Turned, Respond, endVars
    <2>4. response' \in RouteStatuses
      BY <2>1 DEF RouteStatuses
    <2>2. ProxyTypeOK'
      BY <1>0, <2>1, <2>4 DEF ProxyTypeOK, streamVars
    <2>3. StageInv' /\ EndsInv' /\ RestInv'
      BY <1>0, <2>1 DEF StageInv, EndsInv, RestInv, NothingArmedAfterEnd, BackendReleased,
        StreamEndsOnce, CompleteMeansAll, StatusTellsOutcome, Finished, streamVars
    <2> QED BY <2>2, <2>3 DEF RestInv
  <1>2. CASE ReadBody
    <2>1. UNCHANGED <<response, outcome, abortReason, aborted>> /\ at' = "body" /\ at = "entry"
          /\ timers' = {"body"} /\ "body" \in Timers /\ listening' = TRUE
      BY <1>2 DEF ReadBody, Timers
    <2>2. ProxyTypeOK'
      BY <1>0, <2>1 DEF ProxyTypeOK, streamVars
    <2>3. StageInv' /\ EndsInv' /\ RestInv'
      BY <1>0, <2>1 DEF StageInv, EndsInv, RestInv, NothingArmedAfterEnd, BackendReleased,
        StreamEndsOnce, CompleteMeansAll, StatusTellsOutcome, Finished, streamVars
    <2> QED BY <2>2, <2>3 DEF RestInv
  <1>3. CASE BodyRefused
    <2>1. UNCHANGED <<outcome, abortReason, aborted>> /\ at' = "done" /\ at = "body"
          /\ timers' = {} /\ listening' = FALSE
          /\ response' \in {400, 413, 408, 422, 499} /\ (response' = 499 => ~browser)
      BY <1>3 DEF BodyRefused, Respond
    <2>2. ProxyTypeOK'
      <3>1. timers' \subseteq Timers /\ listening' \in BOOLEAN
        BY <2>1
      <3>2. response' \in RouteStatuses
        BY <2>1 DEF RouteStatuses
      <3> QED BY <1>0, <2>1, <3>1, <3>2 DEF ProxyTypeOK, streamVars
    <2>3. StageInv' /\ EndsInv' /\ RestInv'
      BY <1>0, <2>1 DEF StageInv, EndsInv, RestInv, NothingArmedAfterEnd, BackendReleased,
        StreamEndsOnce, CompleteMeansAll, StatusTellsOutcome, Finished, streamVars
    <2> QED BY <2>2, <2>3 DEF RestInv
  <1>4. CASE BodyRead
    <2>1. response' = response /\ at' = "fetch" /\ at = "body" /\ timers' \subseteq Timers
          /\ listening' \in BOOLEAN
          /\ \/ UNCHANGED <<outcome, abortReason, aborted>>
             \/ /\ ~browser /\ outcome' = "cancelled" /\ abortReason' = "cancelled"
                /\ aborted' = TRUE /\ timers' = {} /\ listening' = FALSE
      BY <1>4 DEF BodyRead, Timers
    <2>2. outcome' \in Outcomes \cup {"none"} /\ abortReason' \in Reasons \cup {"none"}
          /\ aborted' \in BOOLEAN
      <3>1. CASE UNCHANGED <<outcome, abortReason, aborted>>
        BY <3>1 DEF ProxyTypeOK
      <3>2. CASE outcome' = "cancelled" /\ abortReason' = "cancelled" /\ aborted' = TRUE
        BY <3>2 DEF Outcomes, Reasons
      <3> QED BY <2>1, <3>1, <3>2
    <2>3. ProxyTypeOK'
      BY <1>0, <2>1, <2>2 DEF ProxyTypeOK, streamVars
    <2>4. StageInv' /\ EndsInv' /\ RestInv'
      BY <1>0, <2>1 DEF StageInv, EndsInv, RestInv, NothingArmedAfterEnd, BackendReleased,
        StreamEndsOnce, CompleteMeansAll, StatusTellsOutcome, Finished, streamVars
    <2> QED BY <2>3, <2>4 DEF RestInv
  <1> QED BY <1>1, <1>2, <1>3, <1>4 DEF Entry

LEMMA FetchNext == ASSUME ProxyInv, Fetch PROVE ProxyInv'
  <1> USE DEF ProxyInv
  <1>1. CASE FetchStreams \/ FetchInvalid
    <2>1. timers' \subseteq Timers
      <3>1. timers' \subseteq timers \cup {"idle"}
        BY <1>1 DEF FetchStreams, FetchInvalid
      <3>2. timers \subseteq Timers /\ "idle" \in Timers
        BY DEF ProxyTypeOK, Timers
      <3> QED BY <3>1, <3>2
    <2>2. ~Finished /\ at = "fetch" /\ response = 0 /\ output = "none"
      BY <1>1 DEF FetchStreams, FetchInvalid, HeadersCome, StageInv, EndsInv, Finished
    <2>3. answered' \in BackendStatuses /\ answered' # 0
      BY <1>1 DEF FetchStreams, FetchInvalid, HeadersCome, BackendStatuses
    <2>4. ProxyTypeOK'
      BY <1>1, <2>1, <2>3
      DEF FetchStreams, FetchInvalid, HeadersCome, PassedOn, Respond, ProxyTypeOK
    <2>5. StageInv' /\ EndsInv' /\ RestInv'
      BY <1>1, <2>2, <2>3
      DEF FetchStreams, FetchInvalid, PassedOn, Respond, StageInv, EndsInv, RestInv,
          NothingArmedAfterEnd, BackendReleased, StreamEndsOnce, CompleteMeansAll,
          StatusTellsOutcome, Finished
    <2> QED BY <2>4, <2>5 DEF RestInv
  <1>2. CASE Discarded
    <2>1. /\ outcome' \in Outcomes /\ outcome' # "none"
          /\ outcome' = IF Finished THEN outcome ELSE "invalid_response"
          /\ timers' = {} /\ ~listening' /\ listening' \in BOOLEAN
      <3>1. "invalid_response" \in Outcomes
        BY DEF Outcomes
      <3> QED BY <1>2, <3>1, FinishEnds DEF Discarded
    <2>2. at = "discard" /\ answered \in BackendStatuses /\ answered # 0 /\ output = "none"
      BY <1>2 DEF Discarded, StageInv, ProxyTypeOK
    <2>3. /\ response' \in RouteStatuses \cup BackendStatuses
          /\ response' # 200 /\ (answered # 200 => response' = answered)
      BY <1>2, <2>2 DEF Discarded, Respond, StatusOfDiscarded, RouteStatuses
    <2>4. outcome' \in Reasons \cup {"invalid_response"}
      BY <2>1, <2>2 DEF StageInv, EndsInv, ProxyTypeOK
    <2>5. /\ at' = "done" /\ source' \in {"none", "ended", "failed", "cancelled"}
          /\ UNCHANGED <<answered, browser, abortReason, aborted, reader, output, pulling,
                         produced, passed, queued, misused>>
      BY <1>2 DEF Discarded, Respond, ProxyTypeOK
    <2>6. outcome' # "completed"
      BY <2>4 DEF Reasons
    <2>t. ProxyTypeOK'
      BY <2>1, <2>3, <2>5 DEF ProxyTypeOK
    <2>s. StageInv'
      BY <2>1, <2>2, <2>5 DEF StageInv, Finished
    <2>e. EndsInv'
      BY <2>1, <2>2, <2>5 DEF StageInv, EndsInv, Finished
    <2>r. RestInv'
      BY <2>1, <2>2, <2>3, <2>4, <2>5, <2>6 DEF RestInv, NothingArmedAfterEnd, BackendReleased,
        StreamEndsOnce, CompleteMeansAll, StatusTellsOutcome, Finished
    <2> QED BY <2>t, <2>s, <2>e, <2>r DEF RestInv
  <1>3. CASE Caught
    <2> DEFINE how == IF abortReason = "none" THEN "unavailable" ELSE abortReason
    <2>1. how \in Outcomes
      BY DEF ProxyTypeOK, Outcomes
    <2>2. /\ outcome' \in Outcomes /\ outcome' # "none"
          /\ outcome' = IF Finished THEN outcome ELSE how
          /\ timers' = {} /\ ~listening' /\ listening' \in BOOLEAN
      BY <1>3, <2>1, FinishEnds DEF Caught
    <2>3. outcome' = how
      BY <1>3, <2>2 DEF Caught, StageInv, EndsInv
    <2>4. /\ response' \in {499, 504, 503} /\ at' = "done"
          /\ response' = 504 => abortReason = "timeout"
          /\ response' = 503 => abortReason = "none"
          /\ response' = 499 => ~browser
      BY <1>3 DEF Caught, Respond, ProxyTypeOK, EndsInv, Reasons
    <2>5. /\ source' \in {"none", "ended", "failed", "cancelled"}
          /\ response' \in RouteStatuses
          /\ UNCHANGED <<answered, browser, abortReason, aborted, reader, output, pulling, produced,
                         passed, queued, misused>>
          /\ output = "none"
      BY <1>3, <2>4 DEF Caught, ProxyTypeOK, StageInv, RouteStatuses
    <2>6. how # "completed"
      BY DEF ProxyTypeOK, Reasons
    <2>t. ProxyTypeOK'
      BY <2>2, <2>3, <2>4, <2>5 DEF ProxyInv, ProxyTypeOK
    <2>s. StageInv'
      BY <2>2, <2>3, <2>4, <2>5 DEF ProxyInv, StageInv, Finished
    <2>e. EndsInv'
      BY <2>2, <2>3, <2>4, <2>5 DEF ProxyInv, EndsInv, Finished
    <2>r. RestInv'
      BY <2>2, <2>3, <2>4, <2>5, <2>6 DEF ProxyInv, RestInv, NothingArmedAfterEnd,
        BackendReleased, StreamEndsOnce, CompleteMeansAll, StatusTellsOutcome, Finished
    <2> QED BY <2>t, <2>s, <2>e, <2>r DEF ProxyInv, RestInv
  <1> QED BY <1>1, <1>2, <1>3 DEF Fetch

\* What abort() does to a request that had not ended.
LEMMA AbortEnds ==
    ASSUME ProxyInv, NEW why \in Reasons, Abort(why), ~Finished
    PROVE  /\ abortReason' = why /\ outcome' = why /\ aborted' = TRUE
           /\ timers' = {} /\ listening' = FALSE
           /\ source' \in {"none", "ended", "failed", "cancelled"}
           /\ reader' \in {"none", "cancelling"} /\ misused' = misused
           /\ output' = IF output = "open" THEN "errored" ELSE output
           /\ source' # "none" \/ source = "none"
           /\ output = "none" => reader' = "none"
           /\ UNCHANGED <<pulling, produced, passed, queued>>
  <1>1. /\ abortReason' = why /\ aborted' = TRUE /\ SourceStops /\ ReaderGoes
        /\ IF output = "none" THEN UNCHANGED <<output, misused>> ELSE OutputGoes("errored")
        /\ Finish(why) /\ UNCHANGED <<pulling, produced, passed, queued>>
    BY DEF Abort
  <1>2. outcome' = why /\ timers' = {} /\ listening' = FALSE
    BY <1>1 DEF Finish
  <1>3. source' \in {"none", "ended", "failed", "cancelled"} /\ (source' # "none" \/ source = "none")
    BY <1>1 DEF SourceStops, ProxyInv, ProxyTypeOK
  <1>4. reader \in {"none", "held"} /\ output \in {"none", "open"}
    BY DEF ProxyInv, ProxyTypeOK, EndsInv
  <1>5. reader' \in {"none", "cancelling"} /\ (output = "none" => reader' = "none")
    BY <1>1, <1>4 DEF ReaderGoes, ProxyInv, StageInv
  <1>6. output' = (IF output = "open" THEN "errored" ELSE output) /\ misused' = misused
    BY <1>1, <1>4 DEF OutputGoes, ProxyInv, StreamEndsOnce, ProxyTypeOK
  <1> QED BY <1>1, <1>2, <1>3, <1>5, <1>6

\* An abort of a request that is past its body.
LEMMA AbortKeeps ==
    ASSUME ProxyInv, NEW why \in Reasons, Abort(why), UNCHANGED <<at, response, answered>>,
           browser' \in BOOLEAN, why = "cancelled" => ~browser', browser' => browser,
           at \notin {"entry", "body"},
           at = "done" /\ output = "none" => Finished
    PROVE  ProxyInv'
  <1>1. CASE Finished
    <2>1. UNCHANGED <<timers, listening, outcome, abortReason, aborted>> /\ UNCHANGED streamVars
      BY <1>1 DEF Abort, endVars
    <2>t. ProxyTypeOK'
      <3>1. ProxyKinds'
        BY <2>1 DEF streamVars, ProxyInv, ProxyTypeOK, ProxyKinds
      <3>2. ProxyFlags'
        BY <2>1, ProxyInvType, ProxyFlagsMove DEF streamVars
      <3>3. ProxyCounts'
        BY <2>1, ChunksAssumption DEF streamVars, ProxyInv, ProxyTypeOK, ProxyCounts
      <3> QED BY <3>1, <3>2, <3>3, ProxyTypeParts
    <2>s. StageInv'
      BY <2>1 DEF streamVars, ProxyInv, StageInv, Finished
    <2>e. EndsInv'
      BY <2>1 DEF streamVars, ProxyInv, EndsInv, Finished
    <2>r. RestInv'
      BY <2>1 DEF streamVars, ProxyInv, RestInv, NothingArmedAfterEnd,
        BackendReleased, StreamEndsOnce, CompleteMeansAll, StatusTellsOutcome, Finished
    <2> QED BY <2>t, <2>s, <2>e, <2>r DEF ProxyInv, RestInv
  <1>2. CASE ~Finished
    <2>1. /\ abortReason' = why /\ outcome' = why /\ aborted' = TRUE
          /\ timers' = {} /\ listening' = FALSE
          /\ source' \in {"none", "ended", "failed", "cancelled"}
          /\ reader' \in {"none", "cancelling"} /\ misused' = misused
          /\ output' = IF output = "open" THEN "errored" ELSE output
          /\ source' # "none" \/ source = "none"
          /\ output = "none" => reader' = "none"
          /\ UNCHANGED <<pulling, produced, passed, queued>>
      BY <1>2, AbortEnds
    <2>2. why \in Outcomes \cup {"none"} /\ why \in Reasons \cup {"none"} /\ why # "none"
          /\ why # "completed"
      BY DEF Outcomes, Reasons
    <2>3. output \in {"none", "open"}
      BY <1>2 DEF ProxyInv, ProxyTypeOK, EndsInv
    <2>4. ProxyTypeOK'
      <3>1. ProxyKinds'
        BY <2>1, <2>2, <2>3 DEF ProxyInv, ProxyTypeOK, ProxyKinds
      <3>2. ProxyFlags'
        BY <2>1, <2>2, <2>3, ProxyInvType, ProxyFlagsMove
      <3>3. ProxyCounts'
        BY <2>1, <2>2, <2>3, ChunksAssumption DEF ProxyInv, ProxyTypeOK, ProxyCounts
      <3> QED BY <3>1, <3>2, <3>3, ProxyTypeParts
    <2>5. source' = "none" => source = "none"
      BY <2>1
    <2>6. at = "fetch" => source' = "none"
      BY <1>2 DEF Abort, SourceStops, ProxyInv, StageInv
    <2>7. output = "open" => at = "done" /\ response = answered
      BY DEF ProxyInv, StageInv
    <2>8. output = "none" => at # "done"
      BY <1>2
    <2>9. at # "done" => response = 0
      BY DEF ProxyInv, StageInv
    <2>10. StageInv'
      BY <2>1, <2>2, <2>3, <2>5, <2>6 DEF ProxyInv, StageInv, Finished
    <2>11. EndsInv'
      BY <2>1, <2>2, <2>3 DEF ProxyInv, EndsInv, Finished
    <2>12. RestInv'
      BY <2>1, <2>2, <2>3, <2>7, <2>8, <2>9
      DEF ProxyInv, RestInv, NothingArmedAfterEnd, BackendReleased, StreamEndsOnce,
          CompleteMeansAll, StatusTellsOutcome, Finished
    <2> QED BY <2>4, <2>10, <2>11, <2>12 DEF ProxyInv, RestInv
  <1> QED BY <1>1, <1>2

LEMMA StreamNext == ASSUME ProxyInv, Stream PROVE ProxyInv'
  <1> USE DEF ProxyInv
  <1>1. CASE Pull
    BY <1>1 DEF Pull, endVars, ProxyTypeOK, StageInv, EndsInv, NothingArmedAfterEnd,
      BackendReleased, StreamEndsOnce, CompleteMeansAll, StatusTellsOutcome, Finished
  <1>2. CASE Reads
    <2>1. UNCHANGED <<at, response, answered, browser, listening, outcome, abortReason, aborted, source,
                      reader, output, produced>>
          /\ pulling' = FALSE /\ pulling /\ passed < produced
      BY <1>2 DEF Reads
    <2>2. CASE Finished
      <3>1. UNCHANGED <<timers, passed, queued, misused>>
        BY <1>2, <2>2 DEF Reads
      <3>t. ProxyTypeOK'
        <4>1. ProxyKinds'
          BY <2>1, <3>1 DEF ProxyInv, ProxyTypeOK, ProxyKinds
        <4>2. ProxyFlags'
          BY <2>1, <3>1, ProxyInvType, ProxyFlagsMove
        <4>3. ProxyCounts'
          BY <2>1, <3>1, ChunksAssumption DEF ProxyInv, ProxyTypeOK, ProxyCounts
        <4> QED BY <4>1, <4>2, <4>3, ProxyTypeParts
      <3>s. StageInv'
        BY <2>1, <3>1 DEF ProxyInv, StageInv, Finished
      <3>e. EndsInv'
        BY <2>1, <3>1 DEF ProxyInv, EndsInv, Finished
      <3>r. RestInv'
        BY <2>1, <3>1 DEF ProxyInv, RestInv, NothingArmedAfterEnd,
          BackendReleased, StreamEndsOnce, CompleteMeansAll, StatusTellsOutcome, Finished
      <3> QED BY <3>t, <3>s, <3>e, <3>r DEF ProxyInv, RestInv
    <2>3. CASE ~Finished
      <3>1. output = "open" /\ at = "done"
        BY <2>1, <2>3 DEF ProxyTypeOK, StageInv, EndsInv
      <3>2. /\ timers' = timers \cup {"idle"} /\ passed' = passed + 1 /\ queued' = 1
            /\ misused' = misused
        BY <1>2, <2>3, <3>1 DEF Reads, ProxyTypeOK, StreamEndsOnce
      <3>3. timers' \subseteq Timers /\ passed' \in 0..MaxChunks /\ passed' <= produced
        <4>1. timers' \subseteq Timers
          BY <3>2 DEF ProxyTypeOK, Timers
        <4>2. passed' \in 0..MaxChunks /\ passed' <= produced
          BY <2>1, <3>2, ChunksAssumption DEF ProxyTypeOK
        <4> QED BY <4>1, <4>2
      <3>t. ProxyTypeOK'
        <4>1. ProxyKinds'
          BY <2>1, <2>3, <3>1, <3>2, <3>3 DEF ProxyInv, ProxyTypeOK, ProxyKinds
        <4>2. ProxyFlags'
          BY <2>1, <2>3, <3>1, <3>2, <3>3, ProxyInvType, ProxyFlagsMove
        <4>3. ProxyCounts'
          BY <2>1, <2>3, <3>1, <3>2, <3>3, ChunksAssumption DEF ProxyInv, ProxyTypeOK, ProxyCounts
        <4> QED BY <4>1, <4>2, <4>3, ProxyTypeParts
      <3>s. StageInv'
        BY <2>1, <2>3, <3>1, <3>2, <3>3 DEF ProxyInv, StageInv, Finished
      <3>e. EndsInv'
        BY <2>1, <2>3, <3>1, <3>2, <3>3 DEF ProxyInv, EndsInv, Finished
      <3>r. RestInv'
        BY <2>1, <2>3, <3>1, <3>2, <3>3 DEF ProxyInv, RestInv, NothingArmedAfterEnd,
          BackendReleased, StreamEndsOnce, CompleteMeansAll, StatusTellsOutcome, Finished
      <3> QED BY <3>t, <3>s, <3>e, <3>r DEF ProxyInv, RestInv
    <2> QED BY <2>2, <2>3
  <1>3. CASE ReadsEnd
    <2>0. "completed" \in Outcomes
      BY DEF Outcomes
    <2>1. /\ outcome' \in Outcomes /\ outcome' # "none"
          /\ outcome' = IF Finished THEN outcome ELSE "completed"
          /\ timers' = {} /\ ~listening' /\ listening' \in BOOLEAN
      BY <1>3, <2>0, FinishEnds DEF ReadsEnd
    <2>2. UNCHANGED <<at, response, answered, browser, abortReason, aborted, source, produced, passed, queued>>
          /\ pulling' = FALSE /\ output # "none"
      BY <1>3 DEF ReadsEnd, StageInv
    <2>3. CASE Finished
      <3>1. UNCHANGED <<reader, output, misused>>
        BY <1>3, <2>3 DEF ReadsEnd
      <3>t. ProxyTypeOK'
        <4>1. ProxyKinds'
          BY <2>1, <2>2, <2>3, <3>1 DEF ProxyInv, ProxyTypeOK, ProxyKinds
        <4>2. ProxyFlags'
          BY <2>1, <2>2, <2>3, <3>1, ProxyInvType, ProxyFlagsMove
        <4>3. ProxyCounts'
          BY <2>1, <2>2, <2>3, <3>1, ChunksAssumption DEF ProxyInv, ProxyTypeOK, ProxyCounts
        <4> QED BY <4>1, <4>2, <4>3, ProxyTypeParts
      <3>s. StageInv'
        BY <2>1, <2>2, <2>3, <3>1 DEF ProxyInv, StageInv, Finished
      <3>e. EndsInv'
        BY <2>1, <2>2, <2>3, <3>1 DEF ProxyInv, EndsInv, Finished
      <3>r. RestInv'
        BY <2>1, <2>2, <2>3, <3>1 DEF ProxyInv, RestInv, NothingArmedAfterEnd,
          BackendReleased, StreamEndsOnce, CompleteMeansAll, StatusTellsOutcome, Finished
      <3> QED BY <3>t, <3>s, <3>e, <3>r DEF ProxyInv, RestInv
    <2>4. CASE ~Finished
      <3>1. output = "open" /\ source = "ended" /\ passed = produced /\ response = answered
        BY <1>3, <2>2, <2>4 DEF ReadsEnd, ProxyTypeOK, StageInv, EndsInv
      <3>2. output' = "closed" /\ reader' = "released" /\ misused' = misused
        BY <1>3, <2>4, <3>1 DEF ReadsEnd, OutputGoes, ProxyTypeOK, StreamEndsOnce
      <3>t. ProxyTypeOK'
        <4>1. ProxyKinds'
          BY <2>1, <2>2, <2>4, <3>1, <3>2 DEF ProxyInv, ProxyTypeOK, ProxyKinds
        <4>2. ProxyFlags'
          BY <2>1, <2>2, <2>4, <3>1, <3>2, ProxyInvType, ProxyFlagsMove
        <4>3. ProxyCounts'
          BY <2>1, <2>2, <2>4, <3>1, <3>2, ChunksAssumption DEF ProxyInv, ProxyTypeOK, ProxyCounts
        <4> QED BY <4>1, <4>2, <4>3, ProxyTypeParts
      <3>s. StageInv'
        BY <2>1, <2>2, <2>4, <3>1, <3>2 DEF ProxyInv, StageInv, Finished
      <3>e. EndsInv'
        BY <2>1, <2>2, <2>4, <3>1, <3>2 DEF ProxyInv, EndsInv, Finished
      <3>r. RestInv'
        BY <2>1, <2>2, <2>4, <3>1, <3>2 DEF ProxyInv, RestInv, NothingArmedAfterEnd,
          BackendReleased, StreamEndsOnce, CompleteMeansAll, StatusTellsOutcome, Finished
      <3> QED BY <3>t, <3>s, <3>e, <3>r DEF ProxyInv, RestInv
    <2> QED BY <2>3, <2>4
  <1>4. CASE ReadFails
    <2>1. UNCHANGED <<at, response, answered, browser, abortReason, source, produced, passed, queued>>
          /\ pulling' = FALSE /\ output # "none" /\ source \in {"failed", "cancelled"}
      BY <1>4 DEF ReadFails, StageInv
    <2>2. CASE Finished
      <3>1. UNCHANGED <<timers, listening, outcome, aborted, reader, output, misused>>
        BY <1>4, <2>2 DEF ReadFails, endVars
      <3>t. ProxyTypeOK'
        <4>1. ProxyKinds'
          BY <2>1, <2>2, <3>1 DEF ProxyInv, ProxyTypeOK, ProxyKinds
        <4>2. ProxyFlags'
          BY <2>1, <2>2, <3>1, ProxyInvType, ProxyFlagsMove
        <4>3. ProxyCounts'
          BY <2>1, <2>2, <3>1, ChunksAssumption DEF ProxyInv, ProxyTypeOK, ProxyCounts
        <4> QED BY <4>1, <4>2, <4>3, ProxyTypeParts
      <3>s. StageInv'
        BY <2>1, <2>2, <3>1 DEF ProxyInv, StageInv, Finished
      <3>e. EndsInv'
        BY <2>1, <2>2, <3>1 DEF ProxyInv, EndsInv, Finished
      <3>r. RestInv'
        BY <2>1, <2>2, <3>1 DEF ProxyInv, RestInv, NothingArmedAfterEnd,
          BackendReleased, StreamEndsOnce, CompleteMeansAll, StatusTellsOutcome, Finished
      <3> QED BY <3>t, <3>s, <3>e, <3>r DEF ProxyInv, RestInv
    <2>3. CASE ~Finished
      <3>1. output = "open" /\ reader = "held" /\ response = answered /\ at = "done"
            /\ abortReason = "none"
        BY <2>1, <2>3 DEF ProxyTypeOK, StageInv, EndsInv, Finished
      <3>2. /\ output' = "errored" /\ reader' = "cancelling" /\ misused' = misused
            /\ aborted' = TRUE /\ outcome' = "upstream_error" /\ timers' = {}
            /\ listening' = FALSE
        BY <1>4, <2>3, <3>1
        DEF ReadFails, OutputGoes, ReaderGoes, Finish, ProxyTypeOK, StreamEndsOnce
      <3>3. "upstream_error" \in Outcomes
        BY DEF Outcomes
      <3>t. ProxyTypeOK'
        <4>1. ProxyKinds'
          BY <2>1, <2>3, <3>1, <3>2, <3>3 DEF ProxyInv, ProxyTypeOK, ProxyKinds
        <4>2. ProxyFlags'
          BY <2>1, <2>3, <3>1, <3>2, <3>3, ProxyInvType, ProxyFlagsMove
        <4>3. ProxyCounts'
          BY <2>1, <2>3, <3>1, <3>2, <3>3, ChunksAssumption DEF ProxyInv, ProxyTypeOK, ProxyCounts
        <4> QED BY <4>1, <4>2, <4>3, ProxyTypeParts
      <3>s. StageInv'
        BY <2>1, <2>3, <3>1, <3>2, <3>3 DEF ProxyInv, StageInv, Finished
      <3>e. EndsInv'
        BY <2>1, <2>3, <3>1, <3>2, <3>3 DEF ProxyInv, EndsInv, Finished
      <3>r. RestInv'
        BY <2>1, <2>3, <3>1, <3>2, <3>3 DEF ProxyInv, RestInv, NothingArmedAfterEnd,
          BackendReleased, StreamEndsOnce, CompleteMeansAll, StatusTellsOutcome, Finished
      <3> QED BY <3>t, <3>s, <3>e, <3>r DEF ProxyInv, RestInv
    <2> QED BY <2>2, <2>3
  <1>5. CASE CancelSettles
    BY <1>5 DEF CancelSettles, endVars, ProxyTypeOK, StageInv, EndsInv, NothingArmedAfterEnd,
      BackendReleased, StreamEndsOnce, CompleteMeansAll, StatusTellsOutcome, Finished
  <1> QED BY <1>1, <1>2, <1>3, <1>4, <1>5 DEF Stream

LEMMA OutsideNext == ASSUME ProxyInv, Outside PROVE ProxyInv'
  <1>1. CASE Produce \/ SourceEnds \/ Consume
    <2>1. /\ produced' \in 0..MaxChunks /\ passed <= produced' /\ queued' \in 0..1
          /\ source' \in {"none", "open", "ended", "failed", "cancelled"}
      <3>1. produced' \in 0..MaxChunks /\ passed <= produced' /\ queued' \in 0..1
        BY <1>1, ChunksAssumption DEF Produce, SourceEnds, Consume, ProxyInv, ProxyTypeOK
      <3>2. source' \in {"none", "open", "ended", "failed", "cancelled"}
        BY <1>1 DEF Produce, SourceEnds, Consume, ProxyInv, ProxyTypeOK
      <3> QED BY <3>1, <3>2
    <2>2. /\ source = "open" => ~Finished /\ (source' \in {"open", "ended", "failed"})
          /\ source # "open" => source' = source /\ produced' = produced
          /\ output = "none" => source' = source /\ produced' = produced
          /\ UNCHANGED <<at, response, answered, browser, timers, listening, outcome, abortReason,
                         aborted, reader, output, pulling, passed, misused>>
      BY <1>1 DEF Produce, SourceEnds, Consume, ProxyInv, BackendReleased, endVars
    <2>t. ProxyTypeOK'
      BY <2>1, <2>2 DEF ProxyInv, ProxyTypeOK
    <2>s. StageInv'
      BY <2>1, <2>2 DEF ProxyInv, StageInv, Finished
    <2>e. EndsInv'
      BY <2>1, <2>2 DEF ProxyInv, EndsInv, Finished
    <2>r. RestInv'
      BY <2>1, <2>2 DEF ProxyInv, RestInv, NothingArmedAfterEnd,
        BackendReleased, StreamEndsOnce, CompleteMeansAll, StatusTellsOutcome, Finished
    <2> QED BY <2>t, <2>s, <2>e, <2>r DEF ProxyInv, RestInv
  <1>2. CASE ConsumerCancels
    <2>1. ~Finished /\ output = "open" /\ at = "done" /\ response = answered /\ reader = "held"
          /\ abortReason = "none" /\ source # "none"
      BY <1>2 DEF ConsumerCancels, ProxyInv, StageInv, EndsInv
    <2>2. /\ output' = "cancelled" /\ aborted' = TRUE /\ outcome' = "cancelled"
          /\ timers' = {} /\ listening' = FALSE /\ reader' = "cancelling"
          /\ source' \in {"ended", "failed", "cancelled"}
          /\ UNCHANGED <<at, response, answered, browser, abortReason, pulling, produced, passed,
                         queued, misused>>
      BY <1>2, <2>1 DEF ConsumerCancels, Finish, SourceStops, ReaderGoes, ProxyInv, ProxyTypeOK
    <2>3. "cancelled" \in Outcomes
      BY DEF Outcomes, Reasons
    <2>t. ProxyTypeOK'
      <3>1. ProxyKinds'
        BY <2>1, <2>2, <2>3 DEF ProxyInv, ProxyTypeOK, ProxyKinds
      <3>2. ProxyFlags'
        BY <2>1, <2>2, <2>3, ProxyInvType, ProxyFlagsMove
      <3>3. ProxyCounts'
        BY <2>1, <2>2, <2>3, ChunksAssumption DEF ProxyInv, ProxyTypeOK, ProxyCounts
      <3> QED BY <3>1, <3>2, <3>3, ProxyTypeParts
    <2>s. StageInv'
      BY <2>1, <2>2, <2>3 DEF ProxyInv, StageInv, Finished
    <2>e. EndsInv'
      BY <2>1, <2>2, <2>3 DEF ProxyInv, EndsInv, Finished
    <2>r. RestInv'
      BY <2>1, <2>2, <2>3 DEF ProxyInv, RestInv, NothingArmedAfterEnd,
        BackendReleased, StreamEndsOnce, CompleteMeansAll, StatusTellsOutcome, Finished
    <2> QED BY <2>t, <2>s, <2>e, <2>r DEF ProxyInv, RestInv
  <1>3. CASE BrowserLeaves
    <2>1. browser' = FALSE /\ UNCHANGED <<at, response, answered>>
      BY <1>3 DEF BrowserLeaves
    <2>2. CASE listening /\ at # "body"
      <3>1. at \notin {"entry", "body"} /\ (at = "done" /\ output = "none" => Finished)
        BY <2>2 DEF ProxyInv, StageInv
      <3>2. Abort("cancelled") /\ "cancelled" \in Reasons
        BY <1>3, <2>2 DEF BrowserLeaves, Reasons
      <3> QED BY <2>1, <3>1, <3>2, AbortKeeps
    <2>3. CASE ~(listening /\ at # "body")
      <3>1. UNCHANGED <<timers, listening, outcome, abortReason, aborted>> /\ UNCHANGED streamVars
        BY <1>3, <2>3 DEF BrowserLeaves, endVars
      <3>t. ProxyTypeOK'
        <4>1. ProxyKinds'
          BY <2>1, <3>1 DEF streamVars, ProxyInv, ProxyTypeOK, ProxyKinds
        <4>2. ProxyFlags'
          BY <2>1, <3>1, ProxyInvType, ProxyFlagsMove DEF streamVars
        <4>3. ProxyCounts'
          BY <2>1, <3>1, ChunksAssumption DEF streamVars, ProxyInv, ProxyTypeOK, ProxyCounts
        <4> QED BY <4>1, <4>2, <4>3, ProxyTypeParts
      <3>s. StageInv'
        BY <2>1, <3>1 DEF streamVars, ProxyInv, StageInv, Finished
      <3>e. EndsInv'
        BY <2>1, <3>1 DEF streamVars, ProxyInv, EndsInv, Finished
      <3>r. RestInv'
        BY <2>1, <3>1 DEF streamVars, ProxyInv, RestInv, NothingArmedAfterEnd,
          BackendReleased, StreamEndsOnce, CompleteMeansAll, StatusTellsOutcome, Finished
      <3> QED BY <3>t, <3>s, <3>e, <3>r DEF ProxyInv, RestInv
    <2> QED BY <2>2, <2>3
  <1> QED BY <1>1, <1>2, <1>3 DEF Outside

\* The body's own timer is no step here: it is one way BodyRefused happens.
LEMMA TimerNext == ASSUME ProxyInv, TimerFires PROVE ProxyInv'
  <1>1. PICK t \in timers \ {"body"} :
           IF Finished
           THEN /\ timers' = timers \ {t}
                /\ UNCHANGED <<listening, outcome, abortReason, aborted, streamVars>>
           ELSE Abort("timeout")
    BY DEF TimerFires
  <1>2. ~Finished /\ UNCHANGED <<at, response, answered, browser>>
    BY <1>1 DEF TimerFires, ProxyInv, NothingArmedAfterEnd
  <1>3. Abort("timeout") /\ "timeout" \in Reasons
    BY <1>1, <1>2 DEF Reasons
  <1>4. at \notin {"entry", "body"} /\ ~(at = "done" /\ output = "none")
    BY <1>1, <1>2 DEF ProxyInv, StageInv
  <1> QED BY <1>2, <1>3, <1>4, AbortKeeps DEF ProxyInv, ProxyTypeOK

LEMMA ProxyStep == ProxyInv /\ [ProxyNext]_proxyVars => ProxyInv'
  <1> SUFFICES ASSUME ProxyInv, [ProxyNext]_proxyVars PROVE ProxyInv'
    OBVIOUS
  <1>1. CASE UNCHANGED proxyVars
    BY <1>1 DEF proxyVars, endVars, streamVars, ProxyInv, ProxyTypeOK, StageInv, EndsInv,
      NothingArmedAfterEnd, BackendReleased, StreamEndsOnce, CompleteMeansAll,
      StatusTellsOutcome, Finished
  <1> QED BY <1>1, EntryNext, FetchNext, StreamNext, OutsideNext, TimerNext DEF ProxyNext

LEMMA ProxyInvSound == ProxyInv => ProxySound
  BY DEF ProxyInv, ProxySound

\* Every order in which the backend, the browser, the consumer and the timers
\* may end a request, for a response of any length: it ends once, nothing stays
\* armed or running, a complete stream is whole and the status is true.
THEOREM ProxyIsSound == ProxySpec => []ProxySound
  BY ProxyInvSound, ProxyFirst, ProxyStep, PTL DEF ProxySpec

-----------------------------------------------------------------------------
(* The music player.                                                       *)

\* A revision is counted among the loads; a report carries the key of an iframe
\* that was there, so one that is opening has none yet, unless it is the key
\* itself that came back.
PlayerInv ==
    /\ PlayerTypeOK
    /\ revision <= loads
    /\ frame = "none" <=> current = None
    /\ frame = "open" => progress = [key |-> PlayerKey, status |-> "loaded"]
    /\ SlotIsMounted

LEMMA KeysMove ==
    ASSUME PlayerTypeOK
    PROVE  PlayerKey \in PlayerKeys /\ (PlayerKey = NoKey <=> current = None)
  BY ItemsAssumption DEF PlayerTypeOK, PlayerKeys, PlayerKey, NoKey, None

LEMMA PlayerFirst == PlayerInit => PlayerInv
  <1>1. ASSUME PlayerInit PROVE slowTimer \in BOOLEAN
    BY <1>1 DEF PlayerInit
  <1>2. ASSUME PlayerInit PROVE progress \in [key: PlayerKeys, status: {"idle", "loaded", "slow"}]
    BY <1>2 DEF PlayerInit, PlayerKeys
  <1>3. ASSUME PlayerInit
        PROVE  /\ 0 \in 0..MaxLoads /\ revision = 0 /\ loads = 0 /\ current = None
               /\ frame = "none" /\ mounted = {} /\ slot = None /\ revision <= loads
    BY <1>3, ItemsAssumption DEF PlayerInit
  <1> QED BY <1>1, <1>2, <1>3, Zenon DEF PlayerInv, PlayerTypeOK, SlotIsMounted

\* Replacing the iframe keeps what is known of it.
LEMMA MountsKeep ==
    ASSUME PlayerInv, Mounts, UNCHANGED <<progress, mounted, slot>>,
           current' \in Items \cup {None}, revision' \in 0..MaxLoads, loads' \in 0..MaxLoads,
           revision' <= loads'
    PROVE  PlayerInv'
  <1>1. PlayerKey' = NoKey <=> current' = None
    BY ItemsAssumption DEF PlayerKey, NoKey, None
  <1>2. PlayerKey = NoKey <=> current = None
    BY KeysMove DEF PlayerInv
  <1>3. /\ frame' \in {"none", "opening", "open"}
        /\ slowTimer' = slowTimer \/ slowTimer' = FALSE \/ slowTimer' = TRUE
        /\ frame' = "none" <=> current' = None
        /\ frame' = "open" => frame = "open" /\ PlayerKey' = PlayerKey
    <2>1. CASE PlayerKey' = PlayerKey
      BY <1>1, <1>2, <2>1 DEF Mounts, PlayerInv, PlayerTypeOK
    <2>2. CASE PlayerKey' # PlayerKey
      BY <2>2 DEF Mounts
    <2> QED BY <2>1, <2>2
  <1>4. slowTimer' \in BOOLEAN
    BY <1>3, Zenon DEF PlayerInv, PlayerTypeOK
  <1>5. PlayerTypeOK'
    BY <1>3, <1>4 DEF PlayerInv, PlayerTypeOK, PlayerKeys
  <1> QED BY <1>3, <1>5 DEF PlayerInv, SlotIsMounted

LEMMA PlayerStep == PlayerInv /\ [PlayerNext]_playerVars => PlayerInv'
  <1> SUFFICES ASSUME PlayerInv, [PlayerNext]_playerVars PROVE PlayerInv'
    OBVIOUS
  <1> USE ItemsAssumption
  <1>1. ASSUME NEW i \in Items, Load(i) PROVE PlayerInv'
    BY <1>1, MountsKeep DEF Load, Counted, PlayerInv, PlayerTypeOK
  <1>2. CASE Stop \/ ReloadPlayer
    <2>1. /\ Mounts /\ UNCHANGED <<progress, mounted, slot>>
          /\ loads < MaxLoads /\ loads' = loads + 1 /\ revision' = revision + 1
          /\ current' \in {None, current}
      BY <1>2 DEF Stop, ReloadPlayer, Counted
    <2>2. /\ current' \in Items \cup {None} /\ revision' \in 0..MaxLoads
          /\ loads' \in 0..MaxLoads /\ revision' <= loads'
      BY <2>1 DEF PlayerInv, PlayerTypeOK
    <2> QED BY <2>1, <2>2, MountsKeep
  <1>3. CASE PlayerLoaded \/ SlowTimer
    <2>1. /\ PlayerKey \in PlayerKeys /\ PlayerKey' = PlayerKey
          /\ UNCHANGED <<current, revision, mounted, slot, loads>>
      BY <1>3, KeysMove DEF PlayerLoaded, SlowTimer, PlayerInv, PlayerKey
    <2>2. slowTimer' \in BOOLEAN
      BY <1>3, Zenon DEF PlayerLoaded, SlowTimer, PlayerInv, PlayerTypeOK
    <2>3. /\ progress' \in [key: PlayerKeys, status: {"idle", "loaded", "slow"}]
          /\ frame' \in {"none", "opening", "open"}
          /\ frame' = "none" <=> frame = "none"
          /\ frame' = "open" => progress' = [key |-> PlayerKey, status |-> "loaded"]
      BY <1>3, <2>1 DEF PlayerLoaded, SlowTimer, PlayerInv, PlayerTypeOK
    <2>4. PlayerTypeOK'
      BY <2>1, <2>2, <2>3 DEF PlayerInv, PlayerTypeOK, PlayerKeys
    <2> QED BY <2>1, <2>3, <2>4 DEF PlayerInv, SlotIsMounted
  <1>4. ASSUME NEW s \in Slots, RegisterSlot(s) \/ UnregisterSlot(s) PROVE PlayerInv'
    <2>1. UNCHANGED <<current, revision, progress, frame, slowTimer, loads>>
      BY <1>4 DEF RegisterSlot, UnregisterSlot
    <2>2. /\ mounted' \subseteq Slots /\ slot' \in Slots \cup {None}
          /\ slot' # None => slot' \in mounted'
      BY <1>4 DEF RegisterSlot, UnregisterSlot, PlayerInv, PlayerTypeOK, SlotIsMounted
    <2> QED BY <2>1, <2>2 DEF PlayerInv, PlayerTypeOK, SlotIsMounted, PlayerKey, PlayerKeys
  <1>5. CASE UNCHANGED playerVars
    BY <1>5 DEF playerVars, PlayerInv, PlayerTypeOK, SlotIsMounted, PlayerKey, PlayerKeys
  <1> QED BY <1>1, <1>2, <1>3, <1>4, <1>5 DEF PlayerNext

LEMMA PlayerInvSound == PlayerInv => PlayerSound
  <1> SUFFICES ASSUME PlayerInv PROVE PlayerSound
    OBVIOUS
  <1>1. LoadedIsNotSlow
    BY DEF PlayerInv, LoadedIsNotSlow, Status
  <1> QED BY <1>1 DEF PlayerInv, PlayerSound

\* The newest place keeps the player in every step.
LEMMA KeepsSlot == [PlayerNext]_playerVars =>
    [\A s \in Slots : slot = s /\ s \in mounted' => slot' # None]_playerVars
  <1> SUFFICES ASSUME [PlayerNext]_playerVars, NEW s \in Slots, slot = s, s \in mounted'
               PROVE  slot' # None
    BY DEF playerVars
  <1> USE ItemsAssumption
  <1>1. ASSUME NEW t \in Slots, RegisterSlot(t) \/ UnregisterSlot(t) PROVE slot' # None
    BY <1>1 DEF RegisterSlot, UnregisterSlot
  <1>2. CASE slot' = slot
    BY <1>2
  <1> QED BY <1>1, <1>2
      DEF PlayerNext, Load, Stop, ReloadPlayer, PlayerLoaded, SlowTimer, playerVars

\* The player, for any number of items, places and loads.
THEOREM PlayerIsSound == PlayerSpec => []PlayerSound
  BY PlayerFirst, PlayerStep, PlayerInvSound, PTL DEF PlayerSpec

\* Whatever registers and leaves, the newest place that is there keeps the
\* player.
THEOREM SlotIsKept == PlayerSpec => NewestKeepsSlot
  BY KeepsSlot, PTL DEF PlayerSpec, NewestKeepsSlot

-----------------------------------------------------------------------------
(* The panorama.                                                           *)

\* The flags of the panorama, and where its start and its loads wait.
PanoramaFlags ==
    {modest, visible, posterReady, requested, started, ready, gaveUp, limit,
     bitmap, painted, leaked} \subseteq BOOLEAN
PanoramaWaits ==
    /\ loadChain \in {"none", "fonts", "idle"}
    /\ loader \in {"none", "fetch", "decode", "decoded"}
    /\ deadLoads \subseteq {"fetch", "decode"}
PanoramaCounts == attempt \in 0..MaxAttempts /\ toggles \in 0..MaxToggles

\* What is loaded, decoded or painted belongs to the component that is mounted.
MountedOnly ==
    /\ loader # "none" => IsMounted
    /\ painted => IsMounted

PanoramaInv ==
    /\ PanoramaFlags /\ PanoramaWaits /\ PanoramaCounts
    /\ MountedOnly /\ ReadyMeansPainted /\ ImagesReleased /\ NoIdleStart

LEMMA PanoramaFirst == PanoramaInit => PanoramaInv
  <1> SUFFICES ASSUME PanoramaInit PROVE PanoramaInv
    OBVIOUS
  <1>1. PanoramaFlags
    BY DEF PanoramaInit, PanoramaFlags
  <1>2. PanoramaCounts
    BY PanoramaAssumption DEF PanoramaInit, PanoramaCounts
  <1> QED BY <1>1, <1>2 DEF PanoramaInit, PanoramaInv, PanoramaWaits, MountedOnly, IsMounted,
        ReadyMeansPainted, ImagesReleased, NoIdleStart

\* The chain that starts, after any change of what it looks at.
LEMMA StartKeeps ==
    ASSUME PanoramaInv, StartEffect
    PROVE  NoIdleStart' /\ loadChain' \in {"none", "fonts", "idle"}
  <1>1. CASE StartDeps' = StartDeps
    <2>1. UNCHANGED <<loadChain, started, posterReady, visible, modest, requested>>
      BY <1>1 DEF StartEffect, StartDeps
    <2> QED BY <2>1 DEF PanoramaInv, PanoramaWaits, NoIdleStart, StartWanted
  <1>2. CASE StartDeps' # StartDeps
    BY <1>2 DEF StartEffect, NoIdleStart
  <1> QED BY <1>1, <1>2

\* Mounting, unmounting and mounting anew leave nothing behind.
LEMMA MountKeeps ==
    ASSUME PanoramaInv, MountEffect
    PROVE  /\ MountedOnly' /\ ImagesReleased'
           /\ {bitmap', painted', leaked'} \subseteq BOOLEAN
           /\ loader' \in {"none", "fetch", "decode", "decoded"}
           /\ deadLoads' \subseteq {"fetch", "decode"}
           /\ painted' => painted /\ IsMounted /\ IsMounted' /\ attempt' = attempt
           /\ painted /\ IsMounted' /\ attempt' = attempt => painted'
  <1> USE DEF PanoramaInv, PanoramaFlags, PanoramaWaits, MountedOnly, ImagesReleased
  <1>1. CASE IsMounted /\ (~IsMounted' \/ attempt' # attempt)
    <2>1. Unmounts /\ loader' = (IF IsMounted' THEN "fetch" ELSE "none") /\ UNCHANGED leaked
      BY <1>1 DEF MountEffect
    <2> QED BY <1>1, <2>1 DEF Unmounts
  <1>2. CASE ~IsMounted /\ IsMounted'
    <2>1. loader' = "fetch" /\ UNCHANGED <<deadLoads, bitmap, painted, leaked>>
      BY <1>2 DEF MountEffect
    <2> QED BY <1>2, <2>1
  <1>3. CASE IsMounted /\ IsMounted' /\ attempt' = attempt
    <2>1. UNCHANGED loadVars
      BY <1>3 DEF MountEffect
    <2> QED BY <1>3, <2>1 DEF loadVars
  <1>4. CASE ~IsMounted /\ ~IsMounted'
    <2>1. UNCHANGED loadVars
      BY <1>4 DEF MountEffect
    <2> QED BY <1>4, <2>1 DEF loadVars
  <1> QED BY <1>1, <1>2, <1>3, <1>4

\* A step of the page with its effects.
LEMMA EffectsKeep ==
    ASSUME PanoramaInv, Effects, PanoramaCounts',
           {modest', visible', posterReady', requested', started', ready', gaveUp'}
              \subseteq BOOLEAN,
           ready' <=> ready /\ IsMounted' /\ attempt' = attempt
    PROVE  PanoramaInv'
  <1>1. NoIdleStart' /\ loadChain' \in {"none", "fonts", "idle"}
    BY StartKeeps DEF Effects
  <1>2. limit' \in BOOLEAN
    BY DEF Effects, LimitEffect
  <1>3. PanoramaFlags'
    BY <1>2, MountKeeps DEF Effects, PanoramaFlags
  <1>4. ReadyMeansPainted'
    BY MountKeeps DEF Effects, PanoramaInv, ReadyMeansPainted
  <1> QED BY <1>1, <1>3, <1>4, MountKeeps DEF Effects, PanoramaInv, PanoramaWaits

LEMMA PanoramaStep == PanoramaInv /\ [PanoramaNext]_panoramaVars => PanoramaInv'
  <1> SUFFICES ASSUME PanoramaInv, [PanoramaNext]_panoramaVars PROVE PanoramaInv'
    OBVIOUS
  <1>0. /\ {modest, visible, posterReady, requested, started, ready, gaveUp} \subseteq BOOLEAN
        /\ ready => IsMounted
    BY DEF PanoramaInv, PanoramaFlags, ReadyMeansPainted
  <1>c. /\ toggles < MaxToggles /\ toggles' = toggles + 1 /\ UNCHANGED attempt => PanoramaCounts'
        /\ attempt < MaxAttempts /\ attempt' = attempt + 1 /\ UNCHANGED toggles
              => PanoramaCounts' /\ attempt' # attempt
        /\ UNCHANGED <<attempt, toggles>> => PanoramaCounts'
    BY PanoramaAssumption DEF PanoramaInv, PanoramaCounts
  <1>1. CASE VisibilityTurns \/ PreferencesTurn \/ PosterLoaded \/ PosterTouched
    <2>1. /\ Effects /\ PanoramaCounts' /\ UNCHANGED <<started, ready, gaveUp, attempt>>
      BY <1>1, <1>c DEF VisibilityTurns, PreferencesTurn, PosterLoaded, PosterTouched
    <2>2. {modest', visible', posterReady', requested'} \subseteq BOOLEAN
      BY <1>1, <1>0 DEF VisibilityTurns, PreferencesTurn, PosterLoaded, PosterTouched
    <2>3. IsMounted' <=> IsMounted
      BY <2>1 DEF IsMounted
    <2> QED BY <1>0, <2>1, <2>2, <2>3, EffectsKeep
  <1>2. CASE RequestPanorama
    <2>1. /\ Effects /\ PanoramaCounts' /\ attempt' # attempt
          /\ UNCHANGED <<modest, visible, posterReady, started>>
          /\ gaveUp' = FALSE /\ ready' = FALSE /\ requested' = TRUE
      BY <1>2, <1>c DEF RequestPanorama
    <2> QED BY <1>0, <2>1, EffectsKeep
  <1>3. CASE FontsReady
    <2>1. /\ loadChain' = "idle" /\ loadChain # "none"
          /\ UNCHANGED <<modest, visible, posterReady, requested, started, ready, gaveUp,
                   attempt, limit, loadVars, toggles>>
      BY <1>3 DEF FontsReady
    <2> QED BY <2>1 DEF loadVars, PanoramaInv, PanoramaFlags, PanoramaWaits, PanoramaCounts,
          MountedOnly, IsMounted, ReadyMeansPainted, ImagesReleased, NoIdleStart, StartWanted
  <1>4. CASE StartsIdle
    <2>1. /\ Effects /\ PanoramaCounts' /\ UNCHANGED <<ready, gaveUp, attempt>> /\ started' = TRUE
          /\ UNCHANGED <<modest, visible, posterReady, requested>> /\ loadChain = "idle"
      BY <1>4, <1>c DEF StartsIdle
    <2>2. ~started /\ ~ready
      BY <1>0, <2>1 DEF PanoramaInv, NoIdleStart, StartWanted, IsMounted
    <2> QED BY <1>0, <2>1, <2>2, EffectsKeep
  <1>5. CASE TimesOut \/ LoadFailed
    <2>1. /\ Effects /\ PanoramaCounts' /\ gaveUp' = TRUE /\ ready' = FALSE
          /\ UNCHANGED <<modest, visible, posterReady, requested, started, attempt>>
      BY <1>5, <1>c DEF TimesOut, LoadFailed, Fails
    <2>2. ~IsMounted'
      BY <2>1 DEF IsMounted
    <2> QED BY <1>0, <2>1, <2>2, EffectsKeep
  <1>6. CASE FetchedImage \/ DecodedImage
    <2>1. /\ UNCHANGED <<modest, visible, posterReady, requested, started, ready, gaveUp,
                       attempt, loadChain, limit, deadLoads, leaked, toggles, painted>>
          /\ loader # "none" /\ loader' \in {"decode", "decoded"}
          /\ bitmap' = bitmap \/ bitmap' = TRUE
      BY <1>6 DEF FetchedImage, DecodedImage, Loading
    <2>2. PanoramaFlags'
      BY <2>1 DEF PanoramaInv, PanoramaFlags
    <2> QED BY <2>1, <2>2 DEF PanoramaInv, PanoramaWaits, PanoramaCounts,
          MountedOnly, IsMounted, ReadyMeansPainted, ImagesReleased, NoIdleStart, StartWanted
  <1>7. CASE LateAnswer
    <2>1. /\ UNCHANGED <<modest, visible, posterReady, requested, started, ready, gaveUp,
                      attempt, loadChain, limit, loader, bitmap, painted, leaked, toggles>>
          /\ deadLoads' \subseteq deadLoads
      BY <1>7 DEF LateAnswer
    <2> QED BY <2>1 DEF PanoramaInv, PanoramaFlags, PanoramaWaits, PanoramaCounts,
          MountedOnly, IsMounted, ReadyMeansPainted, ImagesReleased, NoIdleStart, StartWanted
  <1>8. CASE Paints
    <2>1. /\ UNCHANGED <<modest, visible, posterReady, requested, started, gaveUp, attempt,
                   loader, deadLoads, bitmap, leaked, toggles>>
          /\ painted' = TRUE /\ ready' = TRUE /\ IsMounted
          /\ limit' \in BOOLEAN
      BY <1>8 DEF Paints, LimitEffect, PanoramaInv, ImagesReleased
    <2>2. NoIdleStart' /\ loadChain' \in {"none", "fonts", "idle"}
      BY <1>8, StartKeeps DEF Paints
    <2>3. PanoramaFlags'
      BY <2>1 DEF PanoramaInv, PanoramaFlags
    <2> QED BY <2>1, <2>2, <2>3 DEF PanoramaInv, PanoramaWaits, PanoramaCounts,
          MountedOnly, IsMounted, ReadyMeansPainted, ImagesReleased
  <1>9. CASE UNCHANGED panoramaVars
    BY <1>9 DEF panoramaVars, PanoramaInv, PanoramaFlags, PanoramaWaits, PanoramaCounts,
      MountedOnly, IsMounted, ReadyMeansPainted, ImagesReleased, NoIdleStart, StartWanted
  <1> QED BY <1>1, <1>2, <1>3, <1>4, <1>5, <1>6, <1>7, <1>8, <1>9 DEF PanoramaNext

LEMMA PanoramaInvSound == PanoramaInv => PanoramaSound
  BY DEF PanoramaInv, PanoramaFlags, PanoramaWaits, PanoramaCounts, PanoramaTypeOK, PanoramaSound

\* The panorama, under any order of gestures, visibility, preferences, fonts,
\* limits and loads that end late: ready means painted, a decoded image that is
\* not shown is released, and nothing waits to start what is not wanted.
THEOREM PanoramaIsSound == PanoramaSpec => []PanoramaSound
  BY PanoramaFirst, PanoramaStep, PanoramaInvSound, PTL DEF PanoramaSpec

-----------------------------------------------------------------------------
(* The wallpaper.                                                          *)

\* The wallpaper's flags; where its loads wait, and how often it was released.
WallpaperFlags ==
    {allowed, hidden, suspended, poster, enabled, failed, loading, idle, url,
     atlas, manifest, timer, disposed} \subseteq BOOLEAN
WallpaperJobs == job \in {"none", "fetch", "decode"} /\ older \subseteq {"fetch", "decode"}
WallpaperCount == releases \in 0..MaxReleases + 1

\* Nothing waits to be loaded while something is, and only a wallpaper that is
\* wanted loads.
WallpaperWaits ==
    /\ idle => job = "none" /\ ~disposed
    /\ job # "none" => enabled /\ ~disposed

WallpaperRest ==
    /\ NeverForgotten /\ QuietWhenHidden /\ NothingHeld /\ LoadingMeansLoading
    /\ WallpaperWaits

WallpaperInv == WallpaperFlags /\ WallpaperJobs /\ WallpaperCount /\ WallpaperRest

LEMMA WallpaperFirst == WallpaperInit => WallpaperInv
  <1> SUFFICES ASSUME WallpaperInit PROVE WallpaperInv
    OBVIOUS
  <1>1. WallpaperFlags
    BY DEF WallpaperInit, WallpaperFlags
  <1>2. WallpaperCount
    BY WallpaperAssumption DEF WallpaperInit, WallpaperCount
  <1>3. WallpaperJobs /\ WallpaperRest
    BY DEF WallpaperInit, WallpaperJobs, WallpaperRest, WallpaperWaits,
      NeverForgotten, QuietWhenHidden, NothingHeld, LoadingMeansLoading
  <1> QED BY <1>1, <1>2, <1>3 DEF WallpaperInv

\* A step releases what the wallpaper holds, or leaves the count alone.
LEMMA WallpaperCounts ==
    ASSUME WallpaperCount, releases <= MaxReleases, releases' = releases \/ releases' = releases + 1
    PROVE  WallpaperCount'
  BY WallpaperAssumption DEF WallpaperCount

\* refresh(), whatever the visitor or the browser did to the page before it.
LEMMA RedrawKeeps ==
    ASSUME WallpaperInv, releases <= MaxReleases, Redraw, UNCHANGED disposed,
           {allowed', hidden', suspended', poster'} \subseteq BOOLEAN
    PROVE  WallpaperInv'
  <1>1. WallpaperCount'
    <2>1. releases' = releases \/ releases' = releases + 1
      BY DEF Redraw, Release
    <2> QED BY <2>1, WallpaperCounts DEF WallpaperInv
  <1>2. CASE disposed
    <2>1. UNCHANGED <<enabled, failed, loading, idle, job, older, heldVars, timer, disposed>>
      BY <1>2 DEF Redraw
    <2> QED BY <1>1, <1>2, <2>1
      DEF WallpaperInv, WallpaperFlags, WallpaperJobs, WallpaperRest, WallpaperWaits, heldVars,
          NeverForgotten, QuietWhenHidden, NothingHeld, LoadingMeansLoading
  <1>3. CASE ~disposed /\ enabled /\ ~allowed'
    <2>1. Release /\ enabled' = allowed' /\ failed' = (failed /\ enabled = allowed') /\ ~disposed'
      BY <1>3 DEF Redraw
    <2>2. WallpaperFlags'
      BY <2>1 DEF Release, WallpaperInv, WallpaperFlags
    <2> QED BY <1>1, <1>3, <2>1, <2>2
      DEF Release, WallpaperInv, WallpaperJobs, WallpaperRest, WallpaperWaits,
          NeverForgotten, QuietWhenHidden, NothingHeld, LoadingMeansLoading
  <1>4. CASE ~disposed /\ ~allowed' /\ ~enabled
    <2>1. /\ UNCHANGED <<loading, job, older, url, atlas, manifest, timer, idle, disposed>>
          /\ enabled' = allowed' /\ failed' = (failed /\ enabled = allowed')
      BY <1>4 DEF Redraw, heldVars
    <2>2. WallpaperFlags'
      BY <2>1 DEF WallpaperInv, WallpaperFlags
    <2> QED BY <1>1, <1>4, <2>1, <2>2
      DEF WallpaperInv, WallpaperJobs, WallpaperRest, WallpaperWaits,
          NeverForgotten, QuietWhenHidden, NothingHeld, LoadingMeansLoading
  <1>5. CASE ~disposed /\ allowed'
    <2>1. /\ UNCHANGED <<loading, job, older, url, atlas, manifest, disposed>>
          /\ enabled' = allowed' /\ failed' = (failed /\ enabled = allowed')
          /\ Resume(manifest /\ atlas, loading, failed', timer, idle)
      BY <1>5 DEF Redraw, heldVars
    <2>2. /\ timer' \in BOOLEAN /\ idle' \in BOOLEAN
          /\ hidden' \/ suspended' => ~timer' /\ ~idle'
          /\ ~hidden' /\ ~suspended' /\ poster' /\ ~failed' => timer' \/ loading' \/ idle'
          /\ idle' => idle \/ ~loading
      BY <2>1 DEF Resume, Shown, WallpaperInv, WallpaperFlags
    <2>3. WallpaperFlags'
      BY <2>1, <2>2 DEF WallpaperInv, WallpaperFlags
    <2>4. enabled' /\ ~disposed /\ ~disposed'
      BY <1>5, <2>1
    <2>5. NeverForgotten' /\ QuietWhenHidden'
      BY <2>2, <2>4 DEF NeverForgotten, QuietWhenHidden
    <2>6. NothingHeld' /\ LoadingMeansLoading' /\ WallpaperWaits'
      BY <2>1, <2>2, <2>4
      DEF WallpaperInv, WallpaperRest, WallpaperWaits, NothingHeld, LoadingMeansLoading
    <2> QED BY <1>1, <2>1, <2>3, <2>5, <2>6 DEF WallpaperInv, WallpaperJobs, WallpaperRest
  <1>6. allowed' \in BOOLEAN /\ enabled \in BOOLEAN
    BY DEF WallpaperInv, WallpaperFlags
  <1> QED BY <1>2, <1>3, <1>4, <1>5, <1>6

\* release(), by a load or a tick that fails or by the cleanup.
LEMMA ReleaseKeeps ==
    ASSUME WallpaperInv, releases <= MaxReleases, Release,
           UNCHANGED pageVars, UNCHANGED enabled,
           \/ failed' = TRUE /\ UNCHANGED disposed
           \/ UNCHANGED failed /\ disposed' = TRUE
    PROVE  WallpaperInv'
  <1>1. WallpaperCount'
    BY WallpaperCounts DEF Release, WallpaperInv
  <1>2. WallpaperFlags'
    BY DEF Release, pageVars, WallpaperInv, WallpaperFlags
  <1> QED BY <1>1, <1>2
    DEF Release, pageVars, WallpaperInv, WallpaperJobs, WallpaperRest, WallpaperWaits,
        NeverForgotten, QuietWhenHidden, NothingHeld, LoadingMeansLoading

LEMMA WallpaperStep == WallpaperInv /\ [WallpaperNext]_wallpaperVars => WallpaperInv'
  <1> SUFFICES ASSUME WallpaperInv, [WallpaperNext]_wallpaperVars PROVE WallpaperInv'
    OBVIOUS
  <1>1. CASE WallpaperNext /\ (VisibilityChanges \/ PreferencesChange \/ PosterLoads \/ Looks \/ PageShow)
    <2>1. Redraw /\ UNCHANGED disposed /\ releases <= MaxReleases
      BY <1>1 DEF WallpaperNext, VisibilityChanges, PreferencesChange, PosterLoads, Looks, PageShow
    <2>2. {allowed', hidden', suspended', poster'} \subseteq BOOLEAN
      BY <1>1 DEF VisibilityChanges, PreferencesChange, PosterLoads, Looks, PageShow, pageVars,
        WallpaperInv, WallpaperFlags
    <2> QED BY <2>1, <2>2, RedrawKeeps
  <1>2. CASE ~disposed /\ PageHide
    BY <1>2 DEF PageHide, heldVars, WallpaperInv, WallpaperFlags, WallpaperJobs, WallpaperCount,
      WallpaperRest, WallpaperWaits, NeverForgotten, QuietWhenHidden, NothingHeld, LoadingMeansLoading
  <1>3. CASE StartLoad
    <2>1. CASE enabled /\ ~hidden /\ ~suspended
      BY <1>3, <2>1 DEF StartLoad, pageVars, heldVars, WallpaperInv, WallpaperFlags, WallpaperJobs,
        WallpaperCount, WallpaperRest, WallpaperWaits, NeverForgotten, QuietWhenHidden, NothingHeld,
        LoadingMeansLoading
    <2>2. CASE ~(enabled /\ ~hidden /\ ~suspended)
      BY <1>3, <2>2 DEF WallpaperInv, WallpaperRest, QuietWhenHidden, StartLoad
    <2> QED BY <2>1, <2>2
  <1>4. CASE Fetched
    BY <1>4 DEF Fetched, pageVars, WallpaperInv, WallpaperFlags, WallpaperJobs, WallpaperCount,
      WallpaperRest, WallpaperWaits, NeverForgotten, QuietWhenHidden, NothingHeld, LoadingMeansLoading
  <1>5. CASE Decoded
    <2>1. /\ job = "decode" /\ job' = "none" /\ ~url' /\ manifest' = TRUE /\ loading' = FALSE
          /\ UNCHANGED <<pageVars, enabled, failed, older, atlas, disposed, releases>>
          /\ url' = FALSE
      BY <1>5 DEF Decoded
    <2>2. /\ timer' \in BOOLEAN /\ idle' \in BOOLEAN
          /\ hidden' \/ suspended' => ~timer' /\ ~idle'
          /\ ~hidden' /\ ~suspended' /\ poster' => timer'
          /\ idle' => idle
      BY <1>5 DEF Decoded, Resume, Shown, WallpaperInv, WallpaperFlags
    <2>3. WallpaperFlags'
      BY <2>1, <2>2 DEF pageVars, WallpaperInv, WallpaperFlags
    <2> QED BY <2>1, <2>2, <2>3
      DEF pageVars, WallpaperInv, WallpaperJobs, WallpaperCount, WallpaperRest, WallpaperWaits,
          NeverForgotten, QuietWhenHidden, NothingHeld, LoadingMeansLoading
  <1>6. CASE WallpaperNext /\ (LoadFails \/ Dispose)
    BY <1>6, ReleaseKeeps DEF WallpaperNext, LoadFails, Dispose
  <1>7. CASE OldGivesUp
    BY <1>7 DEF OldGivesUp, pageVars, heldVars, WallpaperInv, WallpaperFlags, WallpaperJobs,
      WallpaperCount, WallpaperRest, WallpaperWaits, NeverForgotten, QuietWhenHidden, NothingHeld,
      LoadingMeansLoading
  <1>8. CASE WallpaperNext /\ WallpaperTick
    <2>1. CASE failed' = TRUE /\ Release
      BY <1>8, <2>1, ReleaseKeeps DEF WallpaperNext, WallpaperTick
    <2>2. CASE UNCHANGED <<failed, loading, idle, job, older, heldVars, timer, releases>>
      BY <1>8, <2>2 DEF WallpaperTick, pageVars, heldVars, WallpaperInv, WallpaperFlags,
        WallpaperJobs, WallpaperCount, WallpaperRest, WallpaperWaits, NeverForgotten,
        QuietWhenHidden, NothingHeld, LoadingMeansLoading
    <2> QED BY <1>8, <2>1, <2>2 DEF WallpaperTick
  <1>9. CASE UNCHANGED wallpaperVars
    BY <1>9 DEF wallpaperVars, WallpaperInv, WallpaperFlags, WallpaperJobs,
      WallpaperCount, WallpaperRest, WallpaperWaits, NeverForgotten, QuietWhenHidden, NothingHeld,
      LoadingMeansLoading
  <1> QED BY <1>1, <1>2, <1>3, <1>4, <1>5, <1>6, <1>7, <1>8, <1>9 DEF WallpaperNext

LEMMA WallpaperInvSound == WallpaperInv => WallpaperSound
  BY DEF WallpaperInv, WallpaperFlags, WallpaperJobs, WallpaperCount, WallpaperTypeOK,
    WallpaperRest, WallpaperSound

\* The wallpaper, hidden, shown, forbidden and allowed again at any await of a
\* load: it is not forgotten, draws nothing while hidden and holds nothing it
\* has given up.
THEOREM WallpaperIsSound == WallpaperSpec => []WallpaperSound
  BY WallpaperFirst, WallpaperStep, WallpaperInvSound, PTL DEF WallpaperSpec

-----------------------------------------------------------------------------
(* The clock of the wallpaper.                                             *)

\* A loop: how many frames it has, and how long each lasts.
Loops == UNION {[1..n -> Nat \ {0}] : n \in Nat \ {0}}

LEMMA LoopIs ==
    ASSUME NEW frames \in Loops
    PROVE  /\ Len(frames) \in Nat \ {0} /\ DOMAIN frames = 1..Len(frames)
           /\ \A i \in 1..Len(frames) : frames[i] \in Nat \ {0}
  <1>1. PICK n \in Nat \ {0} : frames \in [1..n -> Nat \ {0}]
    BY DEF Loops
  <1>2. frames \in Seq(Nat \ {0}) /\ Len(frames) = n
    <2>1. frames = [i \in 1..n |-> frames[i]] /\ \A i \in 1..n : frames[i] \in Nat \ {0}
      BY <1>1
    <2>2. frames \in Seq(Nat \ {0})
      BY <1>1, SeqDef
    <2> QED BY <1>1, <2>2, LenProperties
  <1> QED BY <1>1, <1>2

\* The end of a frame is the end of the one before it and the time it lasts.
Sum(frames, n, f) ==
    f = [i \in 0..n |-> IF i = 0 THEN 0 ELSE f[i - 1] + frames[i]]

LEMMA SumsAgree ==
    ASSUME NEW frames \in Loops, NEW n \in 0..Len(frames), NEW m \in 0..Len(frames),
           NEW f, NEW g, Sum(frames, n, f), Sum(frames, m, g),
           NEW i \in Nat, i <= n, i <= m
    PROVE  f[i] = g[i]
  <1> DEFINE Differ == {j \in Nat : j <= n /\ j <= m /\ f[j] # g[j]}
  <1>1. SUFFICES ASSUME Differ # {} PROVE FALSE
    OBVIOUS
  <1>2. PICK j \in Differ : \A k \in Differ : j <= k
    <2>1. Differ \in SUBSET Nat
      OBVIOUS
    <2> HIDE DEF Differ
    <2> QED BY <1>1, <2>1, Least
  <1>3. /\ \A k \in 0..n : f[k] = IF k = 0 THEN 0 ELSE f[k - 1] + frames[k]
        /\ \A k \in 0..m : g[k] = IF k = 0 THEN 0 ELSE g[k - 1] + frames[k]
    BY Zenon DEF Sum
  <1>4. n \in Nat /\ m \in Nat
    BY LoopIs
  <1>5. j \in 0..n /\ j \in 0..m /\ f[j] # g[j]
    BY <1>2, <1>4
  <1>6. j # 0
    <2>1. 0 \in 0..n /\ 0 \in 0..m
      BY <1>4
    <2> QED BY <1>3, <1>5, <2>1
  <1>7. j - 1 \in Nat /\ j - 1 <= n /\ j - 1 <= m /\ ~(j <= j - 1)
    BY <1>4, <1>5, <1>6
  <1>8. f[j - 1] = g[j - 1]
    BY <1>2, <1>7
  <1> QED BY <1>3, <1>5, <1>6, <1>8

LEMMA SumsExist ==
    ASSUME NEW frames \in Loops, NEW n \in 0..Len(frames)
    PROVE  \E f \in [0..n -> Nat] : Sum(frames, n, f)
  <1> DEFINE Has(k) == \E f \in [0..k -> Nat] : Sum(frames, k, f)
             Failing == {k \in Nat : k <= Len(frames) /\ ~Has(k)}
  <1>1. Has(0)
    <2> DEFINE f == [i \in 0..0 |-> 0]
    <2>1. f \in [0..0 -> Nat] /\ Sum(frames, 0, f)
      <3>1. f = [i \in 0..0 |-> IF i = 0 THEN 0 ELSE f[i - 1] + frames[i]]
        <4>1. \A i \in 0..0 : (IF i = 0 THEN 0 ELSE f[i - 1] + frames[i]) = 0
          OBVIOUS
        <4> QED BY <4>1
      <3>2. f \in [0..0 -> Nat]
        OBVIOUS
      <3> HIDE DEF f
      <3> QED BY <3>1, <3>2 DEF Sum
    <2> HIDE DEF f
    <2> QED BY <2>1
  <1>2. ASSUME NEW k \in Nat \ {0}, k <= Len(frames), Has(k - 1) PROVE Has(k)
    <2>1. PICK f \in [0..k - 1 -> Nat] : Sum(frames, k - 1, f)
      BY <1>2
    <2> DEFINE g == [i \in 0..k |-> IF i = k THEN f[k - 1] + frames[k] ELSE f[i]]
    <2>2. frames[k] \in Nat /\ f[k - 1] \in Nat
      BY <1>2, LoopIs
    <2>3. g \in [0..k -> Nat]
      BY <2>1, <2>2
    <2>4. \A i \in 0..k - 1 : f[i] = IF i = 0 THEN 0 ELSE f[i - 1] + frames[i]
      BY <2>1, Zenon DEF Sum
    <2>5. ASSUME NEW i \in 0..k
          PROVE  g[i] = IF i = 0 THEN 0 ELSE g[i - 1] + frames[i]
      <3>1. CASE i = k
        <4>1. k - 1 \in 0..k /\ k - 1 # k /\ k # 0
          OBVIOUS
        <4> QED BY <3>1, <4>1
      <3>2. CASE i # k
        <4>1. i \in 0..k - 1 /\ (i # 0 => i - 1 \in 0..k /\ i - 1 # k)
          BY <3>2
        <4> QED BY <2>4, <3>2, <4>1
      <3> QED BY <3>1, <3>2
    <2>6. g = [i \in 0..k |-> g[i]]
      OBVIOUS
    <2> HIDE DEF g
    <2>7. Sum(frames, k, g)
      BY <2>5, <2>6, Zenon DEF Sum
    <2> QED BY <2>3, <2>7
  <1> HIDE DEF Has
  <1>3. Failing = {}
    <2>1. SUFFICES ASSUME Failing # {} PROVE FALSE
      OBVIOUS
    <2>2. PICK k \in Failing : \A m \in Failing : k <= m
      <3>1. Failing \in SUBSET Nat
        OBVIOUS
      <3> HIDE DEF Failing
      <3> QED BY <2>1, <3>1, Least
    <2>3. /\ k \in Nat \ {0} /\ k - 1 \in Nat /\ ~(k <= k - 1)
          /\ k <= Len(frames) /\ k - 1 <= Len(frames)
      BY <1>1, <2>2, LoopIs
    <2>4. Has(k - 1) /\ ~Has(k)
      BY <2>2, <2>3
    <2> QED BY <1>2, <2>3, <2>4
  <1>4. n \in Nat /\ n <= Len(frames)
    BY LoopIs
  <1> QED BY <1>3, <1>4 DEF Has

LEMMA EndsAre ==
    ASSUME NEW frames \in Loops
    PROVE  /\ EndOf(frames, 0) = 0
           /\ \A n \in 0..Len(frames) : EndOf(frames, n) \in Nat
           /\ \A n \in 1..Len(frames) : EndOf(frames, n) = EndOf(frames, n - 1) + frames[n]
  <1> DEFINE sum(n) == CHOOSE f : Sum(frames, n, f)
  <1>1. \A n : EndOf(frames, n) = sum(n)[n]
    BY DEF EndOf, Sum
  <1>2. \A n \in 0..Len(frames) : Sum(frames, n, sum(n))
    BY SumsExist
  <1> HIDE DEF sum
  <1>3. \A n \in 0..Len(frames) : \A i \in 0..n :
           sum(n)[i] = IF i = 0 THEN 0 ELSE sum(n)[i - 1] + frames[i]
    BY <1>2, Zenon DEF Sum
  <1>4. Len(frames) \in Nat
    BY LoopIs
  <1>5. EndOf(frames, 0) = 0
    <2>1. 0 \in 0..Len(frames) /\ 0 \in 0..0
      BY <1>4
    <2> QED BY <1>1, <1>3, <2>1
  <1>6. ASSUME NEW n \in 0..Len(frames) PROVE EndOf(frames, n) \in Nat
    <2>1. PICK f \in [0..n -> Nat] : Sum(frames, n, f)
      BY SumsExist
    <2>2. n \in Nat /\ n \in 0..n /\ n <= n
      BY <1>4
    <2>3. sum(n)[n] = f[n]
      BY <1>2, <2>1, <2>2, SumsAgree
    <2> QED BY <1>1, <2>1, <2>2, <2>3
  <1>7. ASSUME NEW n \in 1..Len(frames)
        PROVE  EndOf(frames, n) = EndOf(frames, n - 1) + frames[n]
    <2>1. /\ n \in 0..Len(frames) /\ n \in 0..n /\ n # 0
          /\ n - 1 \in 0..Len(frames) /\ n - 1 \in Nat /\ n - 1 <= n /\ n - 1 <= n - 1
      BY <1>4
    <2>2. sum(n)[n] = sum(n)[n - 1] + frames[n]
      BY <1>3, <2>1
    <2>3. sum(n)[n - 1] = sum(n - 1)[n - 1]
      BY <1>2, <2>1, SumsAgree
    <2> QED BY <1>1, <2>2, <2>3
  <1> QED BY <1>5, <1>6, <1>7

\* Later frames end later, and none after the loop.
LEMMA EndsGrow ==
    ASSUME NEW frames \in Loops, NEW m \in 0..Len(frames), NEW n \in 0..Len(frames), m <= n
    PROVE  EndOf(frames, m) <= EndOf(frames, n)
  <1> DEFINE Failing == {k \in Nat : m <= k /\ k <= Len(frames) /\ ~(EndOf(frames, m) <= EndOf(frames, k))}
  <1>1. Len(frames) \in Nat /\ n \in Nat /\ m \in Nat
    BY LoopIs
  <1>2. SUFFICES ASSUME Failing # {} PROVE FALSE
    BY <1>1
  <1>3. PICK k \in Failing : \A l \in Failing : k <= l
    <2>1. Failing \in SUBSET Nat
      OBVIOUS
    <2> HIDE DEF Failing
    <2> QED BY <1>2, <2>1, Least
  <1>4. EndOf(frames, m) \in Nat
    BY EndsAre
  <1>5. k # m
    BY <1>3, <1>4
  <1>6. k \in 1..Len(frames) /\ k - 1 \in Nat /\ m <= k - 1 /\ k - 1 <= Len(frames)
        /\ ~(k <= k - 1) /\ k - 1 \in 0..Len(frames)
    BY <1>1, <1>3, <1>5
  <1>7. EndOf(frames, m) <= EndOf(frames, k - 1)
    BY <1>3, <1>6
  <1>8. /\ EndOf(frames, k) = EndOf(frames, k - 1) + frames[k]
        /\ EndOf(frames, k - 1) \in Nat /\ frames[k] \in Nat
    BY <1>6, EndsAre, LoopIs
  <1>9. EndOf(frames, m) <= EndOf(frames, k)
    BY <1>4, <1>7, <1>8
  <1> QED BY <1>3, <1>9

\* The frame that a moment of the loop lies in.
Within(frames, cursor, i) ==
    EndOf(frames, i - 1) <= cursor /\ cursor < EndOf(frames, i)

LEMMA LoopLasts == \A frames \in Loops : Loop(frames) \in Nat \ {0}
  <1> SUFFICES ASSUME NEW frames \in Loops PROVE Loop(frames) \in Nat \ {0}
    OBVIOUS
  <1>1. Len(frames) \in 1..Len(frames) /\ Len(frames) - 1 \in 0..Len(frames)
    BY LoopIs
  <1> QED BY <1>1, EndsAre, LoopIs DEF Loop

LEMMA OneFrame ==
    ASSUME NEW frames \in Loops, NEW cursor \in Int,
           NEW i \in 1..Len(frames), NEW j \in 1..Len(frames),
           Within(frames, cursor, i), Within(frames, cursor, j)
    PROVE  i = j
  <1>1. \A a, b \in 1..Len(frames) : a < b => EndOf(frames, a) <= EndOf(frames, b - 1)
    <2>1. ASSUME NEW a \in 1..Len(frames), NEW b \in 1..Len(frames), a < b
          PROVE  EndOf(frames, a) <= EndOf(frames, b - 1)
      <3>1. a \in 0..Len(frames) /\ b - 1 \in 0..Len(frames) /\ a <= b - 1
        BY <2>1, LoopIs
      <3> QED BY <3>1, EndsGrow
    <2> QED BY <2>1
  <1>2. \A a \in 1..Len(frames) : EndOf(frames, a) \in Nat /\ EndOf(frames, a - 1) \in Nat
    <2>1. \A a \in 1..Len(frames) : a \in 0..Len(frames) /\ a - 1 \in 0..Len(frames)
      BY LoopIs
    <2> QED BY <2>1, EndsAre
  <1>3. ~(i < j)
    BY <1>1, <1>2 DEF Within
  <1>4. ~(j < i)
    BY <1>1, <1>2 DEF Within
  <1>5. i \in Int /\ j \in Int
    BY LoopIs
  <1> QED BY <1>3, <1>4, <1>5

\* Whole loops count for nothing.
LEMMA OverLoops ==
    ASSUME NEW loop \in Nat \ {0}, NEW n \in Int, NEW rest \in Nat, rest < loop
    PROVE  ((loop * n) + rest) % loop = rest
  OBVIOUS

\* A moment is so far into one of them.
LEMMA LoopsOf ==
    ASSUME NEW loop \in Nat \ {0}, NEW moment \in Int
    PROVE  \E n \in Int : moment = (loop * n) + (moment % loop)
  <1>1. /\ moment \div loop \in Int
        /\ moment = (loop * (moment \div loop)) + (moment % loop)
    OBVIOUS
  <1> QED BY <1>1

\* Some way further in the same loop, and at its end.
LEMMA Later ==
    ASSUME NEW loop \in Nat \ {0}, NEW moment \in Int, NEW more \in Nat
    PROVE  /\ (moment % loop) + more < loop => (moment + more) % loop = (moment % loop) + more
           /\ (moment % loop) + more = loop => (moment + more) % loop = 0
  <1> DEFINE rest == moment % loop
  <1>1. rest \in Nat
    OBVIOUS
  <1>2. PICK n \in Int : moment = (loop * n) + rest
    BY LoopsOf
  <1> HIDE DEF rest
  <1>3. rest + more < loop => (moment + more) % loop = rest + more
    <2>1. loop * n \in Int
      OBVIOUS
    <2>2. moment + more = (loop * n) + (rest + more)
      BY <1>1, <1>2, <2>1
    <2>3. rest + more \in Nat
      BY <1>1
    <2> QED BY <2>2, <2>3, OverLoops
  <1>4. rest + more = loop => (moment + more) % loop = 0
    <2>1. loop * n \in Int /\ loop * (n + 1) = (loop * n) + loop /\ n + 1 \in Int
      OBVIOUS
    <2>2. rest + more = loop => moment + more = (loop * (n + 1)) + 0
      BY <1>1, <1>2, <2>1
    <2>3. ((loop * (n + 1)) + 0) % loop = 0
      BY <2>1, OverLoops
    <2> QED BY <2>2, <2>3
  <1> QED BY <1>3, <1>4 DEF rest

\* Where a loop begins, and how far it has come since.
LEMMA LoopBegins ==
    ASSUME NEW loop \in Nat \ {0}, NEW moment \in Int
    PROVE  (moment - (moment % loop)) % loop = 0
  <1> DEFINE rest == moment % loop
  <1>1. rest \in Nat
    OBVIOUS
  <1>2. PICK n \in Int : moment = (loop * n) + rest
    BY LoopsOf
  <1> HIDE DEF rest
  <1>3. moment - rest = (loop * n) + 0
    <2>1. loop * n \in Int
      OBVIOUS
    <2> QED BY <1>1, <1>2, <2>1
  <1>4. ((loop * n) + 0) % loop = 0
    BY OverLoops
  <1> QED BY <1>3, <1>4 DEF rest

LEMMA SinceBegun ==
    ASSUME NEW loop \in Nat \ {0}, NEW began \in Int, began % loop = 0,
           NEW since \in Nat, since < loop
    PROVE  (began + since) % loop = since
  <1>1. (began % loop) + since = since
    OBVIOUS
  <1>2. (began % loop) + since < loop
    BY <1>1
  <1>3. (began + since) % loop = (began % loop) + since
    BY <1>2, Later, Zenon
  <1> QED BY <1>1, <1>3

\* A region loops through frames, from an offset.
Regions == [frames : Loops, offset : Int]

CursorAt(region, time) == (time + region.offset) % Loop(region.frames)

LEMMA CursorIs ==
    ASSUME NEW region \in Regions, NEW time \in Int
    PROVE  /\ CursorAt(region, time) \in Nat /\ CursorAt(region, time) < Loop(region.frames)
           /\ region.frames \in Loops /\ region.offset \in Int
  <1>1. region.frames \in Loops /\ region.offset \in Int
    BY DEF Regions
  <1> DEFINE loop == Loop(region.frames)
             moment == time + region.offset
  <1>2. loop \in Nat \ {0} /\ moment \in Int
    BY <1>1, LoopLasts
  <1>3. CursorAt(region, time) = moment % loop
    BY DEF CursorAt
  <1> HIDE DEF loop, moment
  <1>4. (moment % loop) \in Nat /\ moment % loop < loop
    BY <1>2
  <1> QED BY <1>1, <1>3, <1>4 DEF loop

\* The cursor moves with the time, in its loop and to its end.
LEMMA CursorMoves ==
    ASSUME NEW region \in Regions, NEW time \in Int, NEW more \in Nat
    PROVE  /\ CursorAt(region, time) + more < Loop(region.frames) =>
                 CursorAt(region, time + more) = CursorAt(region, time) + more
           /\ CursorAt(region, time) + more = Loop(region.frames) =>
                 CursorAt(region, time + more) = 0
  <1> DEFINE loop == Loop(region.frames)
             moment == time + region.offset
  <1>1. loop \in Nat \ {0} /\ moment \in Int /\ region.offset \in Int
    BY CursorIs, LoopLasts
  <1>2. CursorAt(region, time) = moment % loop
    BY DEF CursorAt
  <1>3. CursorAt(region, time + more) = (moment + more) % loop
    <2>1. (time + more) + region.offset = moment + more
      BY <1>1
    <2> QED BY <2>1 DEF CursorAt
  <1> HIDE DEF loop, moment
  <1>4. (moment % loop) + more < loop => (moment + more) % loop = (moment % loop) + more
    BY <1>1, Later
  <1>5. (moment % loop) + more = loop => (moment + more) % loop = 0
    BY <1>1, Later
  <1> QED BY <1>2, <1>3, <1>4, <1>5 DEF loop

\* The frame that is drawn is the one the moment lies in, until it ends.
LEMMA DrawnFrame ==
    ASSUME NEW region \in Regions, NEW time \in Int
    PROVE  /\ HarborFrameAt(region, time).index \in 1..Len(region.frames)
           /\ Within(region.frames, CursorAt(region, time), HarborFrameAt(region, time).index)
           /\ HarborFrameAt(region, time).delay \in Nat \ {0}
           /\ CursorAt(region, time) + HarborFrameAt(region, time).delay
                 = EndOf(region.frames, HarborFrameAt(region, time).index)
  <1> DEFINE frames == region.frames
             cursor == CursorAt(region, time)
             Begun == {i \in Nat : i \in 1..Len(frames) /\ cursor < EndOf(frames, i)}
             First(i) == /\ cursor < EndOf(frames, i)
                         /\ \A j \in 1..i - 1 : cursor >= EndOf(frames, j)
             index == CHOOSE i \in DOMAIN frames : First(i)
  <1>1. cursor \in Nat /\ cursor < Loop(frames) /\ frames \in Loops
    BY CursorIs
  <1>2. /\ HarborFrameAt(region, time).index = index
        /\ HarborFrameAt(region, time).delay = EndOf(frames, index) - cursor
    BY DEF HarborFrameAt, CursorAt
  <1> HIDE DEF frames, cursor
  <1>3. /\ Len(frames) \in Nat \ {0} /\ DOMAIN frames = 1..Len(frames)
        /\ EndOf(frames, 0) = 0 /\ \A n \in 0..Len(frames) : EndOf(frames, n) \in Nat
    BY <1>1, LoopIs, EndsAre
  <1>4. PICK i \in Begun : \A j \in Begun : i <= j
    <2>1. Len(frames) \in Begun
      BY <1>1, <1>3 DEF Loop
    <2>2. Begun \in SUBSET Nat /\ Begun # {}
      BY <2>1
    <2> HIDE DEF Begun
    <2> QED BY <2>2, Least
  <1>5. ASSUME NEW j \in 1..i - 1 PROVE cursor >= EndOf(frames, j)
    <2>1. j \in Nat /\ j \in 1..Len(frames) /\ ~(i <= j) /\ EndOf(frames, j) \in Nat
      BY <1>3, <1>4
    <2>2. ~(cursor < EndOf(frames, j))
      BY <1>4, <2>1
    <2> QED BY <1>1, <2>1, <2>2
  <1>6. i \in DOMAIN frames /\ First(i)
    BY <1>3, <1>4, <1>5
  <1>7. index \in DOMAIN frames /\ First(index)
    <2> HIDE DEF First
    <2> QED BY <1>6
  <1> HIDE DEF index, Begun
  <1>8. index \in 1..Len(frames) /\ index - 1 \in 0..Len(frames) /\ index \in 0..Len(frames)
    BY <1>3, <1>7
  <1>9. EndOf(frames, index - 1) <= cursor
    <2>1. CASE index = 1
      <3>1. index - 1 = 0
        BY <2>1
      <3> QED BY <1>1, <1>3, <3>1
    <2>2. CASE index # 1
      <3>1. index - 1 \in 1..index - 1
        BY <1>8, <2>2
      <3>2. cursor >= EndOf(frames, index - 1) /\ EndOf(frames, index - 1) \in Nat
        BY <1>3, <1>7, <1>8, <3>1
      <3> QED BY <1>1, <3>2
    <2> QED BY <2>1, <2>2
  <1>10. Within(frames, cursor, index)
    BY <1>7, <1>9 DEF Within
  <1>11. EndOf(frames, index) - cursor \in Nat \ {0}
         /\ cursor + (EndOf(frames, index) - cursor) = EndOf(frames, index)
    BY <1>1, <1>3, <1>7, <1>8
  <1> QED BY <1>2, <1>8, <1>10, <1>11 DEF frames, cursor

\* The frame that should be shown is the one the moment lies in.
LEMMA ProperFrame ==
    ASSUME NEW region \in Regions, NEW time \in Int, NEW i \in 1..Len(region.frames),
           Within(region.frames, CursorAt(region, time), i)
    PROVE  Proper(region, time) = i
  <1> DEFINE frames == region.frames
             loop == Loop(frames)
             cursor == CursorAt(region, time)
             Starts(j) == \E began \in time - loop + 1..time :
                            /\ (began + region.offset) % loop = 0
                            /\ EndOf(frames, j - 1) <= time - began
                            /\ time - began < EndOf(frames, j)
  <1>1. /\ cursor \in Nat /\ cursor < loop /\ frames \in Loops /\ region.offset \in Int
        /\ loop \in Nat \ {0}
    BY CursorIs, LoopLasts
  <1>2. DOMAIN frames = 1..Len(frames)
    BY <1>1, LoopIs
  <1>3. cursor = (time + region.offset) % loop
    BY DEF CursorAt
  <1>4. Proper(region, time) = CHOOSE j \in DOMAIN frames : Starts(j)
    BY DEF Proper
  <1>5. Within(frames, cursor, i)
    OBVIOUS
  <1> HIDE DEF loop, cursor, frames
  <1>6. Starts(i)
    <2> DEFINE began == time - cursor
    <2>1. began \in time - loop + 1..time /\ time - began = cursor
      BY <1>1
    <2>2. (began + region.offset) % loop = 0
      <3> DEFINE moment == time + region.offset
      <3>1. moment \in Int /\ began + region.offset = moment - cursor
        BY <1>1
      <3>2. cursor = moment % loop
        BY <1>3
      <3> HIDE DEF moment
      <3>3. (moment - (moment % loop)) % loop = 0
        BY <1>1, <3>1, LoopBegins
      <3> QED BY <3>1, <3>2, <3>3
    <2> HIDE DEF began
    <2> QED BY <1>5, <2>1, <2>2 DEF Within
  <1>7. ASSUME NEW j \in DOMAIN frames, Starts(j) PROVE j = i
    <2>1. PICK began \in time - loop + 1..time :
             /\ (began + region.offset) % loop = 0
             /\ EndOf(frames, j - 1) <= time - began
             /\ time - began < EndOf(frames, j)
      BY <1>7
    <2>2. time - began = cursor
      <3> DEFINE moment == began + region.offset
                 since == time - began
      <3>1. moment \in Int /\ since \in Nat /\ since < loop /\ moment + since = time + region.offset
        BY <1>1
      <3>2. moment % loop = 0 /\ cursor = (moment + since) % loop
        BY <1>3, <2>1, <3>1
      <3> HIDE DEF moment, since
      <3>3. cursor = since
        BY <1>1, <3>1, <3>2, SinceBegun
      <3> QED BY <3>3 DEF since
    <2>3. Within(frames, cursor, j) /\ j \in 1..Len(frames) /\ i \in 1..Len(frames)
      BY <1>2, <2>1, <2>2 DEF Within, frames
    <2> QED BY <1>1, <1>5, <2>3, OneFrame
  <1>8. i \in DOMAIN frames
    BY <1>2 DEF frames
  <1> HIDE DEF Starts
  <1> QED BY <1>4, <1>6, <1>7, <1>8

\* The clock has counted the time the page was shown; while a timer is set, some
\* moment was drawn for which the timer is when the first of its frames ends.
ClockTypes ==
    /\ regions \in [1..2 -> Regions]
    /\ patches = [r \in 1..2 |-> patches[r]]
    /\ \A r \in 1..2 : patches[r] \in 1..Len(regions[r].frames)
    /\ elapsed \in Nat /\ frameNow \in 0..MaxTicks /\ shownFor \in 0..frameNow
    /\ startedAt \in 0..frameNow \cup {NotStarted} /\ due \in Nat \cup {NoTimer}

Drawn(time) ==
    /\ \A r \in 1..2 : patches[r] = HarborFrameAt(regions[r], time).index
    /\ (Time + due) - frameNow = time + NextChange(time)

ClockInv ==
    /\ ClockTypes
    /\ Time = shownFor
    /\ due = NoTimer <=> startedAt = NotStarted
    /\ due # NoTimer => \E time \in Nat : time <= Time /\ Drawn(time)

LEMMA TimeIs ==
    ASSUME ClockTypes PROVE Time \in Nat
  BY DEF ClockTypes, Time, NotStarted

\* The next change is the end of the frame that ends first.
LEMMA NextIs ==
    ASSUME regions \in [1..2 -> Regions], NEW time \in Nat
    PROVE  /\ NextChange(time) \in Nat \ {0}
           /\ \E r \in 1..2 : NextChange(time) = HarborFrameAt(regions[r], time).delay
           /\ \A r \in 1..2 : NextChange(time) <= HarborFrameAt(regions[r], time).delay
  <1> DEFINE delay(r) == HarborFrameAt(regions[r], time).delay
             delays == {delay(r) : r \in DOMAIN regions}
             Soonest(d) == \A r \in DOMAIN regions : d <= delay(r)
  <1>1. DOMAIN regions = 1..2 /\ \A r \in 1..2 : delay(r) \in Nat \ {0}
    BY DrawnFrame
  <1>2. NextChange(time) = CHOOSE d \in delays : Soonest(d)
    BY DEF NextChange
  <1> HIDE DEF delay
  <1>3. \E d \in delays : Soonest(d)
    <2>1. 1..2 = {1, 2} /\ delay(1) \in Nat /\ delay(2) \in Nat
      BY <1>1
    <2>2. delay(1) \in delays /\ delay(2) \in delays
      BY <1>1, <2>1
    <2>3. delay(1) <= delay(2) \/ delay(2) <= delay(1)
      BY <2>1
    <2>4. delay(1) <= delay(1) /\ delay(2) <= delay(2)
      BY <2>1
    <2>5. Soonest(delay(1)) \/ Soonest(delay(2))
      BY <1>1, <2>1, <2>3, <2>4
    <2> QED BY <2>2, <2>5
  <1>4. NextChange(time) \in delays /\ Soonest(NextChange(time))
    <2> HIDE DEF delays, Soonest
    <2> QED BY <1>2, <1>3
  <1>5. PICK r \in 1..2 : NextChange(time) = delay(r)
    BY <1>1, <1>4
  <1>6. NextChange(time) \in Nat \ {0}
    BY <1>1, <1>5
  <1>7. \A s \in 1..2 : NextChange(time) <= delay(s)
    BY <1>1, <1>4
  <1> QED BY <1>5, <1>6, <1>7 DEF delay

LEMMA ClockFirst == ClockInit => ClockInv
  <1> SUFFICES ASSUME ClockInit PROVE ClockInv
    OBVIOUS
  <1>1. regions \in [1..2 -> Regions]
    <2>1. Frames \subseteq Loops
      <3>1. Durations \subseteq Nat \ {0} /\ MaxFrames \in Nat
        BY ClockAssumption
      <3>2. ASSUME NEW n \in 1..MaxFrames, NEW f \in [1..n -> Durations]
            PROVE  f \in Loops
        <4>1. n \in Nat \ {0}
          BY <3>1
        <4>2. f \in [1..n -> Nat \ {0}]
          BY <3>1
        <4> QED BY <4>1, <4>2 DEF Loops
      <3> QED BY <3>2 DEF Frames
    <2>2. Offsets \subseteq Int
      BY ClockAssumption
    <2>3. [frames : Frames, offset : Offsets] \subseteq Regions
      BY <2>1, <2>2 DEF Regions
    <2> QED BY <2>3 DEF ClockInit
  <1>2. /\ elapsed = 0 /\ startedAt = 0 /\ frameNow = 0 /\ shownFor = 0
        /\ patches = [r \in DOMAIN regions |-> HarborFrameAt(regions[r], 0).index]
        /\ due = NextChange(0) /\ DOMAIN regions = 1..2
    BY <1>1 DEF ClockInit
  <1>3. NextChange(0) \in Nat \ {0} /\ 0 \in Nat /\ 0 \in Int
    BY <1>1, NextIs
  <1>4. Time = 0
    BY <1>2 DEF Time, NotStarted
  <1>5. /\ patches = [r \in 1..2 |-> patches[r]]
        /\ \A r \in 1..2 : patches[r] = HarborFrameAt(regions[r], 0).index
    BY <1>2
  <1>6. \A r \in 1..2 : patches[r] \in 1..Len(regions[r].frames)
    BY <1>1, <1>3, <1>5, DrawnFrame
  <1>7. ClockTypes
    <2>1. 0 \in 0..0 /\ 0 \in 0..MaxTicks
      BY ClockAssumption
    <2> QED BY <1>1, <1>2, <1>3, <1>5, <1>6, <2>1 DEF ClockTypes
  <1>8. Drawn(0)
    BY <1>2, <1>3, <1>4, <1>5 DEF Drawn
  <1>9. due # NoTimer /\ startedAt # NotStarted
    BY <1>2, <1>3 DEF NoTimer, NotStarted
  <1> QED BY <1>2, <1>3, <1>4, <1>7, <1>8, <1>9 DEF ClockInv

\* What is drawn is drawn for the moment it is drawn at.
LEMMA DrawKeeps ==
    ASSUME regions \in [1..2 -> Regions], UNCHANGED regions, NEW time \in Nat, Draw(time),
           UNCHANGED frameNow, frameNow \in 0..MaxTicks, Time' = time
    PROVE  /\ patches' = [r \in 1..2 |-> patches'[r]]
           /\ \A r \in 1..2 : patches'[r] \in 1..Len(regions'[r].frames)
           /\ due' \in Nat /\ due' # NoTimer
           /\ Drawn(time)'
  <1>1. /\ patches' = [r \in 1..2 |-> HarborFrameAt(regions[r], time).index]
        /\ due' = frameNow + NextChange(time)
    BY DEF Draw
  <1>2. NextChange(time) \in Nat \ {0} /\ frameNow \in Nat /\ time \in Int
    BY NextIs, ClockAssumption
  <1>3. /\ patches' = [r \in 1..2 |-> patches'[r]]
        /\ \A r \in 1..2 : patches'[r] = HarborFrameAt(regions[r], time).index
    BY <1>1
  <1>4. \A r \in 1..2 : patches'[r] \in 1..Len(regions'[r].frames)
    BY <1>2, <1>3, DrawnFrame
  <1>5. due' \in Nat /\ due' # NoTimer
    BY <1>1, <1>2 DEF NoTimer
  <1>6. NextChange(time)' = NextChange(time)
    BY DEF NextChange
  <1>7. (Time' + due') - frameNow' = time + NextChange(time)
    BY <1>1, <1>2
  <1>8. Drawn(time)'
    BY <1>3, <1>6, <1>7 DEF Drawn
  <1> QED BY <1>3, <1>4, <1>5, <1>8

LEMMA ClockStep == ClockInv /\ [ClockNext]_clockVars => ClockInv'
  <1> SUFFICES ASSUME ClockInv, [ClockNext]_clockVars PROVE ClockInv'
    OBVIOUS
  <1>0. /\ regions \in [1..2 -> Regions] /\ elapsed \in Nat /\ frameNow \in 0..MaxTicks
        /\ shownFor \in 0..frameNow /\ startedAt \in 0..frameNow \cup {NotStarted}
        /\ due \in Nat \cup {NoTimer} /\ MaxTicks \in Nat
        /\ Time = elapsed + IF startedAt = NotStarted THEN 0 ELSE frameNow - startedAt
        /\ Time = shownFor /\ (due = NoTimer <=> startedAt = NotStarted) /\ Time \in Nat
    BY TimeIs, ClockAssumption DEF ClockInv, ClockTypes, Time
  <1>1. ASSUME TimePasses PROVE ClockInv'
    <2>1. /\ frameNow < MaxTicks /\ frameNow' = frameNow + 1
          /\ shownFor' = IF startedAt = NotStarted THEN shownFor ELSE shownFor + 1
          /\ UNCHANGED <<regions, patches, elapsed, startedAt, due>>
      BY <1>1 DEF TimePasses
    <2>2. Time' = elapsed + IF startedAt = NotStarted THEN 0 ELSE (frameNow + 1) - startedAt
      BY <2>1 DEF Time
    <2>3. Time' = IF startedAt = NotStarted THEN Time ELSE Time + 1
      BY <1>0, <2>2 DEF NotStarted
    <2>4. ClockTypes'
      <3>1. frameNow' \in 0..MaxTicks /\ shownFor' \in 0..frameNow'
            /\ startedAt' \in 0..frameNow' \cup {NotStarted}
        BY <1>0, <2>1
      <3> QED BY <2>1, <3>1 DEF ClockInv, ClockTypes
    <2>5. ASSUME due # NoTimer PROVE \E time \in Nat : time <= Time' /\ Drawn(time)'
      <3>1. PICK time \in Nat : time <= Time /\ Drawn(time)
        BY <2>5 DEF ClockInv
      <3>2. Time' = Time + 1
        BY <1>0, <2>3, <2>5
      <3>3. NextChange(time)' = NextChange(time)
        BY <2>1 DEF NextChange
      <3>4. due \in Nat
        BY <1>0, <2>5
      <3>5. (Time' + due') - frameNow' = (Time + due) - frameNow
        BY <1>0, <2>1, <3>2, <3>4
      <3>6. Drawn(time)'
        BY <2>1, <3>1, <3>3, <3>5 DEF Drawn
      <3>7. time <= Time'
        BY <1>0, <3>1, <3>2
      <3> QED BY <3>6, <3>7
    <2>6. Time' = shownFor'
      BY <1>0, <2>1, <2>3
    <2> QED BY <1>0, <2>1, <2>4, <2>5, <2>6 DEF ClockInv
  <1>2. ASSUME TimerDue PROVE ClockInv'
    <2>1. /\ due # NoTimer /\ Draw(Time)
          /\ UNCHANGED <<regions, elapsed, startedAt, frameNow, shownFor>>
      BY <1>2 DEF TimerDue
    <2>2. Time' = Time
      BY <2>1 DEF Time
    <2>3. /\ patches' = [r \in 1..2 |-> patches'[r]]
          /\ \A r \in 1..2 : patches'[r] \in 1..Len(regions'[r].frames)
          /\ due' \in Nat /\ due' # NoTimer
          /\ Drawn(Time)'
      <3>1. PICK time \in Nat : time = Time
        BY <1>0
      <3>2. /\ patches' = [r \in 1..2 |-> patches'[r]]
            /\ \A r \in 1..2 : patches'[r] \in 1..Len(regions'[r].frames)
            /\ due' \in Nat /\ due' # NoTimer
            /\ Drawn(time)'
        BY <1>0, <2>1, <2>2, <3>1, DrawKeeps
      <3>3. Drawn(Time)' <=> Drawn(time)'
        BY <2>2, <3>1 DEF Drawn, NextChange
      <3> QED BY <3>2, <3>3
    <2>4. ClockTypes'
      BY <2>1, <2>3 DEF ClockInv, ClockTypes
    <2>5. Time' \in Nat /\ Time' <= Time'
      BY <1>0, <2>2
    <2>6. \E time \in Nat : time <= Time' /\ Drawn(time)'
      <3>1. PICK time \in Nat : time = Time
        BY <1>0
      <3>2. Drawn(time)'
        BY <2>2, <2>3, <3>1 DEF Drawn, NextChange
      <3>3. time <= Time'
        BY <2>2, <2>5, <3>1
      <3> QED BY <3>2, <3>3
    <2> QED BY <1>0, <2>1, <2>2, <2>3, <2>4, <2>6 DEF ClockInv
  <1>3. ASSUME StopClock PROVE ClockInv'
    <2>1. /\ due' = NoTimer /\ elapsed' = Time /\ startedAt' = NotStarted
          /\ UNCHANGED <<regions, patches, frameNow, shownFor>>
      BY <1>3 DEF StopClock
    <2>2. Time' = Time
      <3>1. Time' = elapsed' + 0
        BY <2>1 DEF Time
      <3> QED BY <1>0, <2>1, <3>1
    <2>3. ClockTypes'
      BY <1>0, <2>1 DEF ClockInv, ClockTypes
    <2> QED BY <1>0, <2>1, <2>2, <2>3 DEF ClockInv
  <1>4. ASSUME RefreshClock PROVE ClockInv'
    <2>1. CASE due = NoTimer
      <3>1. /\ startedAt' = frameNow /\ Draw(elapsed)
            /\ UNCHANGED <<regions, elapsed, frameNow, shownFor>>
        BY <1>4, <2>1 DEF RefreshClock
      <3>2. Time = elapsed
        BY <1>0, <2>1
      <3>3. Time' = elapsed
        <4>1. frameNow # NotStarted
          BY <1>0 DEF NotStarted
        <4>2. Time' = elapsed + (frameNow - frameNow)
          BY <3>1, <4>1 DEF Time
        <4> QED BY <1>0, <4>2
      <3>4. PICK time \in Nat : time = elapsed
        BY <1>0
      <3>5. /\ patches' = [r \in 1..2 |-> patches'[r]]
            /\ \A r \in 1..2 : patches'[r] \in 1..Len(regions'[r].frames)
            /\ due' \in Nat /\ due' # NoTimer
            /\ Drawn(time)'
        BY <1>0, <3>1, <3>3, <3>4, DrawKeeps
      <3>6. startedAt' \in 0..frameNow' /\ startedAt' # NotStarted
        BY <1>0, <3>1 DEF NotStarted
      <3>7. ClockTypes'
        BY <1>0, <3>1, <3>5, <3>6 DEF ClockInv, ClockTypes
      <3>8. time <= Time'
        BY <1>0, <3>3, <3>4
      <3> QED BY <1>0, <3>1, <3>2, <3>3, <3>5, <3>6, <3>7, <3>8 DEF ClockInv
    <2>2. CASE due # NoTimer
      <3>1. UNCHANGED clockVars
        BY <1>4, <2>2 DEF RefreshClock, clockVars
      <3> QED BY <3>1 DEF clockVars, ClockInv, ClockTypes, Time, Drawn, NextChange
    <2> QED BY <2>1, <2>2
  <1>5. ASSUME UNCHANGED clockVars PROVE ClockInv'
    BY <1>5 DEF clockVars, ClockInv, ClockTypes, Time, Drawn, NextChange
  <1> QED BY <1>1, <1>2, <1>3, <1>4, <1>5 DEF ClockNext

LEMMA ClockInvSound == ClockInv => ClockSound
  <1> SUFFICES ASSUME ClockInv PROVE ClockSound
    OBVIOUS
  <1>0. /\ regions \in [1..2 -> Regions] /\ elapsed \in Nat /\ frameNow \in 0..MaxTicks
        /\ shownFor \in 0..frameNow /\ startedAt \in 0..frameNow \cup {NotStarted}
        /\ due \in Nat \cup {NoTimer} /\ MaxTicks \in Nat
        /\ Time = elapsed + IF startedAt = NotStarted THEN 0 ELSE frameNow - startedAt
        /\ Time = shownFor /\ Time \in Nat
        /\ DOMAIN regions = 1..2
    BY TimeIs, ClockAssumption DEF ClockInv, ClockTypes, Time
  <1>1. ClockTypeOK
    <2>1. DOMAIN patches = DOMAIN regions
      BY <1>0 DEF ClockInv, ClockTypes
    <2>2. \A r \in DOMAIN regions : patches[r] \in DOMAIN regions[r].frames
      <3>1. ASSUME NEW r \in 1..2 PROVE patches[r] \in DOMAIN regions[r].frames
        <4>1. regions[r].frames \in Loops
          BY <1>0 DEF Regions
        <4>2. patches[r] \in 1..Len(regions[r].frames)
          BY DEF ClockInv, ClockTypes
        <4> QED BY <4>1, <4>2, LoopIs
      <3> QED BY <1>0, <3>1
    <2>3. /\ elapsed \in 0..MaxTicks /\ frameNow \in 0..MaxTicks /\ shownFor \in 0..MaxTicks
          /\ startedAt \in 0..MaxTicks \cup {NotStarted} /\ due \in Int
      <3>1. elapsed <= Time
        BY <1>0
      <3> QED BY <1>0, <3>1 DEF NoTimer
    <2> QED BY <2>1, <2>2, <2>3 DEF ClockTypeOK
  <1>2. FramesTimely
    <2> SUFFICES ASSUME due # NoTimer, frameNow < due, NEW r \in 1..2
                 PROVE  patches[r] = Proper(regions[r], Time)
      BY <1>0 DEF FramesTimely
    <2>1. PICK time \in Nat : time <= Time /\ Drawn(time)
      BY DEF ClockInv
    <2> DEFINE region == regions[r]
               delay == HarborFrameAt(region, time).delay
               i == HarborFrameAt(region, time).index
               more == Time - time
    <2>2. region \in Regions /\ time \in Int /\ due \in Nat
      BY <1>0
    <2>3. /\ NextChange(time) <= delay /\ NextChange(time) \in Nat
          /\ (Time + due) - frameNow = time + NextChange(time) /\ patches[r] = i
      BY <1>0, <2>1, NextIs DEF Drawn
    <2>4. /\ i \in 1..Len(region.frames) /\ Within(region.frames, CursorAt(region, time), i)
          /\ delay \in Nat \ {0}
          /\ CursorAt(region, time) + delay = EndOf(region.frames, i)
      BY <2>2, DrawnFrame
    <2>5. /\ CursorAt(region, time) \in Nat /\ region.frames \in Loops
      BY <2>2, CursorIs
    <2> HIDE DEF region, delay, i
    <2>6. more \in Nat /\ more < delay /\ time + more = Time
      BY <1>0, <2>1, <2>2, <2>3, <2>4
    <2> HIDE DEF more
    <2>7. /\ EndOf(region.frames, i) <= Loop(region.frames) /\ EndOf(region.frames, i) \in Nat
          /\ EndOf(region.frames, i - 1) \in Nat
          /\ Loop(region.frames) \in Nat
      <3>1. /\ i \in 0..Len(region.frames) /\ i - 1 \in 0..Len(region.frames)
            /\ Len(region.frames) \in 0..Len(region.frames) /\ i <= Len(region.frames)
        BY <2>4, <2>5, LoopIs
      <3> QED BY <2>5, <3>1, EndsGrow, EndsAre DEF Loop
    <2>8. CursorAt(region, Time) = CursorAt(region, time) + more
      <3>1. CursorAt(region, time) + more < Loop(region.frames)
        BY <2>4, <2>5, <2>6, <2>7
      <3> QED BY <2>2, <2>6, <3>1, CursorMoves
    <2>9. Within(region.frames, CursorAt(region, Time), i)
      BY <2>4, <2>5, <2>6, <2>7, <2>8 DEF Within
    <2>10. Proper(region, Time) = i
      BY <1>0, <2>2, <2>4, <2>9, ProperFrame
    <2> QED BY <2>3, <2>10 DEF region
  <1>3. DueAtChange
    <2> SUFFICES ASSUME due # NoTimer
                 PROVE  \E r \in DOMAIN regions :
                          ((Time + due - frameNow + regions[r].offset) % Loop(regions[r].frames))
                             \in {EndOf(regions[r].frames, i) : i \in 0..Len(regions[r].frames)}
      BY DEF DueAtChange
    <2>1. PICK time \in Nat : time <= Time /\ Drawn(time)
      BY DEF ClockInv
    <2>2. PICK r \in 1..2 : NextChange(time) = HarborFrameAt(regions[r], time).delay
      BY <1>0, NextIs
    <2> DEFINE region == regions[r]
               delay == HarborFrameAt(region, time).delay
               i == HarborFrameAt(region, time).index
    <2>3. region \in Regions /\ time \in Int
      BY <1>0
    <2>4. /\ i \in 1..Len(region.frames) /\ delay \in Nat \ {0}
          /\ CursorAt(region, time) + delay = EndOf(region.frames, i)
      BY <2>3, DrawnFrame
    <2>5. (Time + due) - frameNow = time + delay
      BY <2>1, <2>2 DEF Drawn
    <2>6. region.frames \in Loops
      BY <2>3, CursorIs
    <2> HIDE DEF i
    <2>7. CursorAt(region, time + delay)
             = (Time + due - frameNow + regions[r].offset) % Loop(regions[r].frames)
      <3>1. delay \in Nat /\ regions[r].offset \in Int /\ due \in Int /\ frameNow \in Int
        <4>1. delay \in Nat
          BY <2>4
        <4>2. regions[r].offset \in Int
          BY <2>3, CursorIs
        <4>3. due \in Int /\ frameNow \in Int
          BY <1>0 DEF NoTimer
        <4> QED BY <4>1, <4>2, <4>3
      <3>2. Time + due - frameNow + regions[r].offset = time + delay + regions[r].offset
        <4> HIDE DEF delay
        <4> QED BY <1>0, <2>3, <2>5, <3>1
      <3> QED BY <3>2 DEF CursorAt
    <2> HIDE DEF region, delay
    <2>8. /\ EndOf(region.frames, i) <= Loop(region.frames) /\ EndOf(region.frames, i) \in Nat
          /\ Loop(region.frames) \in Nat /\ EndOf(region.frames, 0) = 0
          /\ i \in 0..Len(region.frames) /\ 0 \in 0..Len(region.frames)
      <3>1. /\ i \in 0..Len(region.frames) /\ 0 \in 0..Len(region.frames)
            /\ Len(region.frames) \in 0..Len(region.frames) /\ i <= Len(region.frames)
        BY <2>4, <2>6, LoopIs
      <3> QED BY <2>6, <3>1, EndsGrow, EndsAre DEF Loop
    <2>9. CursorAt(region, time + delay)
             \in {EndOf(region.frames, k) : k \in 0..Len(region.frames)}
      <3>1. CASE EndOf(region.frames, i) < Loop(region.frames)
        <4>1. CursorAt(region, time + delay) = EndOf(region.frames, i)
          BY <2>3, <2>4, <3>1, CursorMoves
        <4> QED BY <2>8, <4>1
      <3>2. CASE EndOf(region.frames, i) = Loop(region.frames)
        <4>1. CursorAt(region, time + delay) = EndOf(region.frames, 0)
          BY <2>3, <2>4, <2>8, <3>2, CursorMoves
        <4> QED BY <2>8, <4>1
      <3> QED BY <2>8, <3>1, <3>2
    <2> QED BY <1>0, <2>7, <2>9 DEF region
  <1>4. ClockCountsShown
    BY <1>0 DEF ClockCountsShown
  <1> QED BY <1>1, <1>2, <1>3, <1>4 DEF ClockSound

\* The frames that are shown are those of the moment, whatever the frames, the
\* offsets and the order in which the page is hidden and shown.
THEOREM ClockIsSound == ClockSpec => []ClockSound
  BY ClockFirst, ClockStep, ClockInvSound, PTL DEF ClockSpec

-----------------------------------------------------------------------------
(* The frontend: what holds of a part holds of the whole.                  *)

\* A step of the whole is a step of the part it exercises, and none of another.
LEMMA PartsMove ==
    [Next]_vars =>
       /\ [LimiterNext]_limiterVars /\ [ProxyNext]_proxyVars /\ [ToolsNext]_toolVars
       /\ [PlayerNext]_playerVars /\ [PanoramaNext]_panoramaVars
       /\ [WallpaperNext]_wallpaperVars /\ [ClockNext]_clockVars
  <1> USE DEF Only
  <1>1. [Next]_vars => [LimiterNext]_limiterVars
    BY Zenon DEF Next, vars
  <1>2. [Next]_vars => [ProxyNext]_proxyVars
    BY Zenon DEF Next, vars
  <1>3. [Next]_vars => [ToolsNext]_toolVars
    BY Zenon DEF Next, vars
  <1>4. [Next]_vars => [PlayerNext]_playerVars
    BY Zenon DEF Next, vars
  <1>5. [Next]_vars => [PanoramaNext]_panoramaVars
    BY Zenon DEF Next, vars
  <1>6. [Next]_vars => [WallpaperNext]_wallpaperVars
    BY Zenon DEF Next, vars
  <1>7. [Next]_vars => [ClockNext]_clockVars
    BY Zenon DEF Next, vars
  <1> QED BY <1>1, <1>2, <1>3, <1>4, <1>5, <1>6, <1>7

LEMMA PartsBegin ==
    Init => /\ LimiterInit /\ ProxyInit /\ ToolsInit
            /\ PlayerInit /\ PanoramaInit /\ WallpaperInit /\ ClockInit
  BY DEF Init

\* The limiter of the frontend: its map never outgrows its bound, and whoever
\* comes back when told to is let in.
THEOREM FrontendLimiter == Spec => []LimiterSound
  BY PartsBegin, PartsMove, LimiterFirst, LimiterStep, LimiterInvSound, PTL DEF Spec

\* And it implements the guard with unbounded memory.
THEOREM FrontendGuard == Spec => GuardSpec
  BY PartsBegin, PartsMove, LimiterFirst, LimiterStep, GuardFirst, GuardStep, PTL
  DEF Spec, GuardSpec, Guard!Spec

\* The chat route and the tools of the agent, whatever is asked of them.
THEOREM FrontendServer == Spec => []ServerSound
  <1>1. ProxyInv /\ ToolsInv => ServerSound
    BY ProxyInvSound, ToolsInvSound DEF ServerSound
  <1> QED BY <1>1, PartsBegin, PartsMove, ProxyFirst, ProxyStep, ToolsFirst, ToolsStep, PTL
      DEF Spec

\* The player, the panorama and the wallpaper of the page, under any order of
\* late loads, timers and visibility.
THEOREM FrontendPage == Spec => []PageSound
  <1>1. PlayerInv /\ PanoramaInv /\ WallpaperInv => PageSound
    BY PlayerInvSound, PanoramaInvSound, WallpaperInvSound DEF PageSound
  <1> QED BY <1>1, PartsBegin, PartsMove, PlayerFirst, PlayerStep, PanoramaFirst,
        PanoramaStep, WallpaperFirst, WallpaperStep, PTL DEF Spec

\* The wallpaper shows the frames of the moment.
THEOREM FrontendClock == Spec => []ClockSound
  BY PartsBegin, PartsMove, ClockFirst, ClockStep, ClockInvSound, PTL DEF Spec

\* The newest place of the page keeps the player until that very place goes.
THEOREM FrontendSlot == Spec => NewestKeepsSlot
  BY PartsMove, KeepsSlot, PTL DEF Spec, NewestKeepsSlot
=============================================================================
