---------------------------- MODULE WebsiteTools ----------------------------
(***************************************************************************)
(* The tools the agent may call (website-tools.mjs): two that look public  *)
(* entries up, and the quiz that unlocks the relationship mode.  A call is *)
(* whatever the model generates.  A public entry is a key; an answer is    *)
(* matched or not by answerMatches, which is left abstract.                *)
(***************************************************************************)
EXTENDS Naturals, FiniteSets

CONSTANTS
    Questions,      \* 5: how many the quiz has, in their order
    SitePages, SiteApps \* the public entries

ASSUME QuizAssumption == Questions \in Nat \ {0} /\ SitePages \cap SiteApps = {}

Registered == {"site_info", "desktop_apps", "girlfriend_mode"}
ToolNames == Registered \cup {"bash"}

\* What the arguments can supply for a question.
Supplied == {"none", "wrong", "right"}

\* Arguments: not of the shape the tool accepts, none, or one of a public
\* entry, a key nobody knows, or answers.
Arguments ==
    [kind: {"malformed", "all"}, entry: {"none"}, answers: {<<>>}]
       \cup [kind: {"one"}, entry: SitePages \cup SiteApps \cup {"unknown"}, answers: {<<>>}]
       \cup [kind: {"answers"}, entry: {"none"}, answers: [1..Questions -> Supplied]]

\* What a call gives: a result of its kind, or an error.
Error == [kind |-> "error", entries |-> {}, unlocked |-> FALSE, progress |-> 0]
NoResult == [kind |-> "none", entries |-> {}, unlocked |-> FALSE, progress |-> 0]
Entries(e) == [kind |-> "entries", entries |-> e, unlocked |-> FALSE, progress |-> 0]
Quiz(unlocked, progress) ==
    [kind |-> "quiz", entries |-> {}, unlocked |-> unlocked, progress |-> progress]

VARIABLES
    configured,     \* GIRLFRIEND_QUIZ_ANSWERS: the questions with usable answers
    called, arguments, result   \* the call that was made, and what it gave

toolVars == <<configured, called, arguments, result>>

ToolsTypeOK ==
    /\ configured \subseteq 1..Questions
    /\ called \in ToolNames /\ arguments \in Arguments
    /\ result.progress \in 0..Questions

ToolsInit ==
    /\ configured \in SUBSET (1..Questions)
    /\ called = "site_info" /\ result = NoResult
    /\ arguments = [kind |-> "all", entry |-> "none", answers |-> <<>>]

\* selectPublicEntries
SelectPublicEntries(args, entries) ==
    IF args.kind = "all" THEN Entries(entries)
    ELSE IF args.kind = "one" /\ args.entry \in entries THEN Entries({args.entry})
    ELSE Error

\* Slip: what is answered, in any order.
CountsAll(args, config) ==
    IF args.kind # "answers" \/ config # 1..Questions THEN Error
    ELSE LET right == {q \in 1..Questions : args.answers[q] = "right"} IN
         Quiz(right = 1..Questions, Cardinality(right))

\* verifyQuiz: up to the first question that is not answered, or not rightly.
VerifyQuiz(args, config) ==
    IF args.kind # "answers" \/ config # 1..Questions THEN Error
    ELSE LET open == {q \in 1..Questions : args.answers[q] # "right"} IN
         IF open = {} THEN Quiz(TRUE, Questions)
         ELSE Quiz(FALSE, (CHOOSE q \in open : \A p \in open : q <= p) - 1)

\* The guard lets only the three through; an aborted call gives nothing.
Gives(name, args, config) ==
    CASE name = "site_info" -> SelectPublicEntries(args, SitePages)
      [] name = "desktop_apps" -> SelectPublicEntries(args, SiteApps)
      [] name = "girlfriend_mode" -> VerifyQuiz(args, config)
      [] OTHER -> Error

CallTool ==
    /\ result = NoResult
    /\ \E name \in ToolNames, args \in Arguments :
          /\ called' = name /\ arguments' = args
          /\ result' = Gives(name, args, configured)
    /\ UNCHANGED configured

\* The agent goes on with what it was given.
GoesOn ==
    /\ result # NoResult
    /\ called' = "site_info" /\ result' = NoResult
    /\ arguments' = [kind |-> "all", entry |-> "none", answers |-> <<>>]
    /\ UNCHANGED configured

ToolsNext == CallTool \/ GoesOn

ToolsSpec == ToolsInit /\ [][ToolsNext]_toolVars

-----------------------------------------------------------------------------
(* Properties.                                                             *)

\* What the backend takes for the unlock (service.go:413): all five, passed.
TakenForUnlock(r) == r.kind = "quiz" /\ r.unlocked /\ r.progress = Questions

UnlockMeansAll ==
    TakenForUnlock(result) <=>
       /\ called = "girlfriend_mode" /\ configured = 1..Questions
       /\ arguments.kind = "answers"
       /\ \A q \in 1..Questions : arguments.answers[q] = "right"

\* A result never reveals a right answer (website-tools.mjs:91): nothing an
\* answer behind the first that fails says can be read from it.
Discreet ==
    called = "girlfriend_mode" /\ arguments.kind = "answers" /\ result.kind = "quiz" =>
       \A q \in result.progress + 2..Questions, s \in Supplied :
          Gives(called, [arguments EXCEPT !.answers[q] = s], configured) = result

\* Public entries come from the two that look up, and only what they own.
OnlyPublic ==
    result.entries # {} =>
       \/ called = "site_info" /\ result.entries \subseteq SitePages
       \/ called = "desktop_apps" /\ result.entries \subseteq SiteApps

ToolsSound == ToolsTypeOK /\ UnlockMeansAll /\ Discreet /\ OnlyPublic
=============================================================================
