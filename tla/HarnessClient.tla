---------------------------- MODULE HarnessClient ----------------------------
(***************************************************************************)
(* One harness client: the dsh process of a chat turn and the goroutines   *)
(* around it (backend-go/internal/harness/client.go and queue.go).  The    *)
(* turn starts it, sends "initialize" and "session/prompt" and consumes    *)
(* notifications; readLoop, waitLoop and Close run beside it.  A section   *)
(* under Client.mu or under the queue's mutex is one step; a signal of the *)
(* queue is a step of its own.                                             *)
(*                                                                         *)
(* Of a notification only its kind counts: the receipt of the prompt, an   *)
(* idle status, the start of a subagent, or an event of that subagent's    *)
(* session.  An event of the turn's own is treated as its start is.        *)
(***************************************************************************)
EXTENDS Naturals, Sequences, FiniteSets

NotificationKinds == {"receipt", "idle", "started", "nested"}

CONSTANTS
  MaxNotificationEvents, \* what the queue takes in at most
  MaxPipe,               \* lines the pipe of the child's output holds
  Scripts                \* what a child may say: sequences of kinds

ASSUME ClientAssumption ==
  /\ MaxNotificationEvents \in Nat \ {0} /\ MaxPipe \in Nat \ {0}
  /\ \A s \in Scripts : s \in Seq(NotificationKinds)

Methods == {"initialize", "prompt", "shutdown"}
NoLine == [kind |-> "none", of |-> "none", n |-> 0]
AnswerTo(m, kind) == [kind |-> kind, of |-> m, n |-> 0]
Notified(kind, k) == [kind |-> kind, of |-> "none", n |-> k]

VARIABLES
  turn,      \* where the goroutine of the turn is
  runEnd,    \* how the turn ended: "none" while it has not
  known,     \* Client.sessionParents holds the subagent
  delivered, \* the notifications Run took as the turn's, by number
  calls,     \* where the request of each method is; one writes at a time
  pending,   \* Client.pending
  answers,   \* what is in the channel of each request
  child,     \* the process: "none", "up", "exited" or "reaped"
  deaf,      \* it reads no more
  heard,     \* requests sent to it that it has not answered
  script,    \* the kinds of notification it sends, in order
  emitted,   \* how many of them it has sent, or will not send
  outPipe,   \* lines in the pipe of its output
  readLoop,  \* "none", "reading" or "over"
  found,     \* the answer readLoop has looked up the request of
  waitLoop,  \* "none", "waiting", "failing", "queueing" or "over"
  closer,    \* where Close is
  queued,    \* notificationQueue.items
  queueErr,  \* notificationQueue.err is set
  token,     \* notificationQueue.wake holds a token
  owed       \* the goroutines that are about to signal

turnVars == <<turn, runEnd, known, delivered>>
callVars == <<calls, pending, answers>>
childVars == <<child, deaf, heard, script, emitted, outPipe>>
loopVars == <<readLoop, found, waitLoop>>
queueVars == <<queued, queueErr, token, owed>>
clientVars == <<turnVars, callVars, childVars, loopVars, closer, queueVars>>

ClientInit ==
  /\ turn = "new" /\ runEnd = "none"
  /\ known = FALSE /\ delivered = <<>>
  /\ calls = [m \in Methods |-> "none"] /\ pending = {}
  /\ answers = [m \in Methods |-> "none"]
  /\ child = "none" /\ deaf = FALSE /\ heard = {}
  /\ script \in Scripts /\ emitted = 0 /\ outPipe = <<>>
  /\ readLoop = "none" /\ found = NoLine /\ waitLoop = "none" /\ closer = "none"
  /\ queued = <<>> /\ queueErr = FALSE /\ token = FALSE /\ owed = {}

\* What Close and Wait leave: Client.closed, waitDone, and stdin, which either
\* closes and Close sets back to nil.
Closed == closer # "none"
WaitDone == waitLoop \notin {"none", "waiting"}
StdinGone == closer = "over"
StdinShut == WaitDone \/ closer \notin {"none", "shutdown"}

-----------------------------------------------------------------------------
(* The notification queue: reset, push, fail, signal *)

ResetQueue ==
  /\ queued' = <<>> /\ queueErr' = FALSE
  /\ UNCHANGED <<token, owed>>

\* A push over the limit drops everything and leaves the error for the reader
\* of the queue; after an error nothing is taken in and nobody is signalled.
\* What reaches the queue when the turn has ended is seen by nobody: left out.
Unread == turn = "ended"

Push(line) ==
  \/ /\ queueErr \/ Unread
     /\ UNCHANGED queueVars
  \/ /\ ~queueErr /\ ~Unread
     /\ IF Len(queued) >= MaxNotificationEvents
        THEN queued' = <<>> /\ queueErr' = TRUE
        ELSE queued' = Append(queued, line) /\ queueErr' = FALSE
     /\ owed' = owed \cup {"readLoop"}
     /\ UNCHANGED token

FailQueue(who) ==
  \/ /\ Unread
     /\ UNCHANGED queueVars
  \/ /\ ~Unread
     /\ queueErr' = TRUE /\ owed' = owed \cup {who}
     /\ UNCHANGED <<queued, token>>

\* Slip: a signal reaches only a reader that sleeps already.
SignalIfAsleep(who) ==
  /\ who \in owed
  /\ owed' = owed \ {who} /\ token' = (token \/ turn = "asleep")
  /\ UNCHANGED <<queued, queueErr>>

\* The channel holds one token: a signal that finds it full is not needed.
SignalWake(who) ==
  /\ who \in owed
  /\ owed' = owed \ {who} /\ token' = TRUE
  /\ UNCHANGED <<queued, queueErr>>

Signals ==
  /\ \E who \in owed : SignalWake(who)
  /\ UNCHANGED <<callVars, childVars, loopVars>>

-----------------------------------------------------------------------------
(* requestRaw and writeMessage *)

\* What the turn does when a request of it has returned.
After(m, result) ==
  CASE m = "shutdown" -> turn
    [] m # "shutdown" /\ result # "result" -> "ended"
    [] m = "initialize" /\ result = "result" -> "ready"
    [] m = "prompt" /\ result = "result" -> "popping"

CallReturns(m, result) ==
  /\ calls' = [calls EXCEPT ![m] = "returned"]
  /\ pending' = pending \ {m}
  /\ turn' = After(m, result)
  /\ runEnd' = IF turn' = "ended" /\ turn # "ended" THEN "failed" ELSE runEnd
  /\ UNCHANGED <<known, delivered>>

\* A request that fails leaves its channel to nobody, unless readLoop has looked
\* it up and is about to send.
FailCall(m) ==
  /\ CallReturns(m, "error")
  /\ answers' = [answers EXCEPT ![m] = IF found.of = m THEN @ ELSE "none"]

Go(m, stage) ==
  /\ calls' = [calls EXCEPT ![m] = stage]
  /\ UNCHANGED turnVars

\* The request is registered before it is written.
Registers(m) ==
  /\ calls[m] = "checked"
  /\ Go(m, "registered") /\ pending' = pending \cup {m}
  /\ UNCHANGED <<answers, heard>>

TakesPen(m) ==
  /\ calls[m] = "registered" /\ \A o \in Methods : calls[o] # "writing"
  /\ IF StdinGone THEN FailCall(m)
     ELSE Go(m, "writing") /\ UNCHANGED <<pending, answers>>
  /\ UNCHANGED heard

\* A write ends when the pipe has taken all of it; it fails when the pipe is
\* closed at either end, and nothing else interrupts it.
Writable == ~StdinShut /\ child = "up"

WriteLands(m) ==
  /\ calls[m] = "writing" /\ Writable
  /\ Go(m, "waiting") /\ heard' = heard \cup {m}
  /\ UNCHANGED <<pending, answers>>

WriteFails(m) ==
  /\ calls[m] = "writing" /\ ~Writable
  /\ FailCall(m)
  /\ UNCHANGED heard

Answered(m) ==
  /\ calls[m] = "waiting" /\ answers[m] # "none"
  /\ CallReturns(m, answers[m]) /\ answers' = [answers EXCEPT ![m] = "none"]
  /\ UNCHANGED heard

\* The timer of the request, or the context of the turn.
GivesUp(m) ==
  /\ calls[m] = "waiting"
  /\ FailCall(m)
  /\ UNCHANGED heard

Request(m) ==
  /\ \/ Registers(m) \/ TakesPen(m) \/ WriteLands(m) \/ WriteFails(m)
     \/ Answered(m) \/ GivesUp(m)
  /\ UNCHANGED <<child, deaf, script, emitted, outPipe, loopVars, closer, queueVars>>

\* Slip: the process dies and the pending requests are forgotten, not failed.
FailAllForgets == pending' = {} /\ UNCHANGED <<calls, answers>>

\* failAll: whoever is pending gets the error, unless an answer is there.
FailAll ==
  /\ answers' = [m \in Methods |->
        IF m \in pending /\ answers[m] = "none" THEN "error" ELSE answers[m]]
  /\ pending' = {}
  /\ UNCHANGED calls

-----------------------------------------------------------------------------
(* The turn: Start, Initialize, Run *)

Ends(how) == turn' = "ended" /\ runEnd' = how

StartBegins ==
  /\ turn = "new"
  /\ IF Closed THEN Ends("failed") ELSE turn' = "starting" /\ UNCHANGED runEnd
  /\ UNCHANGED <<known, delivered, callVars, childVars, loopVars, queueVars>>

\* The process is started outside the mutex, or fails to start.
Spawns ==
  /\ turn = "starting"
  /\ \/ child' = "up" /\ turn' = "spawned" /\ UNCHANGED runEnd
     \/ Ends("failed") /\ UNCHANGED child
  /\ UNCHANGED <<known, delivered, callVars, deaf, heard, script, emitted, outPipe, loopVars,
                 queueVars>>

\* Slip: Start does not look again whether the client was closed meanwhile.
RecordedAnyway == TRUE

Recorded == ~Closed

\* Client.cmd is set, unless a Close came first: it has found no process.
Records ==
  /\ turn = "spawned"
  /\ IF Recorded
     THEN turn' = "initialize" /\ readLoop' = "reading" /\ waitLoop' = "waiting"
     ELSE turn' = "discarding" /\ UNCHANGED <<readLoop, waitLoop>>
  /\ UNCHANGED <<runEnd, known, delivered, callVars, childVars, found, queueVars>>

\* request: the check of closed, before anything is registered.
Begin(m) ==
  /\ IF Closed
     THEN Ends("failed") /\ UNCHANGED calls
     ELSE /\ calls' = [calls EXCEPT ![m] = "checked"]
          /\ turn' = m /\ UNCHANGED runEnd
  /\ UNCHANGED <<delivered, pending, answers, childVars, loopVars>>

InitializeBegins ==
  /\ turn = "initialize" /\ calls["initialize"] = "none"
  /\ Begin("initialize")
  /\ UNCHANGED <<known, queueVars>>

\* Run forgets what the queue holds from before, an error included.
RunBegins ==
  /\ turn = "ready"
  /\ ResetQueue /\ known' = FALSE
  /\ Begin("prompt")

\* Whether Run takes a notification as the turn's.
Belongs(line) == line.kind = "nested" => known
\* Slip: the turn begins at any of its notifications, not at its receipt.
CountsAny(line) == Belongs(line)

Counts(line) == Belongs(line) /\ (delivered # <<>> \/ line.kind = "receipt")

\* What Run makes of one notification; the callback may refuse it.
Consume(line) ==
  /\ known' = (known \/ line.kind = "started")
  /\ \/ /\ Counts(line)
        /\ delivered' = Append(delivered, line.n)
        /\ IF line.kind = "idle" THEN Ends("completed") ELSE UNCHANGED <<turn, runEnd>>
     \/ /\ Counts(line)
        /\ Ends("failed") /\ UNCHANGED delivered
     \/ /\ ~Counts(line)
        /\ UNCHANGED <<turn, runEnd, delivered>>

Pops ==
  /\ turn = "popping"
  /\ \/ queued # <<>> /\ queued' = Tail(queued) /\ Consume(Head(queued))
     \/ /\ queued = <<>> /\ UNCHANGED <<queued, known, delivered>>
        /\ IF queueErr THEN Ends("failed") ELSE turn' = "leaving" /\ UNCHANGED runEnd
  /\ UNCHANGED <<queueErr, token, owed, callVars, childVars, loopVars>>

\* Between the mutex and the select nobody listens to the channel.
Sleeps ==
  /\ turn = "leaving" /\ turn' = "asleep"
  /\ UNCHANGED <<runEnd, known, delivered, callVars, childVars, loopVars, queueVars>>

\* A token, or the end of the turn's context.
RunWoken ==
  /\ turn = "asleep"
  /\ \/ token /\ token' = FALSE /\ turn' = "popping" /\ UNCHANGED runEnd
     \/ Ends("failed") /\ UNCHANGED token
  /\ UNCHANGED <<known, delivered, queued, queueErr, owed, callVars, childVars,
                 loopVars>>

-----------------------------------------------------------------------------
(* The child *)

ChildAnswers ==
  /\ child = "up" /\ Len(outPipe) < MaxPipe
  /\ \E m \in heard, kind \in {"result", "error"} :
        /\ m = "shutdown" => kind = "result"
        /\ heard' = heard \ {m}
        /\ outPipe' = Append(outPipe, AnswerTo(m, kind))
  /\ UNCHANGED <<deaf, child, script, emitted>>

\* A status may come as soon as the child runs, the others follow the prompt.
\* What it says to nobody is left out.
ChildEmits ==
  /\ child = "up" /\ Len(outPipe) < MaxPipe /\ emitted < Len(script)
  /\ turn # "ended"
  /\ emitted' = emitted + 1
  /\ script[emitted'] # "idle" => calls["prompt"] \in {"waiting", "returned"}
  /\ outPipe' = Append(outPipe, Notified(script[emitted'], emitted'))
  /\ UNCHANGED <<deaf, child, heard, script>>

\* It matters when a write is under way.
ChildGoesDeaf ==
  /\ child = "up" /\ ~deaf /\ \E m \in Methods : calls[m] = "writing"
  /\ deaf' = TRUE
  /\ UNCHANGED <<child, heard, script, emitted, outPipe>>

ChildExits ==
  /\ child = "up" /\ child' = "exited"
  /\ heard' = {} /\ deaf' = FALSE /\ emitted' = Len(script)
  /\ UNCHANGED <<script, outPipe>>

\* Start kills the process it may not keep, and waits for it.
Discards ==
  /\ turn = "discarding"
  /\ \/ ChildExits /\ UNCHANGED <<turn, runEnd>>
     \/ /\ child = "exited" /\ child' = "reaped" /\ Ends("failed")
        /\ UNCHANGED <<deaf, heard, script, emitted, outPipe>>
  /\ UNCHANGED <<known, delivered, callVars, loopVars, queueVars>>

Turn ==
  /\ \/ StartBegins \/ Spawns \/ Records \/ Discards
     \/ InitializeBegins \/ RunBegins \/ Pops \/ Sleeps \/ RunWoken
  /\ UNCHANGED closer

Child ==
  /\ ChildAnswers \/ ChildEmits \/ ChildGoesDeaf \/ ChildExits
  /\ UNCHANGED <<turnVars, callVars, loopVars, closer, queueVars>>

-----------------------------------------------------------------------------
(* readLoop and waitLoop *)

CanRead == readLoop = "reading" /\ found = NoLine /\ "readLoop" \notin owed

\* An answer is matched under the mutex and sent after it; a notification is
\* pushed.  What was read ahead is still handled after the process is reaped.
ReadsLine ==
  /\ CanRead /\ outPipe # <<>> /\ outPipe' = Tail(outPipe)
  /\ LET line == Head(outPipe) IN
     IF line.n = 0
     THEN /\ found' = IF line.of \in pending THEN line ELSE NoLine
          /\ UNCHANGED queueVars
     ELSE Push(line) /\ UNCHANGED found
  /\ UNCHANGED <<callVars, child, deaf, heard, script, emitted, readLoop, waitLoop>>

\* The channel takes one answer: a second one waits for the first to be taken.
SendsAnswer ==
  /\ found # NoLine /\ answers[found.of] = "none"
  /\ answers' = [answers EXCEPT ![found.of] = found.kind]
  /\ found' = NoLine
  /\ UNCHANGED <<calls, pending, childVars, readLoop, waitLoop, queueVars>>

\* The end of the output is no error; a line too long is one, and so is a pipe
\* that Wait has closed, with lines in it or not.
ReadEnds ==
  /\ CanRead /\ child \in {"exited", "reaped"} /\ outPipe = <<>>
  /\ readLoop' = "over"
  /\ UNCHANGED <<callVars, childVars, found, waitLoop, queueVars>>

ReadFails ==
  /\ CanRead /\ (child = "reaped" \/ outPipe # <<>>)
  /\ readLoop' = "over" /\ FailQueue("readLoop")
  /\ UNCHANGED <<callVars, childVars, found, waitLoop>>

\* cmd.Wait closes the pipes of the parent when the process has ended.
Reaps ==
  /\ waitLoop = "waiting" /\ child = "exited"
  /\ child' = "reaped" /\ waitLoop' = "failing"
  /\ UNCHANGED <<callVars, deaf, heard, script, emitted, outPipe, readLoop, found, queueVars>>

WaitFailsCalls ==
  /\ waitLoop = "failing" /\ waitLoop' = "queueing" /\ FailAll
  /\ UNCHANGED <<childVars, readLoop, found, queueVars>>

WaitFailsQueue ==
  /\ waitLoop = "queueing" /\ waitLoop' = "over" /\ FailQueue("waitLoop")
  /\ UNCHANGED <<callVars, childVars, readLoop, found>>

Loops ==
  /\ \/ ReadsLine \/ SendsAnswer \/ ReadEnds \/ ReadFails
     \/ Reaps \/ WaitFailsCalls \/ WaitFailsQueue \/ Signals
  /\ UNCHANGED <<turnVars, closer>>

-----------------------------------------------------------------------------
(* Close: by the turn when it has ended, by Shutdown at any time, once.  It  *)
(* knows a process from Client.cmd only.  Its request needs no check:        *)
(* registering it belongs to the same step.                                  *)

CloseBegins ==
  /\ closer = "none"
  /\ IF waitLoop = "none"
     THEN closer' = "over" /\ FailAll /\ FailQueue("close")
     ELSE /\ closer' = "shutdown"
          /\ calls' = [calls EXCEPT !["shutdown"] = "registered"]
          /\ pending' = pending \cup {"shutdown"}
          /\ UNCHANGED <<answers, queueVars>>
  /\ UNCHANGED childVars

StdinCloses ==
  /\ closer = "shutdown" /\ calls["shutdown"] = "returned"
  /\ closer' = "waiting"
  /\ UNCHANGED <<callVars, childVars, queueVars>>

\* Slip: Close waits for the process without ever killing it.
NeverKills == FALSE /\ UNCHANGED closer

\* SIGTERM, which the child may heed as it may exit at any time, and then Kill.
LosesPatience ==
  /\ closer = "waiting" /\ ~WaitDone
  /\ closer' = "killing"
  /\ UNCHANGED <<callVars, childVars, queueVars>>

Killed ==
  /\ closer = "killing" /\ ChildExits
  /\ UNCHANGED <<callVars, closer, queueVars>>

CloseEnds ==
  /\ closer \in {"waiting", "killing"} /\ WaitDone
  /\ closer' = "over" /\ FailAll /\ FailQueue("close")
  /\ UNCHANGED childVars

Close ==
  /\ CloseBegins \/ StdinCloses \/ LosesPatience \/ Killed \/ CloseEnds
  /\ UNCHANGED <<turnVars, loopVars>>

ClientNext == Turn \/ Child \/ Loops \/ Close \/ \E m \in Methods : Request(m)

\* A write the child does not make room for: Close waits behind it for writeMu.
Stuck == deaf /\ Writable /\ \E m \in Methods : calls[m] = "writing"

\* The goroutines go on, timers and contexts end, a kill works, and a child that
\* reads makes room for a write.  Nothing is assumed of one that does not, nor
\* that a child answers, speaks or exits; Close follows the end of the turn.
\* A turn has finitely many steps, so that fairness to all is fairness to each.
Goes ==
  \/ Turn \/ Loops
  \/ \E m \in Methods : Request(m) /\ ~(Stuck /\ calls[m] = "writing")
  \/ Close /\ (closer = "none" => turn = "ended")

-----------------------------------------------------------------------------
FlagsOK == {known, deaf, queueErr, token} \subseteq BOOLEAN

ClientTypeOK ==
  /\ turn \in {"new", "starting", "spawned", "discarding", "initialize", "ready", "prompt",
               "popping", "leaving", "asleep", "ended"}
  /\ runEnd \in {"none", "failed", "completed"}
  /\ calls \in [Methods -> {"none", "checked", "registered", "writing", "waiting",
                            "returned"}]
  /\ pending \subseteq Methods /\ heard \subseteq Methods
  /\ answers \in [Methods -> {"none", "result", "error"}]
  /\ child \in {"none", "up", "exited", "reaped"}
  /\ script \in Scripts /\ emitted \in 0..Len(script)
  /\ Len(outPipe) <= MaxPipe /\ Len(queued) <= MaxNotificationEvents
  /\ readLoop \in {"none", "reading", "over"}
  /\ waitLoop \in {"none", "waiting", "failing", "queueing", "over"}
  /\ closer \in {"none", "shutdown", "waiting", "killing", "over"}
  /\ owed \subseteq {"readLoop", "waitLoop", "close"}
  /\ FlagsOK

\* The notifications of the turn up to the k-th: from the receipt on, those of
\* its own session and of the subagent it has started.
TurnsUpTo(k) ==
  {i \in 1..k : /\ \E r \in 1..i : script[r] = "receipt"
                /\ script[i] = "nested" => \E s \in 1..i : script[s] = "started"}

\* What Run hands on is a prefix of the turn, in order and without a gap, whatever
\* the pipes and the queue lost; it completes at the first idle status after the
\* receipt, never at one from before.
RunTrue ==
  LET last == IF delivered = <<>> THEN 0 ELSE delivered[Len(delivered)]
      idles == {i \in 1..Len(delivered) : script[delivered[i]] = "idle"}
  IN  /\ \A i, j \in 1..Len(delivered) : i < j => delivered[i] < delivered[j]
      /\ {delivered[i] : i \in 1..Len(delivered)} = TurnsUpTo(last)
      /\ idles = IF runEnd = "completed" THEN {Len(delivered)} ELSE {}
      /\ runEnd = "completed" => delivered # <<>>

\* When waitLoop has failed the pending requests, whoever still waits has an
\* answer: no request is left to its timer because the process died.
NobodyWaitsForTheDead ==
  waitLoop \in {"queueing", "over"} =>
     \A m \in Methods : calls[m] = "waiting" => answers[m] # "none"

\* No wake-up is lost: when Run has found nothing and goes to sleep, whatever it
\* should see has its token in the channel or a goroutine about to put it there.
QueueWakes ==
  turn \in {"leaving", "asleep"} /\ (queued # <<>> \/ queueErr) => token \/ owed # {}

\* A Close that is over leaves no request waiting, and no process but one that
\* Start has begun meanwhile and holds: Start discards it before it returns, so
\* that none is left when the turn has ended as well.
ClosedLeavesNobody ==
  closer = "over" =>
     /\ child \in {"none", "reaped"} \/ turn \in {"spawned", "discarding"}
     /\ \A m \in Methods : calls[m] = "waiting" => answers[m] # "none"

\* Together: the client tells the turn the truth, wakes it, and leaves nothing.
ClientSound ==
  ClientTypeOK /\ RunTrue /\ NobodyWaitsForTheDead /\ QueueWakes /\ ClosedLeavesNobody

\* The turn has ended and Close with it, unless a child that reads no more holds
\* a write for good.
ClientOver == Stuck \/ (turn = "ended" /\ closer = "over")
=============================================================================
