--------------------------- MODULE ChatTurnProofs ---------------------------
(***************************************************************************)
(* Proofs about a chat turn.  ChatStream, for every size of the buffer and *)
(* every number of events: no wake-up is lost, the handler always finds a  *)
(* terminal, a turn ends once, what passes through the buffer is bounded,  *)
(* complete and in order, and the verdict is true.  HarnessClient, for     *)
(* every script of the child and every size of the queue and of the pipe.  *)
(***************************************************************************)
EXTENDS ChatTurn, SequenceTheorems, WellFoundedInduction, TLAPS

\* The clauses of the sections under the mutex that the proofs look into.
LEMMA PublishCases ==
  ASSUME NEW e, NEW next, Publish(e, next)
  PROVE  \/ worker' = next /\ failure' = failure /\ UNCHANGED <<terminal, stopped>>
              /\ ((items # <<>> /\ owes' = owes) \/ owes' = owes \cup {"worker"})
         \/ worker' = "failing" /\ failure' # "none" /\ stopped /\ UNCHANGED <<buffer, owes>>
         \/ worker' = "failing" /\ failure' # "none" /\ ~stopped /\ terminal' = "slow_consumer" /\ stopped'
              /\ owes' = owes \cup {"worker"}
  <1>1. CASE stopped
    BY <1>1 DEF Publish, buffer
  <1>2. CASE ~stopped /\ Merges(e)
    BY <1>2 DEF Publish, Merges, Merge
  <1>3. CASE ~stopped /\ ~Merges(e) /\ Overflows
    BY <1>3 DEF Publish, Overflow
  <1>4. CASE ~stopped /\ ~Merges(e) /\ ~Overflows
    BY <1>4 DEF Publish, Add
  <1> QED BY <1>1, <1>2, <1>3, <1>4

-----------------------------------------------------------------------------
(* No lost wake-up *)

LEMMA WakeInit == Init => NoLostWakeup
  BY DEF Init, NoLostWakeup

LEMMA WakeNext == NoLostWakeup /\ [Next]_vars => NoLostWakeup'
  <1> SUFFICES ASSUME NoLostWakeup, [Next]_vars PROVE NoLostWakeup'
    OBVIOUS
  <1> USE DEF NoLostWakeup
  <1>1. ASSUME NEW stage, NEW next, Progress(stage, next) PROVE NoLostWakeup'
    <2>1. CASE progressive
      <3>1. Publish(Event("note"), next)
        BY <1>1, <2>1 DEF Progress
      <3> QED BY <1>1, <3>1, PublishCases DEF Progress, WorkerOnly, loop, buffer
    <2>2. CASE ~progressive
      BY <1>1, <2>2 DEF Progress, WorkerOnly, loop, buffer
    <2> QED BY <2>1, <2>2
  <1>2. ASSUME NEW kind \in Kinds, Notify(kind) PROVE NoLostWakeup'
    BY <1>2, PublishCases DEF Notify, WorkerOnly, loop, buffer
  <1>3. CASE Launch \/ Interrupt \/ RunReturns \/ Fail \/ CloseLease
    BY <1>3 DEF Launch, Interrupt, RunReturns, Fail, CloseLease, WorkerOnly, loop, buffer
  <1>4. ASSUME NEW kind, Finish(kind), UNCHANGED <<wake, handler>> PROVE NoLostWakeup'
    BY <1>4 DEF Finish, buffer
  <1>5. CASE FinishError \/ FinishResult
    BY <1>4, <1>5 DEF FinishError, FinishResult, WorkerOnly, loop
  <1>6. CASE StopWorker
    BY <1>6 DEF StopWorker, Stop, WorkerOnly, loop
  <1>7. CASE Check \/ Woken \/ ContextDone \/ TimerFires \/ Emit \/ EmitFails
    BY <1>7 DEF Check, Woken, ContextDone, TimerFires, Emit, EmitFails, Return
  <1>8. CASE Get
    <2>1. handler' = "select" => items = <<>> /\ terminal = "none"
      BY <1>8 DEF Get, Return
    <2>2. handler' = "select" => items' = <<>> /\ terminal' = "none"
      BY <1>8, <2>1 DEF Get, Return
    <2> QED BY <2>2
  <1>9. ASSUME NEW frame, NEW next, next # "select", EmitLast(frame, next) PROVE NoLostWakeup'
    BY <1>9 DEF EmitLast, Return
  <1>10. CASE EmitFinal \/ EmitDesktop \/ EmitDone
    BY <1>9, <1>10 DEF EmitFinal, EmitDesktop, EmitDone
  <1>11. CASE StopHandler \/ Join \/ CleanupTimeout \/ Answer
    BY <1>11 DEF StopHandler, Join, CleanupTimeout, Answer
  <1>12. ASSUME NEW who \in {"worker", "handler"}, Signal(who) PROVE NoLostWakeup'
    BY <1>12 DEF Signal
  <1>13. CASE Disconnect \/ RunExpires \/ DeadlinePasses
    BY <1>13 DEF Disconnect, RunExpires, DeadlinePasses, buffer, loop
  <1>14. CASE UNCHANGED vars
    BY <1>14 DEF vars, buffer, loop
  <1> QED
    BY <1>1, <1>2, <1>3, <1>5, <1>6, <1>7, <1>8, <1>10, <1>11, <1>12, <1>13, <1>14
    DEF Next, WorkerStep, HandlerStep, Clock, Prepare, Analyze, Finalize

\* No wake-up is lost, whatever the sizes of the buffer.
THEOREM WakeupKept == Spec => []NoLostWakeup
  BY WakeInit, WakeNext, PTL DEF Spec

-----------------------------------------------------------------------------
(* The handler finds a terminal *)

\* A stopped buffer has a terminal as long as the handler is in its loop.  The
\* handler stops the buffer only after it has left; the worker, when it
\* overflows, which sets the terminal, or on its way out.
StoppedInv == Looping /\ stopped => terminal # "none"

\* A handler out of its loop has its verdict, a worker that reports has an error.
StageInv ==
  /\ handler \in {"leaving", "joining", "returned", "end"} <=> ~Looping
  /\ worker = "failing" => failure # "none"

ToldInv == StoppedInv /\ StageInv /\ Told

LEMMA ToldInit == Init => ToldInv
  BY DEF Init, ToldInv, StoppedInv, StageInv, Told, Looping

LEMMA ToldNext == ToldInv /\ [Next]_vars => ToldInv'
  <1> SUFFICES ASSUME ToldInv, [Next]_vars PROVE ToldInv'
    OBVIOUS
  <1> USE DEF ToldInv, StoppedInv, StageInv, Told, Looping
  <1>1. ASSUME NEW stage, NEW next,
               next \notin {"failing", "closing", "stopping", "done"},
               Progress(stage, next)
        PROVE  ToldInv'
    <2>1. CASE progressive
      <3>1. Publish(Event("note"), next)
        BY <1>1, <2>1 DEF Progress
      <3> QED BY <1>1, <3>1, PublishCases DEF Progress, WorkerOnly, loop, buffer
    <2>2. CASE ~progressive
      BY <1>1, <2>2 DEF Progress, WorkerOnly, loop, buffer
    <2> QED BY <2>1, <2>2
  <1>2. ASSUME NEW kind \in Kinds, Notify(kind) PROVE ToldInv'
    BY <1>2, PublishCases DEF Notify, WorkerOnly, loop, buffer
  <1>3. CASE Launch \/ Interrupt \/ RunReturns \/ Fail
    BY <1>3 DEF Launch, Interrupt, RunReturns, Fail, WorkerOnly, loop, buffer
  <1>4. ASSUME NEW kind, kind # "none", Finish(kind), UNCHANGED verdict
        PROVE  Looping' => terminal' # "none"
    BY <1>4 DEF Finish, buffer
  <1>5. CASE FinishError
    BY <1>4, <1>5 DEF FinishError, AtWorker, WorkerOnly, loop
  <1>6. CASE FinishResult
    BY <1>4, <1>6 DEF FinishResult, WorkerOnly, loop
  <1>7. CASE CloseLease \/ StopWorker
    BY <1>7 DEF CloseLease, StopWorker, AtWorker, Stop, WorkerOnly, loop, buffer
  <1>8. CASE Check \/ Woken \/ ContextDone \/ TimerFires \/ Emit \/ EmitFails
    BY <1>8 DEF Check, Woken, ContextDone, TimerFires, Emit, EmitFails, Return,
                HandlerOnly, NoBuffer, buffer
  <1>9. CASE Get
    BY <1>9 DEF Get, Return, HandlerOnly
  <1>10. CASE EmitFinal \/ EmitDesktop \/ EmitDone
    BY <1>10 DEF EmitFinal, EmitDesktop, EmitDone, EmitLast, Return, HandlerOnly,
                 NoBuffer, buffer
  <1>11. CASE Join \/ CleanupTimeout \/ Answer
    BY <1>11 DEF Join, CleanupTimeout, Answer, HandlerOnly, NoBuffer, buffer
  <1>12. CASE StopHandler
    BY <1>12 DEF StopHandler, Stop, HandlerOnly
  <1>13. CASE \E who \in {"worker", "handler"} : Signal(who)
    BY <1>13 DEF Signal, buffer, loop
  <1>14. CASE Disconnect \/ RunExpires \/ DeadlinePasses \/ UNCHANGED vars
    BY <1>14 DEF Disconnect, RunExpires, DeadlinePasses, vars, buffer, loop
  <1> QED
    BY <1>1, <1>2, <1>3, <1>5, <1>6, <1>7, <1>8, <1>9, <1>10, <1>11, <1>12, <1>13, <1>14
    DEF Next, WorkerStep, HandlerStep, Clock, Prepare, Analyze, Finalize

\* Every path out of the worker leaves a terminal for a handler in its loop.
THEOREM TerminalFound == Spec => []Told
  <1>1. ToldInv => Told
    BY DEF ToldInv
  <1> QED BY <1>1, ToldInit, ToldNext, PTL DEF Spec

-----------------------------------------------------------------------------
(* A turn ends once *)

\* What has been written after the events, at each stage of the handler.
EndInv ==
  /\ handler \in {"check", "get", "select", "emit", "heartbeat", "final"} =>
       ending = <<>> /\ ~broken
  /\ handler = "desktop" => ending = <<"final">> /\ ~broken
  /\ handler = "done" => ending \in {<<"final">>, <<"final", "desktop">>} /\ ~broken
  /\ handler \in {"leaving", "joining", "returned"} =>
       \/ verdict = "completed"
       \/ broken
       \/ ending = <<>>

LEMMA EndInit == Init => EndInv /\ EndsOnce
  BY DEF Init, EndInv, EndsOnce

LEMMA AppendShort ==
  ASSUME NEW x, NEW y, NEW z
  PROVE  /\ Append(<<>>, z) = <<z>>
         /\ Append(<<x>>, z) = <<x, z>>
         /\ Append(<<x, y>>, z) = <<x, y, z>>
  <1> DEFINE S == {x, y, z}
  <1>1. /\ <<x>> \in Seq(S) /\ <<x, y>> \in Seq(S)
        /\ <<x, z>> \in Seq(S) /\ <<x, y, z>> \in Seq(S)
    OBVIOUS
  <1>2. Append(<<x>>, z) \in Seq(S) /\ Append(<<x, y>>, z) \in Seq(S)
    BY <1>1, AppendProperties
  <1>3. Append(<<x>>, z) = <<x, z>>
    <2>1. /\ Len(Append(<<x>>, z)) = 2
          /\ Append(<<x>>, z)[1] = x /\ Append(<<x>>, z)[2] = z
      BY <1>1
    <2>2. \A i \in 1..2 : Append(<<x>>, z)[i] = <<x, z>>[i]
      BY <2>1
    <2> QED BY <1>1, <1>2, <2>1, <2>2, SeqEqual
  <1>4. Append(<<x, y>>, z) = <<x, y, z>>
    <2>1. /\ Len(Append(<<x, y>>, z)) = 3
          /\ Append(<<x, y>>, z)[1] = x /\ Append(<<x, y>>, z)[2] = y
          /\ Append(<<x, y>>, z)[3] = z
      BY <1>1
    <2>2. \A i \in 1..3 : Append(<<x, y>>, z)[i] = <<x, y, z>>[i]
      BY <2>1
    <2> QED BY <1>1, <1>2, <2>1, <2>2, SeqEqual
  <1>5. Append(<<>>, z) = <<z>>
    OBVIOUS
  <1> QED BY <1>3, <1>4, <1>5

\* The frames of EmitLast and Answer.
LEMMA Frames ==
  /\ Append(<<>>, "final") = <<"final">>
  /\ Append(<<>>, "error") = <<"error">>
  /\ Append(<<"final">>, "desktop") = <<"final", "desktop">>
  /\ Append(<<"final">>, "done") = <<"final", "done">>
  /\ Append(<<"final", "desktop">>, "done") = <<"final", "desktop", "done">>
  BY AppendShort

LEMMA EndNext == EndInv /\ EndsOnce /\ StageInv /\ [Next]_vars => EndInv' /\ EndsOnce'
  <1> SUFFICES ASSUME EndInv, EndsOnce, StageInv, [Next]_vars
               PROVE  EndInv' /\ EndsOnce'
    OBVIOUS
  <1> USE DEF EndInv, EndsOnce
  <1>1. ASSUME UNCHANGED <<handler, verdict, broken, ending>> PROVE EndInv' /\ EndsOnce'
    BY <1>1
  <1>2. CASE Check \/ Get \/ Woken \/ ContextDone \/ TimerFires \/ Emit \/ EmitFails
    BY <1>2 DEF Check, Get, Woken, ContextDone, TimerFires, Emit, EmitFails, Return,
                client, StageInv, Looping
  <1>3. CASE EmitFinal \/ EmitDesktop \/ EmitDone
    <2>1. CASE EmitFinal
      BY <1>3, <2>1, Frames DEF EmitFinal, EmitLast, Return
    <2>2. CASE EmitDesktop
      BY <1>3, <2>2, Frames DEF EmitDesktop, EmitLast, Return
    <2>3. CASE EmitDone
      BY <1>3, <2>3, Frames DEF EmitDone, EmitLast, Return
    <2> QED BY <1>3, <2>1, <2>2, <2>3
  <1>4. CASE StopHandler \/ Join \/ CleanupTimeout
    BY <1>4 DEF StopHandler, Join, CleanupTimeout, client
  <1>5. CASE Answer
    BY <1>5, Frames DEF Answer
  <1>6. CASE \E who \in {"worker", "handler"} : Signal(who)
    BY <1>1, <1>6 DEF Signal, loop, client
  <1>7. CASE Disconnect \/ RunExpires \/ DeadlinePasses \/ UNCHANGED vars
    BY <1>1, <1>7 DEF Disconnect, RunExpires, DeadlinePasses, vars, loop, client
  <1>8. CASE \/ WorkerStep \/ Launch \/ RunReturns \/ Fail
             \/ \E kind \in Kinds : Notify(kind)
    BY <1>1, <1>8 DEF WorkerStep, Prepare, Analyze, Finalize, Progress, Launch, Interrupt,
      FinishError, FinishResult, CloseLease, StopWorker, RunReturns, Fail, Notify,
      WorkerOnly, loop, client
  <1> QED
    BY <1>2, <1>3, <1>4, <1>5, <1>6, <1>7, <1>8 DEF Next, HandlerStep, Clock

\* The final reply and done come once, and an error never after them.
THEOREM OneEnding == Spec => []EndsOnce
  <1>1. Init => StoppedInv /\ StageInv /\ Told /\ EndInv /\ EndsOnce
    BY ToldInit, EndInit DEF ToldInv
  <1>2. ToldInv /\ EndInv /\ EndsOnce /\ [Next]_vars
          => (ToldInv /\ EndInv /\ EndsOnce)'
    BY ToldNext, EndNext DEF ToldInv
  <1> QED BY <1>1, <1>2, PTL DEF Spec, ToldInv

-----------------------------------------------------------------------------

\* The end of a stream (service.go, Stream): the handler is woken for whatever
\* is in the buffer, learns of every end of the worker, and ends the response
\* once, for any run of the model and any number of items.
THEOREM EndingIsSound == Spec => []EndingSound
  BY WakeupKept, TerminalFound, OneEnding, PTL DEF EndingSound

-----------------------------------------------------------------------------
(* What passes through the buffer: kinds of values *)

LEMMA TypedParts == FlagsTyped /\ ControlTyped /\ DataTyped /\ EndsOnce => TypeOK
  <1> SUFFICES ASSUME FlagsTyped, ControlTyped, DataTyped, EndsOnce PROVE TypeOK
    OBVIOUS
  <1> DEFINE F == {"final", "desktop", "done", "error"}
  <1>0. /\ <<>> \in Seq(F) /\ <<"error">> \in Seq(F) /\ <<"final">> \in Seq(F)
        /\ <<"final", "desktop">> \in Seq(F) /\ <<"final", "done">> \in Seq(F)
        /\ <<"final", "desktop", "done">> \in Seq(F)
    OBVIOUS
  <1>1. ending \in Seq(F)
    BY <1>0, Zenon DEF EndsOnce
  <1> QED BY <1>1 DEF TypeOK

LEMMA TypedInit == Init => FlagsTyped /\ ControlTyped /\ DataTyped
  <1> SUFFICES ASSUME Init PROVE FlagsTyped /\ ControlTyped /\ DataTyped
    OBVIOUS
  <1>1. FlagsTyped
    BY DEF Init, FlagsTyped
  <1>2. ControlTyped
    BY DEF Init, ControlTyped, WorkerStages, HandlerStages
  <1>3. DataTyped
    BY DEF Init, DataTyped
  <1> QED BY <1>1, <1>2, <1>3

\* Publish, but for the buffer.
LEMMA PublishOutcome ==
  ASSUME NEW e, NEW next, Publish(e, next)
  PROVE  /\ \/ worker' = next /\ failure' = failure /\ terminal' = terminal /\ stopped' = stopped
            \/ /\ stopped /\ worker' = "failing" /\ failure' = "cancelled"
               /\ UNCHANGED <<items, bytes, terminal, stopped, published>>
            \/ /\ ~stopped /\ worker' = "failing" /\ failure' = "slow_consumer"
               /\ terminal' = "slow_consumer" /\ stopped' = TRUE
               /\ items' = <<>> /\ bytes' = 0 /\ published' = published
         /\ owes' = owes \/ owes' = owes \cup {"worker"}
  <1>1. CASE stopped
    BY <1>1 DEF Publish, buffer
  <1>2. CASE ~stopped /\ Merges(e)
    BY <1>2 DEF Publish, Merges, Merge
  <1>3. CASE ~stopped /\ ~Merges(e) /\ Overflows
    BY <1>3 DEF Publish, Overflow
  <1>4. CASE ~stopped /\ ~Merges(e) /\ ~Overflows
    BY <1>4 DEF Publish, Add
  <1> QED BY <1>1, <1>2, <1>3, <1>4

\* The stages from which the worker publishes, and those it goes on to.
Publishing == {"preparing", "analyzing", "finalizing", "running"}
Onward == {"starting", "running", "finishing"}
Leaving == {"closing", "stopping", "done"}

\* What a step that may publish does to all but the buffer.
LEMMA ProgressOutcome ==
  ASSUME [Next]_vars,
         Prepare \/ Analyze \/ Finalize \/ \E kind \in Kinds : Notify(kind)
  PROVE  /\ worker \in Publishing
         /\ UNCHANGED <<progressive, wake, loop, clock, client>>
         /\ owes' = owes \/ owes' = owes \cup {"worker"}
         /\ \/ worker' \in Onward /\ failure' = failure /\ terminal' = terminal /\ stopped' = stopped
            \/ /\ stopped /\ worker' = "failing" /\ failure' = "cancelled"
               /\ UNCHANGED <<items, bytes, terminal, stopped, published>>
            \/ /\ ~stopped /\ worker' = "failing" /\ failure' = "slow_consumer"
               /\ terminal' = "slow_consumer" /\ stopped' = TRUE
               /\ items' = <<>> /\ bytes' = 0 /\ published' = published
         /\ \/ UNCHANGED <<items, bytes, published>>
            \/ \E kind \in Kinds, next \in Onward : Publish(Event(kind), next)
  <1> USE DEF Publishing, Onward, AtWorker
  <1>1. ASSUME NEW stage \in Publishing, NEW next \in Onward, Progress(stage, next)
        PROVE  /\ worker \in Publishing
               /\ UNCHANGED <<progressive, wake, loop, clock, client>>
               /\ \/ /\ worker' \in Onward
                     /\ UNCHANGED <<failure, terminal, stopped, items, bytes, published, owes>>
                  \/ \E kind \in Kinds, nxt \in Onward : Publish(Event(kind), nxt)
    <2>1. CASE progressive
      <3>1. Publish(Event("note"), next)
        BY <1>1, <2>1 DEF Progress
      <3> QED BY <1>1, <3>1 DEF Progress, WorkerOnly, Kinds
    <2>2. CASE ~progressive
      BY <1>1, <2>2 DEF Progress, WorkerOnly, buffer
    <2> QED BY <2>1, <2>2
  <1>2. ASSUME NEW kind \in Kinds, Notify(kind)
        PROVE  /\ worker \in Publishing
               /\ UNCHANGED <<progressive, wake, loop, clock, client>>
               /\ Publish(Event(kind), "running")
    BY <1>2 DEF Notify, WorkerOnly
  <1>3. /\ worker \in Publishing
        /\ UNCHANGED <<progressive, wake, loop, clock, client>>
        /\ \/ /\ worker' \in Onward
              /\ UNCHANGED <<failure, terminal, stopped, items, bytes, published, owes>>
           \/ \E kind \in Kinds, next \in Onward : Publish(Event(kind), next)
    BY <1>1, <1>2 DEF Prepare, Analyze, Finalize
  <1>4. ASSUME NEW kind \in Kinds, NEW next \in Onward, Publish(Event(kind), next)
        PROVE  /\ owes' = owes \/ owes' = owes \cup {"worker"}
               /\ \/ worker' \in Onward /\ failure' = failure /\ terminal' = terminal /\ stopped' = stopped
                  \/ /\ stopped /\ worker' = "failing" /\ failure' = "cancelled"
                     /\ UNCHANGED <<items, bytes, terminal, stopped, published>>
                  \/ /\ ~stopped /\ worker' = "failing" /\ failure' = "slow_consumer"
                     /\ terminal' = "slow_consumer" /\ stopped' = TRUE
                     /\ items' = <<>> /\ bytes' = 0 /\ published' = published
    BY <1>4, PublishOutcome
  <1> QED BY <1>3, <1>4

LEMMA FlagsTypedNext == FlagsTyped /\ [Next]_vars => FlagsTyped'
  <1> SUFFICES ASSUME FlagsTyped, [Next]_vars PROVE FlagsTyped'
    OBVIOUS
  <1> USE DEF FlagsTyped, buffer, client, clock, loop
  <1>1. CASE Prepare \/ Analyze \/ Finalize \/ \E kind \in Kinds : Notify(kind)
    <2>1. UNCHANGED <<progressive, wake, loop, clock, client>> /\ (stopped' = stopped \/ stopped' = TRUE)
      BY <1>1, ProgressOutcome
    <2> QED BY <2>1
  <1>2. CASE Launch \/ Interrupt \/ RunReturns \/ Fail \/ CloseLease \/ StopWorker
             \/ FinishError \/ FinishResult
    BY <1>2 DEF Launch, Interrupt, RunReturns, Fail, CloseLease, StopWorker, FinishError,
      FinishResult, Finish, Stop, WorkerOnly
  <1>3. CASE Check \/ Woken \/ ContextDone \/ TimerFires \/ Emit \/ EmitFails \/ Get
    BY <1>3 DEF Check, Woken, ContextDone, TimerFires, Emit, EmitFails, Get, HandlerOnly, NoBuffer
  <1>4. CASE EmitFinal \/ EmitDesktop \/ EmitDone \/ StopHandler \/ Join \/ CleanupTimeout \/ Answer
    BY <1>4 DEF EmitFinal, EmitDesktop, EmitDone, EmitLast, StopHandler, Stop, Join,
      CleanupTimeout, Answer, HandlerOnly, NoBuffer
  <1>5. CASE (\E who \in {"worker", "handler"} : Signal(who)) \/ Disconnect \/ RunExpires
             \/ DeadlinePasses \/ UNCHANGED vars
    BY <1>5 DEF Signal, Disconnect, RunExpires, DeadlinePasses, vars
  <1> QED BY <1>1, <1>2, <1>3, <1>4, <1>5 DEF Next, WorkerStep, HandlerStep, Clock

LEMMA ControlTypedNext == ControlTyped /\ StageInv /\ [Next]_vars => ControlTyped'
  <1> SUFFICES ASSUME ControlTyped, StageInv, [Next]_vars PROVE ControlTyped'
    OBVIOUS
  <1> DEFINE Terminals == {"none", "result"} \cup Codes
             Failures == {"none"} \cup Codes
             Verdicts == {"none", "completed"} \cup Codes
             Ctx == {"live", "canceled", "expired"}
             Goroutines == {"worker", "handler"}
  <1>0. /\ terminal \in Terminals /\ wake \in {0, 1} /\ owes \subseteq Goroutines
        /\ worker \in WorkerStages /\ failure \in Failures
        /\ handler \in HandlerStages /\ verdict \in Verdicts /\ runCtx \in Ctx
    BY DEF ControlTyped
  <1>a. /\ \A c \in Codes : c \in Terminals /\ c \in Failures /\ c \in Verdicts
        /\ "result" \in Terminals /\ "completed" \in Verdicts
        /\ Onward \cup {"failing", "closing", "stopping", "done", "analyzing", "finalizing"}
             \subseteq WorkerStages
    BY DEF Onward, WorkerStages
  <1>b. \* who is "worker" or "handler"
        \A who \in Goroutines : owes \cup {who} \subseteq Goroutines /\ owes \ {who} \subseteq Goroutines
    BY <1>0
  <1>c. ASSUME UNCHANGED <<handler, verdict, runCtx>>, UNCHANGED wake,
               terminal' \in Terminals, owes' \subseteq Goroutines,
               worker' \in WorkerStages, failure' \in Failures
        PROVE  ControlTyped'
    BY <1>0, <1>c DEF ControlTyped
  <1>d. ASSUME UNCHANGED <<terminal, owes, worker, failure>>, wake' \in {wake, 0},
               handler' \in HandlerStages, verdict' \in Verdicts, runCtx' \in Ctx
        PROVE  ControlTyped'
    <2>1. wake' \in {0, 1}
      BY <1>0, <1>d
    <2> HIDE DEF Terminals, Failures, Verdicts, Ctx, Goroutines
    <2>2. /\ terminal' \in Terminals /\ owes' \subseteq Goroutines
          /\ worker' \in WorkerStages /\ failure' \in Failures
      BY <1>0, <1>d
    <2> QED BY <1>d, <2>1, <2>2 DEF ControlTyped, Terminals, Failures, Verdicts, Ctx, Goroutines
  <1>e. ASSUME NEW code \in {"completed"} \cup Codes, Return(code)
        PROVE  handler' \in HandlerStages /\ verdict' \in Verdicts /\ runCtx' \in Ctx
    BY <1>0, <1>e DEF Return, CancelRun, HandlerStages
  <1> HIDE DEF Terminals, Failures, Verdicts, Ctx, Goroutines
  <1>1. CASE Prepare \/ Analyze \/ Finalize \/ \E kind \in Kinds : Notify(kind)
    <2>1. /\ UNCHANGED <<wake, loop, clock>>
          /\ owes' = owes \/ owes' = owes \cup {"worker"}
          /\ worker' \in Onward \cup {"failing"}
          /\ failure' \in {failure, "cancelled", "slow_consumer"}
          /\ terminal' \in {terminal, "slow_consumer"}
      BY <1>1, ProgressOutcome
    <2>2. UNCHANGED <<handler, verdict, runCtx>> /\ UNCHANGED wake
      BY <2>1 DEF loop, clock
    <2>3. worker' \in WorkerStages
      BY <2>1, <1>a
    <2>4. failure' \in Failures /\ terminal' \in Terminals
      BY <2>1, <1>0, <1>a DEF Codes
    <2>5. owes' \subseteq Goroutines
      BY <2>1, <1>0, <1>b DEF Goroutines
    <2> QED BY <1>c, <2>2, <2>3, <2>4, <2>5
  <1>2. CASE Launch \/ Interrupt \/ RunReturns \/ Fail \/ CloseLease
    <2>1. /\ UNCHANGED <<wake, loop, clock, terminal, owes>>
          /\ worker' \in {"failing", "stopping", "analyzing", "finalizing"}
          /\ failure' \in {failure, "cancelled", "timeout", "upstream_error"}
      BY <1>2 DEF Launch, Interrupt, RunReturns, Fail, CloseLease, WorkerOnly, buffer
    <2>2. UNCHANGED <<handler, verdict, runCtx>> /\ UNCHANGED <<wake, terminal, owes>>
      BY <2>1 DEF loop, clock
    <2>3. worker' \in WorkerStages /\ failure' \in Failures
      BY <2>1, <1>0, <1>a DEF Codes
    <2> QED BY <1>c, <1>0, <2>2, <2>3
  <1>3. CASE StopWorker
    <2>1. /\ UNCHANGED <<handler, verdict, runCtx>> /\ UNCHANGED <<wake, terminal, failure>>
          /\ worker' = "done" /\ owes' = owes \cup {"worker"}
      BY <1>3 DEF StopWorker, Stop, WorkerOnly, loop, clock
    <2> QED BY <1>a, <1>b, <1>c, <1>0, <2>1 DEF Goroutines
  <1>4. ASSUME NEW kind \in Terminals, Finish(kind), worker' = "closing",
               WorkerOnly, UNCHANGED failure
        PROVE  ControlTyped'
    <2>1. /\ UNCHANGED <<handler, verdict, runCtx>> /\ UNCHANGED <<wake, failure>>
          /\ worker' = "closing" /\ terminal' \in {terminal, kind}
          /\ owes' = owes \/ owes' = owes \cup {"worker"}
      BY <1>4 DEF Finish, WorkerOnly, loop, clock, buffer
    <2> QED BY <1>a, <1>b, <1>c, <1>0, <2>1, <1>4 DEF Goroutines
  <1>5. CASE FinishError
    <2>1. failure \in Codes
      BY <1>5, <1>0 DEF FinishError, AtWorker, StageInv, Failures
    <2> QED BY <1>4, <1>5, <2>1, <1>a DEF FinishError
  <1>6. CASE FinishResult
    BY <1>4, <1>6, <1>a DEF FinishResult
  <1>7. CASE Check \/ ContextDone \/ TimerFires \/ EmitFails
    <2>1. UNCHANGED <<terminal, owes, worker, failure>> /\ wake' = wake
      BY <1>7 DEF Check, ContextDone, TimerFires, EmitFails, HandlerOnly, NoBuffer, buffer
    <2>2. \/ \E code \in {"completed"} \cup Codes : Return(code)
          \/ handler' \in HandlerStages /\ UNCHANGED <<verdict, runCtx>>
      BY <1>7 DEF Check, ContextDone, TimerFires, EmitFails, Codes, HandlerStages
    <2> QED BY <1>0, <1>d, <1>e, <2>1, <2>2
  <1>8. CASE Get
    <2>1. UNCHANGED <<terminal, owes, worker, failure>> /\ wake' = wake
      BY <1>8 DEF Get, HandlerOnly
    <2>2. \/ \E code \in {"completed"} \cup Codes : Return(code)
          \/ handler' \in HandlerStages /\ UNCHANGED <<verdict, runCtx>>
      BY <1>8, <1>0 DEF Get, HandlerStages, Terminals
    <2> QED BY <1>0, <1>d, <1>e, <2>1, <2>2
  <1>9. CASE Woken \/ Emit
    <2>1. /\ UNCHANGED <<terminal, owes, worker, failure>> /\ wake' \in {wake, 0}
          /\ UNCHANGED <<verdict, runCtx>> /\ handler' \in HandlerStages
      BY <1>9 DEF Woken, Emit, HandlerOnly, NoBuffer, buffer, clock, HandlerStages
    <2> QED BY <1>0, <1>d, <2>1
  <1>10. CASE EmitFinal \/ EmitDesktop \/ EmitDone
    <2>1. UNCHANGED <<terminal, owes, worker, failure>> /\ wake' = wake
      BY <1>10 DEF EmitFinal, EmitDesktop, EmitDone, EmitLast, HandlerOnly, NoBuffer, buffer
    <2>2. \/ \E code \in {"completed"} \cup Codes : Return(code)
          \/ handler' \in HandlerStages /\ UNCHANGED <<verdict, runCtx>>
      BY <1>10 DEF EmitFinal, EmitDesktop, EmitDone, EmitLast, HandlerStages
    <2> QED BY <1>0, <1>d, <1>e, <2>1, <2>2
  <1>11. CASE Join \/ CleanupTimeout \/ Answer
    <2>1. /\ UNCHANGED <<terminal, owes, worker, failure>> /\ wake' = wake
          /\ UNCHANGED <<verdict, runCtx>> /\ handler' \in HandlerStages
      BY <1>11 DEF Join, CleanupTimeout, Answer, HandlerOnly, NoBuffer, buffer, clock, HandlerStages
    <2> QED BY <1>0, <1>d, <2>1
  <1>12. ASSUME UNCHANGED <<terminal, worker, failure, verdict>>, wake' \in {wake, 1},
                owes' \subseteq Goroutines, handler' \in HandlerStages, runCtx' \in Ctx
         PROVE  ControlTyped'
    <2>1. wake' \in {0, 1}
      BY <1>0, <1>12
    <2>2. /\ terminal' \in Terminals /\ verdict' \in Verdicts
          /\ worker' \in WorkerStages /\ failure' \in Failures
      BY <1>0, <1>12
    <2> QED BY <1>12, <2>1, <2>2 DEF ControlTyped, Terminals, Failures, Verdicts, Ctx, Goroutines
  <1>13. CASE StopHandler
    <2>1. /\ UNCHANGED <<terminal, worker, failure, verdict>> /\ UNCHANGED <<wake, runCtx>>
          /\ owes' = owes \cup {"handler"} /\ handler' \in HandlerStages
      BY <1>13 DEF StopHandler, Stop, HandlerOnly, clock, HandlerStages
    <2>2. owes' \subseteq Goroutines
      BY <1>b, <2>1 DEF Goroutines
    <2> QED BY <1>0, <1>12, <2>1, <2>2
  <1>14. ASSUME NEW who \in Goroutines, Signal(who) PROVE ControlTyped'
    <2>1. /\ UNCHANGED <<terminal, worker, failure, verdict>> /\ UNCHANGED <<handler, runCtx>>
          /\ wake' = 1 /\ owes' = owes \ {who}
      BY <1>14 DEF Signal, buffer, loop, clock
    <2>2. owes' \subseteq Goroutines
      BY <1>b, <2>1
    <2> QED BY <1>0, <1>12, <2>1, <2>2
  <1>15. CASE Disconnect \/ RunExpires \/ DeadlinePasses \/ UNCHANGED vars
    <2>1. /\ UNCHANGED <<terminal, worker, failure, verdict>> /\ UNCHANGED <<wake, owes, handler>>
          /\ runCtx' \in {runCtx, "canceled", "expired"}
      BY <1>15 DEF Disconnect, RunExpires, DeadlinePasses, CancelRun, vars, buffer, loop, clock
    <2>2. runCtx' \in Ctx
      BY <1>0, <2>1 DEF Ctx
    <2> QED BY <1>0, <1>12, <2>1, <2>2
  <1> QED
    BY <1>1, <1>2, <1>3, <1>5, <1>6, <1>7, <1>8, <1>9, <1>10, <1>11, <1>13, <1>14, <1>15
    DEF Next, WorkerStep, HandlerStep, Clock, Goroutines

-----------------------------------------------------------------------------
(* How the items divide what is buffered *)

\* Cuts, for any items.
CutOf(its, cut, from, to) ==
  /\ cut \in [0..Len(its) -> from..to]
  /\ cut[0] = from /\ cut[Len(its)] = to
  /\ \A i \in 1..Len(its) : cut[i] = cut[i - 1] + Len(its[i])

LEMMA CutsAreCuts ==
  /\ \A from, to, cut : cut \in Cuts(from, to) <=> CutOf(items, cut, from, to)
  /\ \A from, to, cut : cut \in Cuts(from, to)' <=> CutOf(items', cut, from, to)
  BY DEF Cuts, CutOf

LEMMA LeastNumber ==
  ASSUME NEW S \in SUBSET Nat, S # {}
  PROVE  \E n \in S : \A m \in S : n <= m
  <1> DEFINE Before == OpToRel(<, Nat)
  <1>1. IsWellFoundedOn(Before, Nat)
    BY NatLessThanWellFounded
  <1>2. \A a, b \in Nat : <<a, b>> \in Before <=> a < b
    BY DEF OpToRel
  <1> HIDE DEF Before
  <1>3. PICK n \in S : \A m \in S : ~(<<m, n>> \in Before)
    BY <1>1, WFMin
  <1>4. ASSUME NEW m \in S PROVE n <= m
    <2>1. m \in Nat /\ n \in Nat /\ ~(m < n)
      BY <1>2, <1>3
    <2> QED BY <2>1
  <1> QED BY <1>4

\* A division ascends from the end of its first item.
LEMMA CutAscends ==
  ASSUME NEW S, NEW its \in Seq(Seq(S)), NEW from \in Int, NEW to \in Int, NEW cut,
         CutOf(its, cut, from, to)
  PROVE  \A i \in 1..Len(its) : cut[1] <= cut[i]
  <1> DEFINE Low == {i \in 1..Len(its) : cut[i] < cut[1]}
  <1>0. \A i \in 0..Len(its) : cut[i] \in Int
    BY DEF CutOf
  <1>1. ASSUME Low # {} PROVE FALSE
    <2>0. Low \in SUBSET Nat
      OBVIOUS
    <2>1. PICK i \in Low : \A j \in Low : i <= j
      BY <1>1, <2>0, LeastNumber
    <2>2. i \in 1..Len(its) /\ cut[i] < cut[1]
      OBVIOUS
    <2>3. i # 1
      BY <1>0, <2>2
    <2>4. /\ i - 1 \in 1..Len(its) /\ i - 1 \notin Low
          /\ i - 1 \in 0..Len(its) /\ i \in 0..Len(its) /\ 1 \in 0..Len(its)
      BY <2>1, <2>2, <2>3
    <2>5. /\ cut[i - 1] \in Int /\ cut[1] \in Int /\ cut[i] \in Int
          /\ ~(cut[i - 1] < cut[1])
      BY <1>0, <2>4
    <2>6. Len(its[i]) \in Nat
      BY <2>2
    <2>7. cut[i] = cut[i - 1] + Len(its[i])
      BY <2>2 DEF CutOf
    <2> HIDE DEF Low
    <2> QED BY <2>2, <2>5, <2>6, <2>7
  <1>2. ASSUME NEW i \in 1..Len(its) PROVE cut[1] <= cut[i]
    <2>1. i \notin Low
      BY <1>1, Zenon
    <2>2. ~(cut[i] < cut[1])
      BY <2>1
    <2>3. i \in 0..Len(its) /\ 1 \in 0..Len(its)
      OBVIOUS
    <2>4. cut[i] \in Int /\ cut[1] \in Int
      BY <1>0, <2>3
    <2> HIDE DEF Low
    <2> QED BY <2>2, <2>4
  <1> QED BY <1>2

\* A new item, of one event.
LEMMA CutAdd ==
  ASSUME NEW S, NEW its \in Seq(Seq(S)), NEW e \in S,
         NEW from \in Int, NEW to \in Int, NEW cut, CutOf(its, cut, from, to)
  PROVE  \E c : /\ CutOf(Append(its, <<e>>), c, from, to + 1)
                /\ c[Len(its)] = to /\ c[Len(its) + 1] = to + 1
                /\ \A i \in 0..Len(its) : c[i] = cut[i]
  <1> DEFINE n == Len(its)
             new == Append(its, <<e>>)
             c == [i \in 0..n + 1 |-> IF i = n + 1 THEN to + 1 ELSE cut[i]]
  <1>1. /\ n \in Nat /\ Len(new) = n + 1
        /\ \A i \in 1..n : new[i] = its[i] /\ i # n + 1 /\ i - 1 # n + 1
        /\ new[n + 1] = <<e>>
    OBVIOUS
  <1>2. /\ \A i \in 0..n : cut[i] \in from..to
        /\ cut[0] = from /\ cut[n] = to
        /\ \A i \in 1..n : cut[i] = cut[i - 1] + Len(its[i])
    BY DEF CutOf
  <1>3. from <= to
    BY <1>1, <1>2
  <1>4. c[n + 1] = to + 1 /\ \A i \in 0..n : c[i] = cut[i]
    BY <1>1
  <1>5. c \in [0..n + 1 -> from..to + 1]
    <2>1. ASSUME NEW i \in 0..n + 1
          PROVE  (IF i = n + 1 THEN to + 1 ELSE cut[i]) \in from..to + 1
      <3>1. i # n + 1 => cut[i] \in from..to
        BY <1>1, <1>2
      <3> QED BY <1>3, <3>1
    <2> QED BY <2>1
  <1> HIDE DEF c, new, n
  <1>6. \A i \in 1..n + 1 : c[i] = c[i - 1] + Len(new[i])
    <2>1. Len(new[n + 1]) = 1
      BY <1>1
    <2>2. c[n + 1] = c[(n + 1) - 1] + Len(new[n + 1])
      BY <1>1, <1>2, <1>4, <2>1
    <2>3. ASSUME NEW i \in 1..n PROVE c[i] = c[i - 1] + Len(new[i])
      <3>1. i \in 0..n /\ i - 1 \in 0..n
        BY <1>1
      <3> QED BY <1>1, <1>2, <1>4, <3>1
    <2>4. ASSUME NEW i \in 1..n + 1, i # n + 1 PROVE i \in 1..n
      BY <1>1, <2>4
    <2> QED BY <2>2, <2>3, <2>4
  <1>7. CutOf(new, c, from, to + 1)
    BY <1>1, <1>2, <1>4, <1>5, <1>6 DEF CutOf
  <1> QED BY <1>1, <1>2, <1>4, <1>7 DEF n, new

\* The front of a sequence.
LEMMA FrontItems ==
  ASSUME NEW T, NEW its \in Seq(T), its # <<>>
  PROVE  /\ Front(its) \in Seq(T) /\ Len(Front(its)) = Len(its) - 1
         /\ \A i \in 1..Len(its) - 1 : Front(its)[i] = its[i]
         /\ Len(its) \in Nat \ {0}
  <1> DEFINE k == Len(its) - 1
             front == SubSeq(its, 1, k)
  <1>1. Len(its) \in Nat \ {0} /\ k \in Nat /\ 1 \in Int /\ k \in Int
    OBVIOUS
  <1>2. \A i \in 1..k : its[i] \in T
    OBVIOUS
  <1> HIDE DEF k
  <1>3. /\ front \in Seq(T)
        /\ Len(front) = IF 1 <= k THEN k - 1 + 1 ELSE 0
        /\ \A i \in 1 .. k-1+1 : front[i] = its[1+i-1]
    BY <1>1, <1>2, SubSeqProperties
  <1>4. Len(front) = k
    <2>1. CASE k = 0
      BY <2>1, <1>3
    <2>2. CASE k # 0
      BY <2>2, <1>1, <1>3
    <2> QED BY <2>1, <2>2
  <1>5. ASSUME NEW i \in 1..k PROVE front[i] = its[i]
    <2>1. i \in 1..k-1+1 /\ 1+i-1 = i
      BY <1>1
    <2> QED BY <1>3, <2>1
  <1> QED BY <1>1, <1>3, <1>4, <1>5 DEF Front, k

\* The items of Merge.
Merged(its, e) == Front(its) \o <<Append(Last(its), e)>>

LEMMA MergedItems ==
  ASSUME NEW S, NEW its \in Seq(Seq(S)), its # <<>>, NEW e \in S
  PROVE  /\ Merged(its, e) \in Seq(Seq(S)) /\ Len(Merged(its, e)) = Len(its)
         /\ Len(its) \in Nat \ {0}
         /\ \A i \in 1..Len(its) : i # Len(its) => Merged(its, e)[i] = its[i]
         /\ Merged(its, e)[Len(its)] = Append(its[Len(its)], e)
         /\ its[Len(its)] \in Seq(S) /\ Last(its) = its[Len(its)]
  <1>1. /\ Front(its) \in Seq(Seq(S)) /\ Len(Front(its)) = Len(its) - 1
        /\ \A i \in 1..Len(its) - 1 : Front(its)[i] = its[i]
        /\ Len(its) \in Nat \ {0}
    BY FrontItems
  <1>2. Last(its) = its[Len(its)] /\ its[Len(its)] \in Seq(S)
    BY <1>1 DEF Last
  <1> DEFINE front == Front(its)
             grown == Append(its[Len(its)], e)
             n == Len(its)
  <1>3. grown \in Seq(S) /\ Merged(its, e) = front \o <<grown>>
    BY <1>2 DEF Merged
  <1>4. /\ front \in Seq(Seq(S)) /\ Len(front) = n - 1 /\ n \in Nat \ {0}
        /\ \A i \in 1..n - 1 : front[i] = its[i]
    BY <1>1
  <1> HIDE DEF front, grown, n
  <1>5. <<grown>> \in Seq(Seq(S)) /\ Len(<<grown>>) = 1 /\ <<grown>>[1] = grown
    BY <1>3
  <1>6. front \o <<grown>> \in Seq(Seq(S)) /\ Len(front \o <<grown>>) = n
    BY <1>4, <1>5
  <1>7. \A i \in 1..n : i # n => (front \o <<grown>>)[i] = its[i]
    BY <1>4, <1>5
  <1>8. (front \o <<grown>>)[n] = grown
    BY <1>4, <1>5
  <1> QED BY <1>2, <1>3, <1>4, <1>6, <1>7, <1>8 DEF grown, n

\* An event more in the last item.
LEMMA CutMerge ==
  ASSUME NEW S, NEW its \in Seq(Seq(S)), its # <<>>, NEW e \in S,
         NEW from \in Int, NEW to \in Int, NEW cut, CutOf(its, cut, from, to)
  PROVE  \E c : /\ CutOf(Merged(its, e), c, from, to + 1)
                /\ c[Len(its)] = to + 1
                /\ \A i \in 0..Len(its) - 1 : c[i] = cut[i]
  <1> DEFINE n == Len(its)
             new == Merged(its, e)
             c == [i \in 0..n |-> IF i = n THEN to + 1 ELSE cut[i]]
  <1>1. /\ n \in Nat \ {0} /\ Len(new) = n
        /\ \A i \in 1..n : i # n => new[i] = its[i]
        /\ new[n] = Append(its[n], e) /\ its[n] \in Seq(S)
    <2>1. \A i \in 1..Len(its) : i # Len(its) => Merged(its, e)[i] = its[i]
      BY MergedItems
    <2>2. /\ Len(its) \in Nat \ {0} /\ Len(Merged(its, e)) = Len(its)
          /\ Merged(its, e)[Len(its)] = Append(its[Len(its)], e)
          /\ its[Len(its)] \in Seq(S)
      BY MergedItems
    <2> QED BY <2>1, <2>2
  <1>2. /\ \A i \in 0..n : cut[i] \in from..to
        /\ cut[0] = from /\ cut[n] = to
        /\ \A i \in 1..n : cut[i] = cut[i - 1] + Len(its[i])
    BY DEF CutOf
  <1> HIDE DEF n, new
  <1>3. from <= to
    BY <1>1, <1>2
  <1>4. c[n] = to + 1 /\ \A i \in 0..n - 1 : c[i] = cut[i]
    <2>1. n \in 0..n /\ \A i \in 0..n - 1 : i \in 0..n /\ i # n
      BY <1>1
    <2> QED BY <2>1
  <1>5. c \in [0..n -> from..to + 1]
    <2>1. ASSUME NEW i \in 0..n
          PROVE  (IF i = n THEN to + 1 ELSE cut[i]) \in from..to + 1
      <3>1. cut[i] \in from..to
        BY <1>1, <1>2
      <3> QED BY <1>3, <3>1
    <2> QED BY <2>1
  <1> HIDE DEF c
  <1>6. Len(new[n]) = Len(its[n]) + 1 /\ Len(its[n]) \in Nat
    BY <1>1
  <1>7. ASSUME NEW i \in 1..n PROVE c[i] = c[i - 1] + Len(new[i])
    <2>1. CASE i = n
      <3>1. c[n - 1] = cut[n - 1] /\ cut[n - 1] \in Int
        BY <1>1, <1>2, <1>4
      <3>2. to = cut[n - 1] + Len(its[n])
        BY <1>1, <1>2
      <3>3. to + 1 = c[n - 1] + Len(new[n])
        BY <1>6, <3>1, <3>2
      <3> QED BY <1>4, <2>1, <3>3
    <2>2. CASE i # n
      <3>1. i \in 0..n - 1 /\ i - 1 \in 0..n - 1
        BY <1>1, <2>2
      <3> QED BY <1>1, <1>2, <1>4, <2>2, <3>1
    <2> QED BY <2>1, <2>2
  <1>8. c[0] = from
    BY <1>1, <1>2, <1>4
  <1>9. CutOf(new, c, from, to + 1)
    BY <1>1, <1>4, <1>5, <1>7, <1>8 DEF CutOf
  <1> QED BY <1>4, <1>9 DEF n, new

\* Without the first item.
LEMMA CutTail ==
  ASSUME NEW S, NEW its \in Seq(Seq(S)), its # <<>>,
         NEW from \in Int, NEW to \in Int, NEW cut, CutOf(its, cut, from, to),
         NEW less \in Int, NEW low, NEW high, low = cut[1] - less, high = to - less
  PROVE  /\ cut[1] = from + Len(its[1]) /\ cut[1] <= to
         /\ \E c : /\ CutOf(Tail(its), c, low, high)
                   /\ \A i \in 0..Len(its) - 1 : c[i] = cut[i + 1] - less
  <1> DEFINE n == Len(its)
             c == [i \in 0..n - 1 |-> cut[i + 1] - less]
  <1>1. /\ n \in Nat \ {0} /\ Len(Tail(its)) = n - 1
        /\ \A i \in 1..n - 1 : Tail(its)[i] = its[i + 1]
        /\ \A i \in 1..n : Len(its[i]) \in Nat
    OBVIOUS
  <1>2. /\ \A i \in 0..n : cut[i] \in from..to
        /\ cut[0] = from /\ cut[n] = to
        /\ \A i \in 1..n : cut[i] = cut[i - 1] + Len(its[i])
    BY DEF CutOf
  <1>3. \A i \in 1..n : cut[1] <= cut[i]
    BY CutAscends
  <1> HIDE DEF n
  <1>4. 1 \in 1..n /\ cut[1] = from + Len(its[1]) /\ cut[1] \in Int /\ cut[1] <= to
    BY <1>1, <1>2
  <1>5. \A i \in 0..n - 1 : c[i] = cut[i + 1] - less
    BY <1>1
  <1>6. c \in [0..n - 1 -> cut[1] - less .. to - less]
    <2>1. ASSUME NEW i \in 0..n - 1 PROVE cut[i + 1] - less \in cut[1] - less .. to - less
      <3>1. i + 1 \in 1..n /\ i + 1 \in 0..n
        BY <1>1
      <3>2. cut[i + 1] \in Int /\ cut[1] <= cut[i + 1] /\ cut[i + 1] <= to
        BY <1>2, <1>3, <3>1
      <3> QED BY <1>4, <3>2
    <2> QED BY <2>1
  <1>7. c[0] = cut[1] - less /\ c[n - 1] = to - less
    BY <1>1, <1>2, <1>5
  <1> HIDE DEF c
  <1>8. ASSUME NEW i \in 1..n - 1 PROVE c[i] = c[i - 1] + Len(Tail(its)[i])
    <2>1. /\ i + 1 \in 1..n /\ i \in 0..n - 1 /\ i - 1 \in 0..n - 1 /\ i \in 0..n
          /\ (i - 1) + 1 = i /\ (i + 1) - 1 = i
      BY <1>1
    <2>a. cut[i + 1] = cut[(i + 1) - 1] + Len(its[i + 1]) /\ Len(its[i + 1]) \in Nat
      BY <1>1, <1>2, <2>1
    <2>b. cut[i] \in Int
      BY <1>2, <2>1
    <2>2. cut[i + 1] = cut[i] + Len(its[i + 1]) /\ cut[i] \in Int /\ Len(its[i + 1]) \in Nat
      BY <2>1, <2>a, <2>b
    <2>3. c[i] = cut[i + 1] - less /\ c[i - 1] = cut[i] - less
      BY <1>5, <2>1
    <2>4. Tail(its)[i] = its[i + 1]
      BY <1>1
    <2>5. cut[i + 1] - less = (cut[i] - less) + Len(its[i + 1])
      BY <2>2
    <2> QED BY <2>3, <2>4, <2>5
  <1>9. CutOf(Tail(its), c, cut[1] - less, to - less)
    BY <1>1, <1>6, <1>7, <1>8 DEF CutOf
  <1>10. CutOf(Tail(its), c, low, high)
    BY <1>9
  <1> QED BY <1>4, <1>5, <1>10 DEF n

LEMMA CutDrop ==
  ASSUME NEW S, NEW its \in Seq(Seq(S)), its # <<>>,
         NEW from \in Int, NEW to \in Int, NEW cut, CutOf(its, cut, from, to)
  PROVE  /\ cut[1] = from + Len(its[1]) /\ cut[1] <= to
         /\ \E c : /\ CutOf(Tail(its), c, cut[1], to)
                   /\ \A i \in 0..Len(its) - 1 : c[i] = cut[i + 1]
  <1> DEFINE none == 0
             low == cut[1]
  <1>1. none = 0 /\ none \in Int /\ to = to - none
    OBVIOUS
  <1>2. low \in Int /\ \A i \in 0..Len(its) - 1 : cut[i + 1] \in Int
    <2>1. ASSUME NEW i \in 0..Len(its) PROVE cut[i] \in Int
      <3>1. cut[i] \in from..to
        BY DEF CutOf
      <3> QED BY <3>1
    <2>2. 1 \in 0..Len(its) /\ \A i \in 0..Len(its) - 1 : i + 1 \in 0..Len(its)
      OBVIOUS
    <2> QED BY <2>1, <2>2
  <1>3. low = cut[1]
    OBVIOUS
  <1> HIDE DEF none, low
  <1>4. low = cut[1] - none
    BY <1>1, <1>2, <1>3
  <1>5. PICK c : /\ CutOf(Tail(its), c, low, to)
                 /\ \A i \in 0..Len(its) - 1 : c[i] = cut[i + 1] - none
    BY <1>1, <1>4, CutTail
  <1>6. cut[1] = from + Len(its[1]) /\ cut[1] <= to
    BY <1>1, <1>4, CutTail
  <1>7. \A i \in 0..Len(its) - 1 : c[i] = cut[i + 1]
    BY <1>1, <1>2, <1>5
  <1> QED BY <1>5, <1>6, <1>7 DEF low

LEMMA CutRest ==
  ASSUME NEW S, NEW its \in Seq(Seq(S)), its # <<>>, NEW to \in Nat, NEW cut,
         CutOf(its, cut, 0, to)
  PROVE  /\ Len(its[1]) \in Nat /\ Len(its[1]) <= to
         /\ \E c : CutOf(Tail(its), c, 0, to - Len(its[1]))
  <1> DEFINE k == Len(its[1])
  <1>1. k \in Nat
    OBVIOUS
  <1>2. cut[1] = 0 + k /\ cut[1] <= to
    <2>1. 0 = 0 - 0 /\ cut[1] - 0 = cut[1] - 0 /\ to - 0 = to - 0 /\ 0 \in Int
      OBVIOUS
    <2> QED BY <2>1, CutTail
  <1>3. k \in Int /\ 0 = cut[1] - k /\ k <= to
    BY <1>1, <1>2
  <1> DEFINE high == to - k
  <1>4. \E c : CutOf(Tail(its), c, 0, high)
    <2>1. high = to - k
      OBVIOUS
    <2> HIDE DEF high, k
    <2>2. \E c : /\ CutOf(Tail(its), c, 0, high)
                 /\ \A i \in 0..Len(its) - 1 : c[i] = cut[i + 1] - k
      BY <1>3, <2>1, CutTail
    <2> QED BY <2>2
  <1> QED BY <1>1, <1>3, <1>4

-----------------------------------------------------------------------------
(* Prefixes and stretches of what was published *)

LEMMA SameItems ==
  ASSUME NEW S, NEW s \in Seq(S), NEW t \in Seq(S), Len(s) = Len(t),
         \A i \in 1..Len(s) : s[i] = t[i]
  PROVE  s = t
  BY SeqEqual

\* A stretch of a sequence.
LEMMA Stretch ==
  ASSUME NEW S, NEW p \in Seq(S), NEW a \in Nat \ {0}, NEW b \in Nat,
         b <= Len(p), a <= b + 1
  PROVE  /\ SubSeq(p, a, b) \in Seq(S) /\ Len(SubSeq(p, a, b)) = b - a + 1
         /\ \A i \in 1..(b - a + 1) : SubSeq(p, a, b)[i] = p[a + i - 1]
  <1>1. \A i \in a..b : p[i] \in S
    OBVIOUS
  <1>2. /\ SubSeq(p, a, b) \in Seq(S)
        /\ Len(SubSeq(p, a, b)) = IF a <= b THEN b - a + 1 ELSE 0
        /\ \A i \in 1..(b - a + 1) : SubSeq(p, a, b)[i] = p[a + i - 1]
    BY <1>1, SubSeqProperties
  <1>3. (IF a <= b THEN b - a + 1 ELSE 0) = b - a + 1
    OBVIOUS
  <1> QED BY <1>2, <1>3

LEMMA PrefixStretches ==
  ASSUME NEW S, NEW x \in Seq(S), NEW p \in Seq(S), Len(x) <= Len(p)
  PROVE  /\ SubSeq(x, 1, Len(x)) \in Seq(S) /\ Len(SubSeq(x, 1, Len(x))) = Len(x)
         /\ SubSeq(p, 1, Len(x)) \in Seq(S) /\ Len(SubSeq(p, 1, Len(x))) = Len(x)
         /\ \A i \in 1..Len(x) : SubSeq(x, 1, Len(x))[i] = x[i] /\ SubSeq(p, 1, Len(x))[i] = p[i]
  <1> DEFINE n == Len(x)
  <1>1. n \in Nat /\ Len(p) \in Nat
    OBVIOUS
  <1>2. /\ SubSeq(x, 1, n) \in Seq(S) /\ Len(SubSeq(x, 1, n)) = n
        /\ \A i \in 1..n : SubSeq(x, 1, n)[i] = x[i]
    <2>1. /\ SubSeq(x, 1, n) \in Seq(S) /\ Len(SubSeq(x, 1, n)) = n - 1 + 1
          /\ \A i \in 1..(n - 1 + 1) : SubSeq(x, 1, n)[i] = x[1 + i - 1]
      BY <1>1, Stretch
    <2>2. n - 1 + 1 = n /\ \A i \in 1..n : 1 + i - 1 = i
      BY <1>1
    <2> QED BY <2>1, <2>2
  <1>3. /\ SubSeq(p, 1, n) \in Seq(S) /\ Len(SubSeq(p, 1, n)) = n
               /\ \A i \in 1..n : SubSeq(p, 1, n)[i] = p[i]
    <2>1. /\ SubSeq(p, 1, n) \in Seq(S) /\ Len(SubSeq(p, 1, n)) = n - 1 + 1
          /\ \A i \in 1..(n - 1 + 1) : SubSeq(p, 1, n)[i] = p[1 + i - 1]
      BY <1>1, Stretch
    <2>2. n - 1 + 1 = n /\ \A i \in 1..n : 1 + i - 1 = i
      BY <1>1
    <2> QED BY <2>1, <2>2
  <1> QED BY <1>2, <1>3

LEMMA PrefixHas ==
  ASSUME NEW S, NEW x \in Seq(S), NEW p \in Seq(S), IsPrefix(x, p)
  PROVE  Len(x) <= Len(p) /\ \A i \in 1..Len(x) : x[i] = p[i]
  <1>1. Len(x) <= Len(p) /\ SubSeq(x, 1, Len(x)) = SubSeq(p, 1, Len(x))
    BY DEF IsPrefix
  <1>2. \A i \in 1..Len(x) : SubSeq(x, 1, Len(x))[i] = x[i] /\ SubSeq(p, 1, Len(x))[i] = p[i]
    BY <1>1, PrefixStretches
  <1> QED BY <1>1, <1>2

LEMMA PrefixIs ==
  ASSUME NEW S, NEW x \in Seq(S), NEW p \in Seq(S),
         Len(x) <= Len(p), \A i \in 1..Len(x) : x[i] = p[i]
  PROVE  IsPrefix(x, p)
  <1> DEFINE n == Len(x)
             s == SubSeq(x, 1, n)
             t == SubSeq(p, 1, n)
  <1>1. \A i \in 1..n : s[i] = x[i] /\ t[i] = p[i]
    BY PrefixStretches
  <1>2. s \in Seq(S) /\ Len(s) = n /\ t \in Seq(S) /\ Len(t) = n
    BY PrefixStretches
  <1> HIDE DEF s, t
  <1>3. s = t
    BY <1>1, <1>2, SameItems
  <1> QED BY <1>3 DEF IsPrefix, s, t

\* A stretch that ends before the new event.
LEMMA StretchStays ==
  ASSUME NEW S, NEW p \in Seq(S), NEW e \in S, NEW a \in Nat \ {0}, NEW b \in Nat,
         b <= Len(p), a <= b + 1
  PROVE  SubSeq(Append(p, e), a, b) = SubSeq(p, a, b)
  <1> DEFINE q == Append(p, e)
             k == b - a + 1
  <1>1. /\ q \in Seq(S) /\ Len(q) = Len(p) + 1 /\ Len(p) \in Nat
        /\ \A i \in 1..Len(p) : q[i] = p[i]
    OBVIOUS
  <1>2. /\ SubSeq(p, a, b) \in Seq(S) /\ Len(SubSeq(p, a, b)) = k
        /\ \A i \in 1..k : SubSeq(p, a, b)[i] = p[a + i - 1]
    BY Stretch
  <1> HIDE DEF q
  <1>3. b <= Len(q)
    BY <1>1
  <1>4. /\ SubSeq(q, a, b) \in Seq(S) /\ Len(SubSeq(q, a, b)) = k
        /\ \A i \in 1..k : SubSeq(q, a, b)[i] = q[a + i - 1]
    BY <1>1, <1>3, Stretch
  <1>5. ASSUME NEW i \in 1..k PROVE a + i - 1 \in 1..Len(p)
    BY <1>1
  <1>6. \A i \in 1..k : SubSeq(q, a, b)[i] = SubSeq(p, a, b)[i]
    BY <1>1, <1>2, <1>4, <1>5
  <1> HIDE DEF k
  <1>7. SubSeq(q, a, b) = SubSeq(p, a, b)
    BY <1>2, <1>4, <1>6, SameItems
  <1> QED BY <1>7 DEF q

\* The last stretch, with the new event.
LEMMA StretchGrows ==
  ASSUME NEW S, NEW p \in Seq(S), NEW e \in S, NEW a \in Nat \ {0}, a <= Len(p) + 1
  PROVE  SubSeq(Append(p, e), a, Len(p) + 1) = Append(SubSeq(p, a, Len(p)), e)
  <1> DEFINE q == Append(p, e)
             n == Len(p)
             k == n - a + 1
  <1>1. /\ q \in Seq(S) /\ Len(q) = n + 1 /\ n \in Nat /\ q[n + 1] = e
        /\ \A i \in 1..n : q[i] = p[i]
    OBVIOUS
  <1> HIDE DEF q
  <1>2. /\ SubSeq(p, a, n) \in Seq(S) /\ Len(SubSeq(p, a, n)) = k
        /\ \A i \in 1..k : SubSeq(p, a, n)[i] = p[a + i - 1]
    BY <1>1, Stretch
  <1> HIDE DEF n
  <1>3. n + 1 \in Nat /\ a <= (n + 1) + 1 /\ k \in Nat /\ (n + 1) - a + 1 = k + 1
    BY <1>1 DEF n
  <1>4. /\ SubSeq(q, a, n + 1) \in Seq(S) /\ Len(SubSeq(q, a, n + 1)) = k + 1
        /\ \A i \in 1..k + 1 : SubSeq(q, a, n + 1)[i] = q[a + i - 1]
    <2>1. /\ SubSeq(q, a, n + 1) \in Seq(S) /\ Len(SubSeq(q, a, n + 1)) = (n + 1) - a + 1
          /\ \A i \in 1..((n + 1) - a + 1) : SubSeq(q, a, n + 1)[i] = q[a + i - 1]
      BY <1>1, <1>3, Stretch
    <2> QED BY <1>3, <2>1
  <1> DEFINE old == SubSeq(p, a, n)
             new == SubSeq(q, a, n + 1)
  <1>5. /\ old \in Seq(S) /\ Len(old) = k /\ k \in Nat
        /\ new \in Seq(S) /\ Len(new) = k + 1
    BY <1>2, <1>3, <1>4
  <1>6. ASSUME NEW i \in 1..k PROVE new[i] = old[i]
    <2>1. a + i - 1 \in 1..n /\ i \in 1..k + 1
      BY <1>1, <1>3
    <2> QED BY <1>1, <1>2, <1>4, <2>1
  <1>7. new[k + 1] = e
    <2>1. k + 1 \in 1..k + 1 /\ a + (k + 1) - 1 = n + 1
      BY <1>1, <1>3
    <2> QED BY <1>1, <1>4, <2>1
  <1> HIDE DEF old, new, k
  <1>8. /\ Append(old, e) \in Seq(S) /\ Len(Append(old, e)) = k + 1
        /\ \A i \in 1..k : Append(old, e)[i] = old[i]
        /\ Append(old, e)[k + 1] = e
    BY <1>5
  <1>9. ASSUME NEW i \in 1..Len(new) PROVE new[i] = Append(old, e)[i]
    <2>1. CASE i = k + 1
      BY <1>7, <1>8, <2>1
    <2>2. CASE i # k + 1
      <3>1. i \in 1..k
        BY <1>5, <2>2
      <3> QED BY <1>6, <1>8, <3>1
    <2> QED BY <2>1, <2>2
  <1>10. new = Append(old, e)
    BY <1>5, <1>8, <1>9, SameItems
  <1> QED BY <1>10 DEF new, old, n, q

LEMMA PrefixAppend ==
  ASSUME NEW S, NEW x \in Seq(S), NEW p \in Seq(S), NEW e \in S, IsPrefix(x, p)
  PROVE  IsPrefix(x, Append(p, e))
  <1> DEFINE q == Append(p, e)
  <1>1. /\ q \in Seq(S) /\ Len(q) = Len(p) + 1 /\ Len(p) \in Nat /\ Len(x) \in Nat
        /\ \A i \in 1..Len(p) : q[i] = p[i]
    OBVIOUS
  <1> HIDE DEF q
  <1>2. Len(x) <= Len(p) /\ \A i \in 1..Len(x) : x[i] = p[i]
    BY PrefixHas
  <1>3. Len(x) <= Len(q)
    BY <1>1, <1>2
  <1>4. ASSUME NEW i \in 1..Len(x) PROVE x[i] = q[i]
    <2>1. i \in 1..Len(p)
      BY <1>1, <1>2
    <2> QED BY <1>1, <1>2, <2>1
  <1>5. IsPrefix(x, q)
    BY <1>1, <1>3, <1>4, PrefixIs
  <1> QED BY <1>5 DEF q

-----------------------------------------------------------------------------
(* What passes through the buffer: bounded, complete and in order *)

\* The division of the items that InOrder asks for.
Rest(its, x, p) ==
  \E cut : /\ CutOf(its, cut, Len(x), Len(p))
           /\ \A i \in 1..Len(its) : its[i] = SubSeq(p, cut[i - 1] + 1, cut[i])

LEMMA RestIsRest ==
  /\ Rest(items, sent \o holding, published) <=>
       \E cut \in Cuts(Len(sent \o holding), Len(published)) :
         \A i \in 1..Len(items) : items[i] = SubSeq(published, cut[i - 1] + 1, cut[i])
  /\ (Rest(items, sent \o holding, published) <=>
       \E cut \in Cuts(Len(sent \o holding), Len(published)) :
         \A i \in 1..Len(items) : items[i] = SubSeq(published, cut[i - 1] + 1, cut[i]))'
  BY CutsAreCuts DEF Rest

\* A new event in an item of its own.
LEMMA RestAdd ==
  ASSUME NEW S, NEW its \in Seq(Seq(S)), NEW x \in Seq(S), NEW p \in Seq(S), NEW e \in S,
         Rest(its, x, p)
  PROVE  Rest(Append(its, <<e>>), x, Append(p, e))
  <1> DEFINE n == Len(its)
             from == Len(x)
             to == Len(p)
             new == Append(its, <<e>>)
             q == Append(p, e)
  <1>1. PICK cut : /\ CutOf(its, cut, from, to)
                   /\ \A i \in 1..n : its[i] = SubSeq(p, cut[i - 1] + 1, cut[i])
    BY DEF Rest
  <1>2. n \in Nat /\ from \in Nat /\ to \in Nat /\ Len(q) = to + 1
    OBVIOUS
  <1>3. PICK c : /\ CutOf(new, c, from, to + 1)
                 /\ c[n] = to /\ c[n + 1] = to + 1
                 /\ \A i \in 0..n : c[i] = cut[i]
    BY <1>1, <1>2, CutAdd
  <1>4. /\ Len(new) = n + 1 /\ new[n + 1] = <<e>>
        /\ \A i \in 1..n : new[i] = its[i]
    OBVIOUS
  <1>5. \A i \in 0..n : cut[i] \in from..to
    BY <1>1 DEF CutOf
  <1>6. \A i \in 1..n : cut[i] = cut[i - 1] + Len(its[i]) /\ Len(its[i]) \in Nat
    BY <1>1 DEF CutOf
  <1>7. ASSUME NEW i \in 1..n PROVE new[i] = SubSeq(q, c[i - 1] + 1, c[i])
    <2>1. i \in 0..n /\ i - 1 \in 0..n
      BY <1>2
    <2>2. cut[i] \in from..to /\ cut[i - 1] \in from..to
      BY <1>5, <2>1
    <2>3. cut[i] = cut[i - 1] + Len(its[i]) /\ Len(its[i]) \in Nat
      BY <1>6
    <2> DEFINE a == cut[i - 1]
               b == cut[i]
    <2>4. /\ a + 1 \in Nat \ {0} /\ b \in Nat /\ b <= to /\ a + 1 <= b + 1
      BY <1>2, <2>2, <2>3
    <2> HIDE DEF a, b
    <2>5. SubSeq(q, a + 1, b) = SubSeq(p, a + 1, b)
      BY <2>4, StretchStays
    <2>6. its[i] = SubSeq(p, a + 1, b)
      BY <1>1 DEF a, b
    <2>7. c[i] = b /\ c[i - 1] = a
      BY <1>3, <2>1 DEF a, b
    <2> QED BY <1>4, <2>5, <2>6, <2>7
  <1>8. new[n + 1] = SubSeq(q, c[(n + 1) - 1] + 1, c[n + 1])
    <2>1. SubSeq(q, to + 1, to + 1) = Append(SubSeq(p, to + 1, to), e)
      BY <1>2, StretchGrows
    <2>2. SubSeq(p, to + 1, to) = <<>>
      BY <1>2, SubSeqEmpty
    <2>3. Append(<<>>, e) = <<e>>
      BY AppendShort
    <2>4. (n + 1) - 1 = n
      BY <1>2
    <2> QED BY <1>3, <1>4, <2>1, <2>2, <2>3, <2>4
  <1>9. \A i \in 1..Len(new) : new[i] = SubSeq(q, c[i - 1] + 1, c[i])
    <2>1. ASSUME NEW i \in 1..n + 1, i # n + 1 PROVE i \in 1..n
      BY <1>2, <2>1
    <2> HIDE DEF new, q
    <2> QED BY <1>4, <1>7, <1>8, <2>1
  <1> QED BY <1>2, <1>3, <1>9 DEF Rest

\* A new event in the last item.
LEMMA RestMerge ==
  ASSUME NEW S, NEW its \in Seq(Seq(S)), its # <<>>,
         NEW x \in Seq(S), NEW p \in Seq(S), NEW e \in S, Rest(its, x, p)
  PROVE  Rest(Merged(its, e), x, Append(p, e))
  <1> DEFINE n == Len(its)
             from == Len(x)
             to == Len(p)
             new == Merged(its, e)
             q == Append(p, e)
  <1>1. PICK cut : /\ CutOf(its, cut, from, to)
                   /\ \A i \in 1..n : its[i] = SubSeq(p, cut[i - 1] + 1, cut[i])
    BY DEF Rest
  <1>2. n \in Nat \ {0} /\ from \in Nat /\ to \in Nat /\ Len(q) = to + 1
    OBVIOUS
  <1>3. PICK c : /\ CutOf(new, c, from, to + 1)
                 /\ c[n] = to + 1
                 /\ \A i \in 0..n - 1 : c[i] = cut[i]
    BY <1>1, <1>2, CutMerge
  <1>4a. \A i \in 1..n : i # n => new[i] = its[i]
    BY MergedItems
  <1>4. /\ Len(new) = n /\ new[n] = Append(its[n], e)
    BY MergedItems
  <1>5. \A i \in 0..n : cut[i] \in from..to
    BY <1>1 DEF CutOf
  <1>6. cut[n] = to /\ \A i \in 1..n : cut[i] = cut[i - 1] + Len(its[i]) /\ Len(its[i]) \in Nat
    BY <1>1 DEF CutOf
  <1> HIDE DEF new
  <1>7. ASSUME NEW i \in 1..n, i # n PROVE new[i] = SubSeq(q, c[i - 1] + 1, c[i])
    <2>1. i \in 0..n - 1 /\ i - 1 \in 0..n - 1 /\ i \in 0..n /\ i - 1 \in 0..n
      BY <1>2, <1>7
    <2>2. cut[i] \in from..to /\ cut[i - 1] \in from..to
      BY <1>5, <2>1
    <2>3. cut[i] = cut[i - 1] + Len(its[i]) /\ Len(its[i]) \in Nat
      BY <1>6
    <2> DEFINE a == cut[i - 1]
               b == cut[i]
    <2>4. /\ a + 1 \in Nat \ {0} /\ b \in Nat /\ b <= to /\ a + 1 <= b + 1
      BY <1>2, <2>2, <2>3
    <2> HIDE DEF a, b
    <2>5. SubSeq(q, a + 1, b) = SubSeq(p, a + 1, b)
      BY <2>4, StretchStays
    <2>6. its[i] = SubSeq(p, a + 1, b)
      BY <1>1 DEF a, b
    <2>7. c[i] = b /\ c[i - 1] = a
      BY <1>3, <2>1 DEF a, b
    <2> QED BY <1>4a, <1>7, <2>5, <2>6, <2>7
  <1>8. new[n] = SubSeq(q, c[n - 1] + 1, c[n])
    <2>1. n \in 1..n /\ n - 1 \in 0..n /\ n - 1 \in 0..n - 1
      BY <1>2
    <2> DEFINE a == cut[n - 1]
    <2>2. a \in from..to
      BY <1>5, <2>1
    <2>3. its[n] = SubSeq(p, a + 1, to)
      BY <1>1, <1>6, <2>1
    <2>4. c[n - 1] = a
      BY <1>3, <2>1
    <2> HIDE DEF a
    <2>5. a + 1 \in Nat \ {0} /\ a + 1 <= to + 1
      BY <1>2, <2>2
    <2>6. SubSeq(q, a + 1, to + 1) = Append(SubSeq(p, a + 1, to), e)
      BY <2>5, StretchGrows
    <2> QED BY <1>3, <1>4, <2>3, <2>4, <2>6
  <1>9. \A i \in 1..Len(new) : new[i] = SubSeq(q, c[i - 1] + 1, c[i])
    BY <1>4, <1>7, <1>8
  <1> QED BY <1>2, <1>3, <1>9 DEF Rest, new

\* The first item taken in hand.
LEMMA RestGet ==
  ASSUME NEW S, NEW its \in Seq(Seq(S)), its # <<>>,
         NEW x \in Seq(S), NEW p \in Seq(S), IsPrefix(x, p), Rest(its, x, p)
  PROVE  IsPrefix(x \o Head(its), p) /\ Rest(Tail(its), x \o Head(its), p)
  <1> DEFINE n == Len(its)
             from == Len(x)
             to == Len(p)
             head == its[1]
             y == x \o head
  <1>1. PICK cut : /\ CutOf(its, cut, from, to)
                   /\ \A i \in 1..n : its[i] = SubSeq(p, cut[i - 1] + 1, cut[i])
    BY DEF Rest
  <1>2. n \in Nat \ {0} /\ from \in Nat /\ to \in Nat /\ head \in Seq(S) /\ Head(its) = head
    OBVIOUS
  <1>3. cut[0] = from /\ 1 \in 1..n
    BY <1>1, <1>2 DEF CutOf
  <1>4. cut[1] = from + Len(head) /\ cut[1] <= to
    BY <1>1, <1>2, CutDrop
  <1>5. PICK c : /\ CutOf(Tail(its), c, cut[1], to)
                 /\ \A i \in 0..n - 1 : c[i] = cut[i + 1]
    BY <1>1, <1>2, CutDrop
  <1>6. head = SubSeq(p, from + 1, cut[1])
    BY <1>1, <1>3
  <1> DEFINE k == Len(head)
  <1>7. /\ y \in Seq(S) /\ Len(y) = from + k /\ k \in Nat
        /\ \A i \in 1..from : y[i] = x[i]
        /\ \A i \in 1..k : y[from + i] = head[i]
    BY <1>2
  <1>8. \A i \in 1..k : head[i] = p[from + i]
    <2>1. /\ Len(SubSeq(p, from + 1, from + k)) = (from + k) - (from + 1) + 1
          /\ \A i \in 1..((from + k) - (from + 1) + 1) :
               SubSeq(p, from + 1, from + k)[i] = p[(from + 1) + i - 1]
      BY <1>2, <1>4, <1>7, Stretch
    <2>2. (from + k) - (from + 1) + 1 = k /\ \A i \in 1..k : (from + 1) + i - 1 = from + i
      BY <1>2, <1>7
    <2> QED BY <1>4, <1>6, <2>1, <2>2
  <1>9. from <= to /\ \A i \in 1..from : x[i] = p[i]
    BY PrefixHas
  <1> HIDE DEF y, k, head, from
  <1>10. ASSUME NEW i \in 1..Len(y) PROVE y[i] = p[i]
    <2>1. CASE i \in 1..from
      BY <1>7, <1>9, <2>1
    <2>2. CASE i \notin 1..from
      <3>1. i - from \in 1..k /\ from + (i - from) = i
        BY <1>2, <1>7, <2>2
      <3> QED BY <1>7, <1>8, <3>1
    <2> QED BY <2>1, <2>2
  <1>11. IsPrefix(y, p)
    <2>1. Len(y) <= to
      BY <1>2, <1>4, <1>7 DEF k
    <2> QED BY <1>7, <1>10, <2>1, PrefixIs
  <1>12. cut[1] = Len(y)
    BY <1>2, <1>4, <1>7 DEF k
  <1>13. CutOf(Tail(its), c, Len(y), to)
    BY <1>5, <1>12
  <1>14. ASSUME NEW i \in 1..n - 1
         PROVE  Tail(its)[i] = SubSeq(p, c[i - 1] + 1, c[i])
    <2>1. /\ i + 1 \in 1..n /\ i \in 0..n - 1 /\ i - 1 \in 0..n - 1
          /\ (i + 1) - 1 = i /\ (i - 1) + 1 = i /\ i \in 0..n /\ i + 1 \in 0..n
      BY <1>2
    <2>2. its[i + 1] = SubSeq(p, cut[i] + 1, cut[i + 1])
      BY <1>1, <2>1
    <2>3. cut[i] \in Int /\ cut[i + 1] \in Int
      BY <1>1, <2>1 DEF CutOf
    <2>4. c[i] = cut[i + 1] /\ c[i - 1] = cut[i]
      BY <1>5, <2>1, <2>3
    <2>5. Tail(its)[i] = its[i + 1]
      BY <1>2
    <2> QED BY <2>2, <2>4, <2>5
  <1>15. Len(Tail(its)) = n - 1
    BY <1>2
  <1>16. Rest(Tail(its), y, p)
    BY <1>13, <1>14, <1>15 DEF Rest
  <1> QED BY <1>2, <1>11, <1>16 DEF y

\* The last conjunct of BufferBounded, for any items.
Uniform(its) ==
  \A i \in 1..Len(its) :
    /\ its[i] # <<>>
    /\ \A j \in 1..Len(its[i]) :
         /\ its[i][j].kind = its[i][1].kind
         /\ Len(its[i]) > 1 => its[i][j].kind # "note"

LEMMA BoundedParts ==
  /\ BufferBounded <=> /\ Len(items) <= CHATStreamMaxEvents /\ bytes <= CHATStreamMaxBytes
                       /\ (\E cut : CutOf(items, cut, 0, bytes)) /\ Uniform(items)
  /\ BufferBounded' <=> /\ Len(items') <= CHATStreamMaxEvents /\ bytes' <= CHATStreamMaxBytes
                        /\ (\E cut : CutOf(items', cut, 0, bytes')) /\ Uniform(items')
  <1>1. Cuts(0, bytes) # {} <=> \E cut : CutOf(items, cut, 0, bytes)
    BY CutsAreCuts
  <1>2. Cuts(0, bytes)' # {} <=> \E cut : CutOf(items', cut, 0, bytes')
    BY DEF Cuts, CutOf
  <1>3. BufferBounded <=> /\ Len(items) <= CHATStreamMaxEvents /\ bytes <= CHATStreamMaxBytes
                          /\ Cuts(0, bytes) # {} /\ Uniform(items)
    BY DEF BufferBounded, Uniform
  <1>4. BufferBounded' <=> /\ Len(items') <= CHATStreamMaxEvents /\ bytes' <= CHATStreamMaxBytes
                           /\ Cuts(0, bytes)' # {} /\ Uniform(items')
    BY DEF BufferBounded, Uniform
  <1> QED BY <1>1, <1>2, <1>3, <1>4

LEMMA UniformAdd ==
  ASSUME NEW its \in Seq(Seq(Events)), Uniform(its), NEW e \in Events
  PROVE  Uniform(Append(its, <<e>>))
  <1> DEFINE new == Append(its, <<e>>)
             n == Len(its)
  <1>1. /\ n \in Nat /\ Len(new) = n + 1 /\ new[n + 1] = <<e>>
        /\ \A i \in 1..n : new[i] = its[i]
    OBVIOUS
  <1> HIDE DEF new, n
  <1>2. /\ new[n + 1] # <<>> /\ Len(new[n + 1]) = 1
        /\ \A j \in 1..1 : new[n + 1][j].kind = new[n + 1][1].kind
    BY <1>1
  <1>3. ASSUME NEW i \in 1..n + 1, i # n + 1 PROVE i \in 1..n
    BY <1>1, <1>3
  <1> USE DEF Uniform
  <1>4. ASSUME NEW i \in 1..n
        PROVE  /\ new[i] # <<>>
               /\ \A j \in 1..Len(new[i]) :
                    /\ new[i][j].kind = new[i][1].kind
                    /\ Len(new[i]) > 1 => new[i][j].kind # "note"
    BY <1>1 DEF n
  <1>5. /\ new[n + 1] # <<>>
        /\ \A j \in 1..Len(new[n + 1]) :
             /\ new[n + 1][j].kind = new[n + 1][1].kind
             /\ Len(new[n + 1]) > 1 => new[n + 1][j].kind # "note"
    BY <1>2
  <1>6. ASSUME NEW i \in 1..Len(new)
        PROVE  /\ new[i] # <<>>
               /\ \A j \in 1..Len(new[i]) :
                    /\ new[i][j].kind = new[i][1].kind
                    /\ Len(new[i]) > 1 => new[i][j].kind # "note"
    BY <1>1, <1>3, <1>4, <1>5
  <1> QED BY <1>6 DEF new

LEMMA UniformMerge ==
  ASSUME NEW its \in Seq(Seq(Events)), its # <<>>, Uniform(its), NEW e \in Events,
         e.kind # "note", Head(Last(its)).kind = e.kind
  PROVE  Uniform(Merged(its, e))
  <1> DEFINE new == Merged(its, e)
             n == Len(its)
             last == its[n]
             grown == Append(last, e)
  <1>1. /\ n \in Nat \ {0} /\ Len(new) = n /\ new[n] = grown
        /\ last \in Seq(Events) /\ Last(its) = last
    BY MergedItems
  <1>2. \A i \in 1..n : i # n => new[i] = its[i]
    BY MergedItems
  <1>3. n \in 1..n
    BY <1>1
  <1>4. /\ last # <<>>
        /\ \A j \in 1..Len(last) : last[j].kind = last[1].kind
    BY <1>3 DEF Uniform
  <1>5. Head(last) = last[1]
    BY <1>1, <1>4
  <1>6. last[1].kind = e.kind
    BY <1>1, <1>5
  <1> HIDE DEF new, last
  <1>7. /\ Len(grown) = Len(last) + 1 /\ Len(last) \in Nat \ {0}
        /\ grown[Len(last) + 1] = e /\ \A j \in 1..Len(last) : grown[j] = last[j]
        /\ grown \in Seq(Events)
    BY <1>1, <1>4
  <1> HIDE DEF grown, n
  <1>8. ASSUME NEW j \in 1..Len(grown) PROVE grown[j].kind = e.kind
    <2>1. CASE j = Len(last) + 1
      BY <1>7, <2>1
    <2>2. CASE j # Len(last) + 1
      <3>1. j \in 1..Len(last)
        BY <1>7, <2>2
      <3> QED BY <1>4, <1>6, <1>7, <3>1
    <2> QED BY <2>1, <2>2
  <1>9. 1 \in 1..Len(grown) /\ grown # <<>>
    BY <1>7
  <1>10. /\ grown # <<>>
         /\ \A j \in 1..Len(grown) :
              /\ grown[j].kind = grown[1].kind
              /\ Len(grown) > 1 => grown[j].kind # "note"
    BY <1>8, <1>9
  <1>11. ASSUME NEW i \in 1..n, i # n
         PROVE  /\ new[i] # <<>>
                /\ \A j \in 1..Len(new[i]) :
                     /\ new[i][j].kind = new[i][1].kind
                     /\ Len(new[i]) > 1 => new[i][j].kind # "note"
    BY <1>2, <1>11 DEF Uniform, n
  <1>12. ASSUME NEW i \in 1..Len(new)
         PROVE  /\ new[i] # <<>>
                /\ \A j \in 1..Len(new[i]) :
                     /\ new[i][j].kind = new[i][1].kind
                     /\ Len(new[i]) > 1 => new[i][j].kind # "note"
    BY <1>1, <1>10, <1>11
  <1> QED BY <1>12 DEF Uniform, new

LEMMA UniformTail ==
  ASSUME NEW its \in Seq(Seq(Events)), its # <<>>, Uniform(its)
  PROVE  Uniform(Tail(its))
  <1> DEFINE new == Tail(its)
  <1>1. Len(its) \in Nat \ {0} /\ Len(new) = Len(its) - 1
    OBVIOUS
  <1>2. \A i \in 1..Len(its) - 1 : new[i] = its[i + 1]
    BY <1>1
  <1> HIDE DEF new
  <1>3. ASSUME NEW i \in 1..Len(new)
        PROVE  /\ new[i] # <<>>
               /\ \A j \in 1..Len(new[i]) :
                    /\ new[i][j].kind = new[i][1].kind
                    /\ Len(new[i]) > 1 => new[i][j].kind # "note"
    <2>1. new[i] = its[i + 1] /\ i + 1 \in 1..Len(its)
      BY <1>1, <1>2
    <2> QED BY <2>1 DEF Uniform
  <1> QED BY <1>3 DEF Uniform, new

\* InOrder, in terms of Rest.
LEMMA OrderParts ==
  /\ InOrder <=> /\ IsPrefix(sent \o holding, published)
                 /\ (Looping /\ ~stopped /\ terminal \in {"none", "result"} =>
                       Rest(items, sent \o holding, published))
  /\ InOrder' <=> /\ IsPrefix(sent' \o holding', published')
                  /\ (Looping' /\ ~stopped' /\ terminal' \in {"none", "result"} =>
                        Rest(items', sent' \o holding', published'))
  <1>1. Rest(items, sent \o holding, published) <=>
          \E cut \in Cuts(Len(sent \o holding), Len(published)) :
            \A i \in 1..Len(items) : items[i] = SubSeq(published, cut[i - 1] + 1, cut[i])
    BY RestIsRest
  <1>2. Rest(items', sent' \o holding', published') <=>
          (\E cut \in Cuts(Len(sent \o holding), Len(published)) :
             \A i \in 1..Len(items) : items[i] = SubSeq(published, cut[i - 1] + 1, cut[i]))'
    BY DEF Cuts, CutOf, Rest
  <1> HIDE DEF Rest
  <1>3. InOrder <=> /\ IsPrefix(sent \o holding, published)
                    /\ (Looping /\ ~stopped /\ terminal \in {"none", "result"} =>
                          Rest(items, sent \o holding, published))
    BY <1>1 DEF InOrder
  <1>4. InOrder' <=> /\ IsPrefix(sent' \o holding', published')
                     /\ (Looping' /\ ~stopped' /\ terminal' \in {"none", "result"} =>
                           Rest(items', sent' \o holding', published'))
    BY <1>2 DEF InOrder, IsPrefix
  <1> QED BY <1>3, <1>4

\* What has passed and what is buffered.
PassInv == DataTyped /\ BufferBounded /\ InOrder

LEMMA PassSame ==
  ASSUME PassInv, UNCHANGED <<items, bytes, published, sent, holding>>,
         Looping' /\ ~stopped' /\ terminal' \in {"none", "result"} =>
           Looping /\ ~stopped /\ terminal \in {"none", "result"}
  PROVE  PassInv'
  <1>1. DataTyped'
    BY DEF PassInv, DataTyped
  <1>2. BufferBounded'
    BY BoundedParts DEF PassInv
  <1>3. InOrder'
    BY OrderParts DEF PassInv
  <1> QED BY <1>1, <1>2, <1>3 DEF PassInv

LEMMA PassCleared ==
  ASSUME PassInv, items' = <<>>, bytes' = 0, UNCHANGED <<published, sent, holding>>,
         stopped' \/ terminal' \notin {"none", "result"}
  PROVE  PassInv'
  <1>1. DataTyped'
    BY DEF PassInv, DataTyped
  <1>2. BufferBounded'
    <2> DEFINE c == [i \in 0..0 |-> 0]
    <2>1. Len(<<>>) = 0 /\ c \in [0..0 -> 0..0] /\ c[0] = 0
      OBVIOUS
    <2> HIDE DEF c
    <2>2. CutOf(<<>>, c, 0, 0)
      BY <2>1 DEF CutOf
    <2>3. Uniform(<<>>)
      BY DEF Uniform
    <2>4. 0 <= CHATStreamMaxEvents /\ 0 <= CHATStreamMaxBytes
      BY ConstantsAssumption
    <2> QED BY <2>1, <2>2, <2>3, <2>4, BoundedParts
  <1>3. InOrder'
    BY OrderParts DEF PassInv
  <1> QED BY <1>1, <1>2, <1>3 DEF PassInv

\* Stream gives up what it holds.
LEMMA PassReturned ==
  ASSUME PassInv, UNCHANGED <<items, bytes, published, sent>>, holding' = <<>>, ~Looping'
  PROVE  PassInv'
  <1>0. sent \in Seq(Events) /\ holding \in Seq(Events) /\ published \in Seq(Events)
    BY DEF PassInv, DataTyped
  <1>1. DataTyped'
    BY DEF PassInv, DataTyped
  <1>2. BufferBounded'
    BY BoundedParts DEF PassInv
  <1>3. IsPrefix(sent \o <<>>, published)
    <2> DEFINE x == sent \o holding
               y == sent \o <<>>
    <2>1. /\ x \in Seq(Events) /\ y \in Seq(Events) /\ Len(y) = Len(sent)
          /\ Len(sent) <= Len(x) /\ Len(sent) \in Nat /\ Len(x) \in Nat
          /\ \A i \in 1..Len(sent) : x[i] = sent[i] /\ y[i] = sent[i]
      BY <1>0
    <2>2. IsPrefix(x, published)
      BY OrderParts DEF PassInv
    <2> HIDE DEF x, y
    <2>3. Len(x) <= Len(published) /\ \A i \in 1..Len(x) : x[i] = published[i]
      BY <1>0, <2>1, <2>2, PrefixHas
    <2>4. Len(published) \in Nat
      BY <1>0
    <2>5. Len(y) <= Len(published)
      BY <2>1, <2>3, <2>4
    <2>6. ASSUME NEW i \in 1..Len(y) PROVE y[i] = published[i]
      <3>1. i \in 1..Len(sent) /\ i \in 1..Len(x)
        BY <2>1
      <3> QED BY <2>1, <2>3, <3>1
    <2>7. IsPrefix(y, published)
      BY <1>0, <2>1, <2>5, <2>6, PrefixIs
    <2> QED BY <2>7 DEF y
  <1>4. InOrder'
    BY <1>3, OrderParts
  <1> QED BY <1>1, <1>2, <1>4 DEF PassInv

LEMMA PassEmitted ==
  ASSUME PassInv, UNCHANGED <<items, bytes, published, verdict, stopped, terminal>>,
         sent' = sent \o holding, holding' = <<>>
  PROVE  PassInv'
  <1>0. sent \in Seq(Events) /\ holding \in Seq(Events) /\ sent \o holding \in Seq(Events)
    BY DEF PassInv, DataTyped
  <1>1. DataTyped'
    BY <1>0 DEF PassInv, DataTyped
  <1>2. BufferBounded'
    BY BoundedParts DEF PassInv
  <1>3. sent' \o holding' = sent \o holding
    <2> DEFINE x == sent \o holding
    <2>1. x \in Seq(Events)
      BY <1>0
    <2> HIDE DEF x
    <2>2. x \o <<>> = x
      BY <2>1
    <2> QED BY <2>2 DEF x
  <1>4. Looping' <=> Looping
    BY DEF Looping
  <1>5. InOrder'
    BY <1>3, <1>4, OrderParts DEF PassInv
  <1> QED BY <1>1, <1>2, <1>5 DEF PassInv

LEMMA PassGot ==
  ASSUME PassInv, Looping, ~stopped, terminal \in {"none", "result"},
         items # <<>>, holding = <<>>,
         holding' = Head(items), items' = Tail(items), bytes' = bytes - Len(Head(items)),
         UNCHANGED <<published, sent>>
  PROVE  PassInv'
  <1>0. /\ sent \in Seq(Events) /\ published \in Seq(Events)
        /\ items \in Seq(Seq(Events)) /\ bytes \in Nat
        /\ Len(items) \in Nat \ {0}
    BY DEF PassInv, DataTyped
  <1>1. Head(items) = items[1] /\ items[1] \in Seq(Events) /\ Tail(items) \in Seq(Seq(Events))
    BY <1>0
  <1>2. sent \o <<>> = sent
    BY <1>0
  <1>3. IsPrefix(sent, published) /\ Rest(items, sent, published)
    BY <1>2, OrderParts DEF PassInv
  <1>4. IsPrefix(sent \o Head(items), published) /\ Rest(Tail(items), sent \o Head(items), published)
    BY <1>0, <1>3, RestGet
  <1>5. InOrder'
    BY <1>4, OrderParts
  <1>6. PICK cut : CutOf(items, cut, 0, bytes)
    BY BoundedParts DEF PassInv
  <1> DEFINE k == Len(items[1])
  <1>7. k \in Nat /\ k <= bytes /\ \E c : CutOf(Tail(items), c, 0, bytes - k)
    BY <1>0, <1>6, CutRest
  <1>8. bytes' = bytes - k
    BY <1>1
  <1> HIDE DEF k
  <1>11. \E c : CutOf(items', c, 0, bytes')
    BY <1>7, <1>8
  <1>12. bytes' \in Nat /\ bytes' <= bytes
    BY <1>0, <1>7, <1>8
  <1>13. DataTyped'
    BY <1>0, <1>1, <1>12 DEF DataTyped
  <1>14. BufferBounded'
    <2>1. Len(items) <= CHATStreamMaxEvents /\ bytes <= CHATStreamMaxBytes /\ Uniform(items)
      BY BoundedParts DEF PassInv
    <2>2. Len(items') <= CHATStreamMaxEvents
      <3>1. Len(Tail(items)) = Len(items) - 1
        BY <1>0
      <3> QED BY <1>0, <2>1, <3>1, ConstantsAssumption
    <2>3. bytes' <= CHATStreamMaxBytes
      BY <1>0, <1>12, <2>1, ConstantsAssumption
    <2>4. Uniform(items')
      BY <1>0, <2>1, UniformTail
    <2> QED BY <1>11, <2>2, <2>3, <2>4, BoundedParts
  <1> QED BY <1>5, <1>13, <1>14 DEF PassInv

LEMMA PassAdded ==
  ASSUME PassInv, ~stopped, terminal = "none", ~Overflows, NEW e \in Events,
         items' = Append(items, <<e>>), bytes' = bytes + 1, published' = Append(published, e),
         UNCHANGED <<terminal, stopped, sent, holding, verdict>>
  PROVE  PassInv'
  <1>0. /\ sent \o holding \in Seq(Events) /\ published \in Seq(Events)
        /\ items \in Seq(Seq(Events)) /\ bytes \in Nat /\ Len(items) \in Nat
    BY DEF PassInv, DataTyped
  <1>1. DataTyped'
    <2>1. Append(items, <<e>>) \in Seq(Seq(Events)) /\ Append(published, e) \in Seq(Events)
      BY <1>0
    <2>2. bytes + 1 \in Nat
      BY <1>0
    <2> QED BY <2>1, <2>2 DEF PassInv, DataTyped
  <1>2. PICK cut : CutOf(items, cut, 0, bytes)
    BY BoundedParts DEF PassInv
  <1>3. PICK c : CutOf(Append(items, <<e>>), c, 0, bytes + 1)
    BY <1>0, <1>2, CutAdd
  <1>4. BufferBounded'
    <2>1. Uniform(items')
      BY <1>0, UniformAdd, BoundedParts DEF PassInv
    <2>2. Len(items') = Len(items) + 1
      BY <1>0
    <2>3. Len(items') <= CHATStreamMaxEvents /\ bytes' <= CHATStreamMaxBytes
      BY <1>0, <2>2, ConstantsAssumption DEF Overflows
    <2> QED BY <1>3, <2>1, <2>3, BoundedParts
  <1>5. IsPrefix(sent \o holding, Append(published, e))
    BY <1>0, OrderParts, PrefixAppend DEF PassInv
  <1>6. Looping => Rest(Append(items, <<e>>), sent \o holding, Append(published, e))
    <2>1. Looping => Rest(items, sent \o holding, published)
      BY OrderParts DEF PassInv
    <2> QED BY <1>0, <2>1, RestAdd
  <1>7. InOrder'
    BY <1>5, <1>6, OrderParts DEF Looping
  <1> QED BY <1>1, <1>4, <1>7 DEF PassInv

LEMMA PassMerged ==
  ASSUME PassInv, ~stopped, terminal = "none", NEW e \in Events, Merges(e),
         items' = Merged(items, e), bytes' = bytes + 1, published' = Append(published, e),
         UNCHANGED <<terminal, stopped, sent, holding, verdict>>
  PROVE  PassInv'
  <1>0. /\ sent \o holding \in Seq(Events) /\ published \in Seq(Events)
        /\ items \in Seq(Seq(Events)) /\ bytes \in Nat /\ Len(items) \in Nat
        /\ items # <<>> /\ e.kind # "note" /\ Head(Last(items)).kind = e.kind
        /\ bytes + 1 <= CHATStreamMaxBytes
    BY DEF PassInv, DataTyped, Merges
  <1>a. Merged(items, e) \in Seq(Seq(Events)) /\ Len(Merged(items, e)) = Len(items)
    BY <1>0, MergedItems
  <1>1. DataTyped'
    <2>1. Append(published, e) \in Seq(Events)
      BY <1>0
    <2>2. bytes + 1 \in Nat
      BY <1>0
    <2> QED BY <1>a, <2>1, <2>2 DEF PassInv, DataTyped
  <1>2. PICK cut : CutOf(items, cut, 0, bytes)
    BY BoundedParts DEF PassInv
  <1>3. PICK c : CutOf(Merged(items, e), c, 0, bytes + 1)
    BY <1>0, <1>2, CutMerge
  <1>4. BufferBounded'
    <2>1. Uniform(items')
      BY <1>0, UniformMerge, BoundedParts DEF PassInv
    <2>2. Len(items') <= CHATStreamMaxEvents
      BY <1>a, BoundedParts DEF PassInv
    <2> QED BY <1>0, <1>3, <2>1, <2>2, BoundedParts
  <1>5. IsPrefix(sent \o holding, Append(published, e))
    BY <1>0, OrderParts, PrefixAppend DEF PassInv
  <1>6. Looping => Rest(Merged(items, e), sent \o holding, Append(published, e))
    <2>1. Looping => Rest(items, sent \o holding, published)
      BY OrderParts DEF PassInv
    <2> QED BY <1>0, <2>1, RestMerge
  <1>7. InOrder'
    BY <1>5, <1>6, OrderParts DEF Looping
  <1> QED BY <1>1, <1>4, <1>7 DEF PassInv

-----------------------------------------------------------------------------
(* The shapes of the buffer and of the handler *)

\* A buffer that was stopped, or that ends in an error, holds nothing.
Emptied == stopped \/ terminal \notin {"none", "result"} => items = <<>> /\ bytes = 0

\* The handler holds an item only between Get and the write.
InHand == handler # "emit" => holding = <<>>

\* Only a worker on its way out leaves a terminal in a buffer that is not stopped.
LeftBehind == terminal # "none" => stopped \/ worker \in Leaving

ShapeInv == Emptied /\ InHand /\ LeftBehind

LEMMA PublishData ==
  ASSUME NEW e, NEW next, Publish(e, next)
  PROVE  \/ UNCHANGED <<items, bytes, published, terminal, stopped>>
         \/ /\ ~stopped /\ Merges(e) /\ items' = Merged(items, e)
            /\ bytes' = bytes + 1 /\ published' = Append(published, e)
            /\ UNCHANGED <<terminal, stopped>>
         \/ /\ ~stopped /\ stopped' = TRUE /\ items' = <<>> /\ bytes' = 0
            /\ published' = published /\ terminal' = "slow_consumer"
         \/ /\ ~stopped /\ ~Overflows /\ items' = Append(items, <<e>>)
            /\ bytes' = bytes + 1 /\ published' = Append(published, e)
            /\ UNCHANGED <<terminal, stopped>>
  <1>1. CASE stopped
    BY <1>1 DEF Publish, buffer
  <1>2. CASE ~stopped /\ Merges(e)
    BY <1>2 DEF Publish, Merge, Merged
  <1>3. CASE ~stopped /\ ~Merges(e) /\ Overflows
    BY <1>3 DEF Publish, Overflow
  <1>4. CASE ~stopped /\ ~Merges(e) /\ ~Overflows
    BY <1>4 DEF Publish, Add
  <1> QED BY <1>1, <1>2, <1>3, <1>4

LEMMA ShapeNext == ShapeInv /\ StageInv /\ [Next]_vars => ShapeInv'
  <1> SUFFICES ASSUME ShapeInv, StageInv, [Next]_vars PROVE ShapeInv'
    OBVIOUS
  <1> USE DEF ShapeInv, Emptied, InHand, LeftBehind
  <1>1. CASE Prepare \/ Analyze \/ Finalize \/ \E kind \in Kinds : Notify(kind)
    <2>1. /\ worker \in Publishing
          /\ handler' = handler /\ holding' = holding
          /\ \/ UNCHANGED <<items, bytes, published>>
             \/ \E kind \in Kinds, next \in Onward : Publish(Event(kind), next)
      BY <1>1, ProgressOutcome DEF loop
    <2>2. \/ worker' \in Onward /\ terminal' = terminal /\ stopped' = stopped
          \/ stopped /\ UNCHANGED <<items, bytes, terminal, stopped>>
          \/ /\ ~stopped /\ terminal' = "slow_consumer" /\ stopped' = TRUE
             /\ items' = <<>> /\ bytes' = 0
      BY <1>1, ProgressOutcome
    <2>3. worker \notin Leaving
      BY <2>1 DEF Publishing, Leaving
    <2>4. stopped => UNCHANGED <<items, bytes>>
      BY <2>1, PublishData
    <2> QED BY <2>1, <2>2, <2>3, <2>4
  <1>2. CASE Launch \/ Interrupt \/ RunReturns \/ Fail
    BY <1>2 DEF Launch, Interrupt, RunReturns, Fail, AtWorker, WorkerOnly, buffer, loop, Leaving
  <1>3. CASE CloseLease \/ StopWorker
    BY <1>3 DEF CloseLease, StopWorker, Stop, AtWorker, WorkerOnly, buffer, loop, Leaving
  <1>4. CASE FinishError \/ FinishResult
    BY <1>4 DEF FinishError, FinishResult, Finish, WorkerOnly, buffer, loop, Leaving
  <1>5. CASE Check \/ Woken \/ ContextDone \/ TimerFires \/ Emit \/ EmitFails
    BY <1>5 DEF Check, Woken, ContextDone, TimerFires, Emit, EmitFails, Return,
                HandlerOnly, NoBuffer, buffer
  <1>6. CASE Get
    BY <1>6 DEF Get, Return, HandlerOnly
  <1>7. CASE EmitFinal \/ EmitDesktop \/ EmitDone
    BY <1>7 DEF EmitFinal, EmitDesktop, EmitDone, EmitLast, Return, HandlerOnly, NoBuffer, buffer
  <1>8. CASE StopHandler
    BY <1>8 DEF StopHandler, Stop, HandlerOnly
  <1>9. CASE Join \/ CleanupTimeout \/ Answer
    BY <1>9 DEF Join, CleanupTimeout, Answer, HandlerOnly, NoBuffer, buffer
  <1>10. CASE (\E who \in {"worker", "handler"} : Signal(who)) \/ Disconnect \/ RunExpires
              \/ DeadlinePasses \/ UNCHANGED vars
    BY <1>10 DEF Signal, Disconnect, RunExpires, DeadlinePasses, vars, buffer, loop
  <1> QED BY <1>1, <1>2, <1>3, <1>4, <1>5, <1>6, <1>7, <1>8, <1>9, <1>10
          DEF Next, WorkerStep, HandlerStep, Clock

LEMMA PassNext == PassInv /\ ShapeInv /\ StageInv /\ [Next]_vars => PassInv'
  <1> SUFFICES ASSUME PassInv, ShapeInv, StageInv, [Next]_vars PROVE PassInv'
    OBVIOUS
  <1>1. CASE Prepare \/ Analyze \/ Finalize \/ \E kind \in Kinds : Notify(kind)
    <2>1. /\ worker \in Publishing
          /\ holding' = holding /\ verdict' = verdict /\ sent' = sent
          /\ \/ UNCHANGED <<items, bytes, published>>
             \/ \E kind \in Kinds, next \in Onward : Publish(Event(kind), next)
      BY <1>1, ProgressOutcome DEF loop, client
    <2>2. \/ terminal' = terminal /\ stopped' = stopped
          \/ ~stopped /\ terminal' = "slow_consumer" /\ stopped' = TRUE
      BY <1>1, ProgressOutcome
    <2>3. worker \notin Leaving
      BY <2>1 DEF Publishing, Leaving
    <2>4. CASE UNCHANGED <<items, bytes, published>>
      BY <2>1, <2>2, <2>4, PassSame DEF Looping
    <2>5. ASSUME NEW kind \in Kinds, NEW next, Publish(Event(kind), next) PROVE PassInv'
      <3> DEFINE e == Event(kind)
      <3>1. e \in Events
        BY DEF Event, Events, PassInv, DataTyped
      <3>2. ~stopped => terminal = "none"
        BY <2>3 DEF ShapeInv, LeftBehind
      <3> HIDE DEF e
      <3>3. \/ UNCHANGED <<items, bytes, published, terminal, stopped>>
            \/ /\ ~stopped /\ Merges(e) /\ items' = Merged(items, e)
               /\ bytes' = bytes + 1 /\ published' = Append(published, e)
               /\ UNCHANGED <<terminal, stopped>>
            \/ /\ ~stopped /\ stopped' = TRUE /\ items' = <<>> /\ bytes' = 0
               /\ published' = published /\ terminal' = "slow_consumer"
            \/ /\ ~stopped /\ ~Overflows /\ items' = Append(items, <<e>>)
               /\ bytes' = bytes + 1 /\ published' = Append(published, e)
               /\ UNCHANGED <<terminal, stopped>>
        BY <2>5, PublishData DEF e
      <3>4. CASE UNCHANGED <<items, bytes, published, terminal, stopped>>
        BY <2>1, <3>4, PassSame DEF Looping
      <3>5. CASE /\ ~stopped /\ Merges(e) /\ items' = Merged(items, e)
                 /\ bytes' = bytes + 1 /\ published' = Append(published, e)
                 /\ UNCHANGED <<terminal, stopped>>
        BY <2>1, <3>1, <3>2, <3>5, PassMerged
      <3>6. CASE /\ ~stopped /\ stopped' = TRUE /\ items' = <<>> /\ bytes' = 0
                 /\ published' = published /\ terminal' = "slow_consumer"
        BY <2>1, <3>6, PassCleared
      <3>7. CASE /\ ~stopped /\ ~Overflows /\ items' = Append(items, <<e>>)
                 /\ bytes' = bytes + 1 /\ published' = Append(published, e)
                 /\ UNCHANGED <<terminal, stopped>>
        BY <2>1, <3>1, <3>2, <3>7, PassAdded
      <3> QED BY <3>3, <3>4, <3>5, <3>6, <3>7
    <2> QED BY <2>1, <2>4, <2>5
  <1>2. CASE Launch \/ Interrupt \/ RunReturns \/ Fail \/ CloseLease
    <2>1. UNCHANGED <<items, bytes, published, sent, holding, verdict, stopped, terminal>>
      BY <1>2 DEF Launch, Interrupt, RunReturns, Fail, CloseLease, WorkerOnly, buffer, loop, client
    <2> QED BY <2>1, PassSame DEF Looping
  <1>3. CASE StopWorker \/ StopHandler
    <2>1. items' = <<>> /\ bytes' = 0 /\ stopped' = TRUE /\ UNCHANGED <<published, sent, holding>>
      BY <1>3 DEF StopWorker, StopHandler, Stop, WorkerOnly, HandlerOnly, loop, client
    <2> QED BY <2>1, PassCleared
  <1>4. CASE FinishError \/ FinishResult
    <2>1. UNCHANGED <<published, sent, holding, verdict, stopped>>
      BY <1>4 DEF FinishError, FinishResult, Finish, WorkerOnly, buffer, loop, client
    <2>2. \/ UNCHANGED <<items, bytes, terminal>>
          \/ UNCHANGED <<items, bytes>> /\ ~stopped /\ terminal = "none"
          \/ items' = <<>> /\ bytes' = 0 /\ terminal' \notin {"none", "result"}
      <3>1. ASSUME NEW kind, kind # "none", Finish(kind)
            PROVE  \/ UNCHANGED <<items, bytes, terminal>>
                   \/ UNCHANGED <<items, bytes>> /\ ~stopped /\ terminal = "none"
                   \/ items' = <<>> /\ bytes' = 0 /\ terminal' \notin {"none", "result"}
        BY <3>1 DEF Finish, buffer
      <3> QED BY <1>4, <3>1 DEF FinishError, FinishResult, AtWorker, StageInv
    <2> QED BY <2>1, <2>2, PassSame, PassCleared DEF Looping
  <1>5. ASSUME NEW code, code # "none", Return(code),
               UNCHANGED <<items, bytes, published, sent>>
        PROVE  PassInv'
    BY <1>5, PassReturned DEF Return, Looping
  <1>6. CASE Check \/ ContextDone \/ TimerFires \/ EmitFails
    <2>1. UNCHANGED <<items, bytes, published, sent, stopped, terminal>>
      BY <1>6 DEF Check, ContextDone, TimerFires, EmitFails, HandlerOnly, NoBuffer, buffer, client
    <2>2. \/ \E code : code # "none" /\ Return(code)
          \/ UNCHANGED <<holding, verdict>>
      BY <1>6 DEF Check, ContextDone, TimerFires, EmitFails
    <2> QED BY <1>5, <2>1, <2>2, PassSame DEF Looping
  <1>7. CASE Get
    <2>1. UNCHANGED <<published, sent, stopped, terminal>> /\ handler = "get"
      BY <1>7 DEF Get, HandlerOnly, client
    <2>2. \/ /\ items # <<>> /\ holding' = Head(items) /\ items' = Tail(items)
             /\ bytes' = bytes - Len(Head(items))
          \/ UNCHANGED <<items, bytes>> /\ \E code : code # "none" /\ Return(code)
          \/ UNCHANGED <<items, bytes, holding, verdict>>
      BY <1>7 DEF Get
    <2>3. Looping /\ holding = <<>>
      BY <2>1 DEF StageInv, ShapeInv, InHand
    <2>4. items # <<>> => ~stopped /\ terminal \in {"none", "result"}
      BY DEF ShapeInv, Emptied
    <2> QED BY <1>5, <2>1, <2>2, <2>3, <2>4, PassSame, PassGot DEF Looping
  <1>8. CASE Emit
    <2>1. /\ UNCHANGED <<items, bytes, published, verdict, stopped, terminal>>
          /\ sent' = sent \o holding /\ holding' = <<>>
      BY <1>8 DEF Emit, HandlerOnly, NoBuffer, buffer
    <2> QED BY <2>1, PassEmitted
  <1>9. CASE EmitFinal \/ EmitDesktop \/ EmitDone
    <2>1. UNCHANGED <<items, bytes, published, sent, stopped, terminal>>
      BY <1>9 DEF EmitFinal, EmitDesktop, EmitDone, EmitLast, HandlerOnly, NoBuffer, buffer
    <2>2. \/ \E code : code # "none" /\ Return(code)
          \/ UNCHANGED <<holding, verdict>>
      BY <1>9 DEF EmitFinal, EmitDesktop, EmitDone, EmitLast
    <2> QED BY <1>5, <2>1, <2>2, PassSame DEF Looping
  <1>10. CASE Woken \/ Join \/ CleanupTimeout \/ Answer
    <2>1. UNCHANGED <<items, bytes, published, sent, holding, verdict, stopped, terminal>>
      BY <1>10 DEF Woken, Join, CleanupTimeout, Answer, HandlerOnly, NoBuffer, buffer, client
    <2> QED BY <2>1, PassSame DEF Looping
  <1>11. CASE (\E who \in {"worker", "handler"} : Signal(who)) \/ Disconnect \/ RunExpires
              \/ DeadlinePasses \/ UNCHANGED vars
    <2>1. UNCHANGED <<items, bytes, published, sent, holding, verdict, stopped, terminal>>
      BY <1>11 DEF Signal, Disconnect, RunExpires, DeadlinePasses, vars, buffer, loop, client
    <2> QED BY <2>1, PassSame DEF Looping
  <1> QED BY <1>1, <1>2, <1>3, <1>4, <1>6, <1>7, <1>8, <1>9, <1>10, <1>11
          DEF Next, WorkerStep, HandlerStep, Clock

LEMMA PassInit == Init => PassInv /\ ShapeInv
  <1> SUFFICES ASSUME Init PROVE PassInv /\ ShapeInv
    OBVIOUS
  <1>1. ShapeInv
    BY DEF Init, ShapeInv, Emptied, InHand, LeftBehind
  <1>2. DataTyped
    BY TypedInit
  <1> DEFINE c == [i \in 0..0 |-> 0]
  <1>3. Len(<<>>) = 0 /\ c \in [0..0 -> 0..0] /\ c[0] = 0
    OBVIOUS
  <1> HIDE DEF c
  <1>4. CutOf(<<>>, c, 0, 0)
    BY <1>3 DEF CutOf
  <1>5. BufferBounded
    <2>1. Uniform(<<>>)
      BY DEF Uniform
    <2>2. 0 <= CHATStreamMaxEvents /\ 0 <= CHATStreamMaxBytes
      BY ConstantsAssumption
    <2> QED BY <1>3, <1>4, <2>1, <2>2, BoundedParts DEF Init
  <1>6. InOrder
    <2>1. <<>> \o <<>> = <<>> /\ <<>> \in Seq(Events)
      OBVIOUS
    <2>2. IsPrefix(<<>>, <<>>)
      BY <1>3, <2>1, PrefixIs
    <2>3. Rest(<<>>, <<>>, <<>>)
      BY <1>3, <1>4 DEF Rest
    <2> QED BY <2>1, <2>2, <2>3, OrderParts DEF Init
  <1> QED BY <1>1, <1>2, <1>5, <1>6 DEF PassInv

-----------------------------------------------------------------------------
(* The verdict is the true one *)

\* Whoever says "cancelled" has a client that left, or a handler that did.
CancelInv ==
  /\ "cancelled" \in {failure, terminal} \/ runCtx = "canceled" => gone \/ ~Looping
  /\ verdict = "cancelled" => gone

\* Whoever says "timeout" has a deadline that passed.
TimeoutInv ==
  /\ "timeout" \in {failure, terminal} => runCtx = "expired"
  /\ verdict = "timeout" => late \/ runCtx = "expired"

\* Whoever says "slow_consumer" has a buffer that was stopped.
SlowInv == "slow_consumer" \in {failure, terminal, verdict} => stopped

\* An error of the runtime is the worker's last word.
UpstreamInv ==
  /\ terminal = "upstream_error" => failure = "upstream_error" /\ worker \in Leaving
  /\ verdict = "upstream_error" => terminal = "upstream_error"

\* The buffer is stopped under a handler in its loop only by a worker that
\* will tell it.
StoppedBy == stopped /\ Looping => worker \in {"failing"} \cup Leaving

\* "completed" comes with done.
DoneInv ==
  verdict = "completed" <=> ending \in {<<"final", "done">>, <<"final", "desktop", "done">>}

ReasonInv == CancelInv /\ TimeoutInv /\ SlowInv /\ UpstreamInv /\ StoppedBy

LEMMA FramesDiffer ==
  /\ <<>> \notin {<<"final", "done">>, <<"final", "desktop", "done">>}
  /\ <<"error">> \notin {<<"final", "done">>, <<"final", "desktop", "done">>}
  /\ <<"final">> \notin {<<"final", "done">>, <<"final", "desktop", "done">>}
  /\ <<"final", "desktop">> \notin {<<"final", "done">>, <<"final", "desktop", "done">>}
  OBVIOUS

LEMMA VerdictInit == Init => ReasonInv /\ DoneInv
  BY FramesDiffer DEF Init, ReasonInv, CancelInv, TimeoutInv, SlowInv, UpstreamInv, StoppedBy, DoneInv, Looping

\* The steps, by what they do to the verdict and what it rests on.
StopFound ==
  /\ stopped /\ worker \in Publishing /\ worker' = "failing" /\ failure' = "cancelled"
  /\ UNCHANGED <<terminal, stopped, verdict, gone, runCtx, late>>

StopMade ==
  /\ ~stopped /\ worker \in Publishing /\ worker' = "failing" /\ failure' = "slow_consumer"
  /\ terminal' = "slow_consumer" /\ stopped' = TRUE
  /\ UNCHANGED <<verdict, gone, runCtx, late>>

WorkGoesOn ==
  /\ worker \notin {"failing"} \cup Leaving /\ worker' \notin {"failing"} \cup Leaving
  /\ UNCHANGED <<failure, terminal, stopped, verdict, gone, runCtx, late>>

WorkFails ==
  /\ worker \notin {"failing"} \cup Leaving /\ worker' = "failing"
  /\ \/ failure' = "upstream_error"
     \/ failure' = "cancelled" /\ runCtx = "canceled"
     \/ failure' = "timeout" /\ runCtx = "expired"
  /\ UNCHANGED <<terminal, stopped, verdict, gone, runCtx, late>>

EndTold ==
  /\ worker \in {"failing", "finishing"} /\ worker' \in Leaving
  /\ \/ terminal' = terminal
     \/ ~stopped /\ terminal = "none" /\ worker = "failing" /\ terminal' = failure
     \/ ~stopped /\ terminal = "none" /\ terminal' = "result"
  /\ UNCHANGED <<failure, stopped, verdict, gone, runCtx, late>>

WorkerLeaves ==
  /\ worker \in Leaving /\ worker' \in Leaving /\ (stopped => stopped')
  /\ UNCHANGED <<failure, terminal, verdict, gone, runCtx, late>>

HandlerReturns ==
  /\ Looping /\ ~Looping'
  /\ \/ verdict' = "cancelled" /\ gone
     \/ verdict' = "timeout" /\ late
     \/ verdict' = terminal /\ terminal \notin {"none", "result"}
     \/ verdict' \in {"write", "completed"}
  /\ runCtx' = IF runCtx = "live" THEN "canceled" ELSE runCtx
  /\ UNCHANGED <<worker, failure, terminal, stopped, gone, late>>

HandlerStops ==
  /\ ~Looping /\ stopped' = TRUE
  /\ UNCHANGED <<worker, failure, terminal, verdict, gone, runCtx, late>>

TimePasses ==
  /\ \/ UNCHANGED <<gone, runCtx, late>>
     \/ /\ gone' = TRUE /\ late' = late
        /\ runCtx' = IF runCtx = "live" THEN "canceled" ELSE runCtx
     \/ runCtx = "live" /\ runCtx' = "expired" /\ UNCHANGED <<gone, late>>
     \/ late' = TRUE /\ UNCHANGED <<gone, runCtx>>
  /\ UNCHANGED <<worker, failure, terminal, stopped, verdict>>

LEMMA VerdictSteps ==
  ASSUME [Next]_vars, StageInv, runCtx \in {"live", "canceled", "expired"}
  PROVE  \/ StopFound \/ StopMade \/ WorkGoesOn \/ WorkFails \/ EndTold \/ WorkerLeaves
         \/ HandlerReturns \/ HandlerStops \/ TimePasses
  <1>1. CASE Prepare \/ Analyze \/ Finalize \/ \E kind \in Kinds : Notify(kind)
    <2>1. worker \in Publishing /\ UNCHANGED <<verdict, gone, runCtx, late>>
      BY <1>1, ProgressOutcome DEF loop, clock
    <2>2. \/ worker' \in Onward /\ UNCHANGED <<failure, terminal, stopped>>
          \/ /\ stopped /\ worker' = "failing" /\ failure' = "cancelled"
             /\ UNCHANGED <<terminal, stopped>>
          \/ /\ ~stopped /\ worker' = "failing" /\ failure' = "slow_consumer"
             /\ terminal' = "slow_consumer" /\ stopped' = TRUE
      BY <1>1, ProgressOutcome
    <2>3. worker' \in Onward => WorkGoesOn \/ ~UNCHANGED <<failure, terminal, stopped>>
      BY <2>1 DEF WorkGoesOn, Onward, Publishing, Leaving
    <2> QED BY <2>1, <2>2, <2>3 DEF StopFound, StopMade, Onward
  <1>2. CASE Launch \/ RunReturns
    <2>1. WorkGoesOn
      BY <1>2 DEF Launch, RunReturns, AtWorker, WorkerOnly, buffer, loop, clock, WorkGoesOn, Leaving
    <2> QED BY <2>1
  <1>3. CASE Fail
    <2>1. WorkFails
      BY <1>3 DEF Fail, AtWorker, WorkerOnly, buffer, loop, clock, WorkFails, Leaving
    <2> QED BY <2>1
  <1>4. CASE Interrupt
    <2>1. UNCHANGED <<terminal, stopped, verdict, gone, runCtx, late>>
      BY <1>4 DEF Interrupt, WorkerOnly, buffer, loop, clock
    <2>2. worker \in {"starting", "running"} /\ worker' = "failing"
      BY <1>4 DEF Interrupt, AtWorker
    <2>3. \/ failure' = "cancelled" /\ runCtx = "canceled"
          \/ failure' = "timeout" /\ runCtx # "canceled" /\ runCtx # "live"
      BY <1>4 DEF Interrupt
    <2>5. WorkFails
      BY <2>1, <2>2, <2>3 DEF WorkFails, Leaving
    <2> QED BY <2>5
  <1>5. CASE FinishError \/ FinishResult
    <2>1. UNCHANGED <<failure, stopped, verdict, gone, runCtx, late>>
      BY <1>5 DEF FinishError, FinishResult, Finish, WorkerOnly, buffer, loop, clock
    <2>2. worker \in {"failing", "finishing"} /\ worker' = "closing"
      BY <1>5 DEF FinishError, FinishResult, AtWorker
    <2>3. \/ terminal' = terminal
          \/ ~stopped /\ terminal = "none" /\ worker = "failing" /\ terminal' = failure
          \/ ~stopped /\ terminal = "none" /\ terminal' = "result"
      BY <1>5 DEF FinishError, FinishResult, Finish, AtWorker, buffer
    <2>4. EndTold
      BY <2>1, <2>2, <2>3 DEF EndTold, Leaving
    <2> QED BY <2>4
  <1>6. CASE CloseLease \/ StopWorker
    <2>1. WorkerLeaves
      BY <1>6 DEF CloseLease, StopWorker, Stop, AtWorker, WorkerOnly, buffer, loop, clock,
        WorkerLeaves, Leaving
    <2> QED BY <2>1
  <1>7. ASSUME UNCHANGED <<worker, failure, terminal, stopped, verdict, gone, runCtx, late>>
        PROVE  TimePasses
    BY <1>7 DEF TimePasses
  <1>8. ASSUME NEW code, Return(code), Looping, code # "none",
               UNCHANGED <<worker, failure, terminal, stopped, gone, late>>,
               \/ code = "cancelled" /\ gone
               \/ code = "timeout" /\ late
               \/ code = terminal /\ terminal \notin {"none", "result"}
               \/ code \in {"write", "completed"}
        PROVE  HandlerReturns
    BY <1>8 DEF Return, CancelRun, HandlerReturns, Looping
  <1>9. CASE Check \/ Get \/ ContextDone \/ TimerFires \/ EmitFails
             \/ EmitFinal \/ EmitDesktop \/ EmitDone
    <2>1. /\ UNCHANGED <<worker, failure, terminal, stopped, gone, late>>
          /\ handler \in {"check", "get", "select", "emit", "heartbeat", "final",
                          "desktop", "done"}
      BY <1>9 DEF Check, Get, ContextDone, TimerFires, EmitFails, EmitFinal, EmitDesktop,
        EmitDone, EmitLast, HandlerOnly, NoBuffer, buffer
    <2>2. Looping
      BY <2>1 DEF StageInv
    <2>3. \/ gone /\ Return("cancelled")
          \/ late /\ Return("timeout")
          \/ terminal \notin {"none", "result"} /\ Return(terminal)
          \/ Return("write") \/ Return("completed")
          \/ UNCHANGED <<verdict, runCtx>>
      BY <1>9 DEF Check, Get, ContextDone, TimerFires, EmitFails, EmitFinal, EmitDesktop,
        EmitDone, EmitLast
    <2>4. HandlerReturns \/ TimePasses
      BY <1>7, <1>8, <2>1, <2>2, <2>3
    <2> QED BY <2>4
  <1>10. CASE StopHandler
    <2>1. HandlerStops
      BY <1>10 DEF StopHandler, Stop, HandlerOnly, clock, StageInv, HandlerStops
    <2> QED BY <2>1
  <1>11. CASE Woken \/ Emit \/ Join \/ CleanupTimeout \/ Answer
    <2>1. UNCHANGED <<worker, failure, terminal, stopped, verdict, gone, runCtx, late>>
      BY <1>11 DEF Woken, Emit, Join, CleanupTimeout, Answer, HandlerOnly, NoBuffer, buffer, clock
    <2> QED BY <1>7, <2>1
  <1>12. CASE (\E who \in {"worker", "handler"} : Signal(who)) \/ UNCHANGED vars
    <2>1. UNCHANGED <<worker, failure, terminal, stopped, verdict, gone, runCtx, late>>
      BY <1>12 DEF Signal, vars, buffer, loop, clock
    <2> QED BY <1>7, <2>1
  <1>13. CASE Disconnect \/ RunExpires \/ DeadlinePasses
    <2>1. TimePasses
      BY <1>13 DEF Disconnect, RunExpires, DeadlinePasses, CancelRun, buffer, loop, TimePasses
    <2> QED BY <2>1
  <1> QED BY <1>1, <1>2, <1>3, <1>4, <1>5, <1>6, <1>9, <1>10, <1>11, <1>12, <1>13
          DEF Next, WorkerStep, HandlerStep, Clock

LEMMA ReasonNext ==
    ReasonInv /\ ShapeInv /\ StageInv /\ ControlTyped /\ [Next]_vars => ReasonInv'
  <1> SUFFICES ASSUME ReasonInv, ShapeInv, StageInv, ControlTyped, [Next]_vars
               PROVE  ReasonInv'
    OBVIOUS
  <1>0. runCtx \in {"live", "canceled", "expired"}
    BY DEF ControlTyped
  <1> USE DEF ReasonInv, CancelInv, TimeoutInv, SlowInv, UpstreamInv, StoppedBy, Looping
  <1>1. CASE StopFound
    BY <1>1 DEF StopFound, Publishing, Leaving
  <1>2. CASE StopMade
    BY <1>2 DEF StopMade, Publishing, Leaving
  <1>3. CASE WorkGoesOn
    BY <1>3 DEF WorkGoesOn
  <1>4. CASE WorkFails
    BY <1>4 DEF WorkFails
  <1>5. CASE EndTold
    BY <1>5 DEF EndTold, Leaving
  <1>6. CASE WorkerLeaves
    BY <1>6 DEF WorkerLeaves
  <1>7. CASE HandlerReturns
    BY <1>7 DEF HandlerReturns
  <1>8. CASE HandlerStops
    BY <1>8 DEF HandlerStops
  <1>9. CASE TimePasses
    BY <1>9 DEF TimePasses
  <1> QED BY <1>1, <1>2, <1>3, <1>4, <1>5, <1>6, <1>7, <1>8, <1>9, <1>0, VerdictSteps

LEMMA DoneNext == DoneInv /\ EndInv /\ StageInv /\ ControlTyped /\ [Next]_vars => DoneInv'
  <1> SUFFICES ASSUME DoneInv, EndInv, StageInv, ControlTyped, [Next]_vars PROVE DoneInv'
    OBVIOUS
  <1> DEFINE Done == {<<"final", "done">>, <<"final", "desktop", "done">>}
  <1>0. /\ <<>> \notin Done /\ <<"error">> \notin Done /\ <<"final">> \notin Done
        /\ <<"final", "desktop">> \notin Done
        /\ <<"final", "done">> \in Done /\ <<"final", "desktop", "done">> \in Done
    BY FramesDiffer
  <1>a. DoneInv <=> (verdict = "completed" <=> ending \in Done)
    BY DEF DoneInv
  <1>b. DoneInv' <=> (verdict' = "completed" <=> ending' \in Done)
    BY DEF DoneInv
  <1> HIDE DEF Done
  <1>1. ASSUME UNCHANGED <<verdict, ending>> PROVE DoneInv'
    BY <1>1, <1>a, <1>b
  <1>2. ASSUME NEW code, code # "completed", Return(code), UNCHANGED ending,
               handler \in {"check", "get", "select", "emit", "heartbeat", "final",
                            "desktop", "done"}
        PROVE  DoneInv'
    <2>1. ending \in {<<>>, <<"final">>, <<"final", "desktop">>}
      BY <1>2 DEF EndInv
    <2>2. verdict' # "completed" /\ ending' \notin Done
      BY <1>0, <1>2, <2>1 DEF Return
    <2> QED BY <1>b, <2>2
  <1>3. CASE Check \/ Get \/ ContextDone \/ TimerFires \/ EmitFails
    <2>1. /\ UNCHANGED ending
          /\ handler \in {"check", "get", "select", "emit", "heartbeat", "final",
                          "desktop", "done"}
      BY <1>3 DEF Check, Get, ContextDone, TimerFires, EmitFails, client
    <2>2. terminal # "completed"
      BY DEF ControlTyped, Codes
    <2>3. \/ \E code : code # "completed" /\ Return(code)
          \/ UNCHANGED verdict
      BY <1>3, <2>2 DEF Check, Get, ContextDone, TimerFires, EmitFails
    <2> QED BY <1>1, <1>2, <2>1, <2>3
  <1>4. CASE EmitFinal
    <2>1. ending = <<>> /\ ending' = <<"final">> /\ verdict = "none" /\ verdict' = "none"
      BY <1>4, Frames DEF EmitFinal, EmitLast, EndInv, StageInv, Looping
    <2> QED BY <1>0, <1>b, <2>1
  <1>5. CASE EmitDesktop
    <2>1. ending = <<"final">> /\ ending' = <<"final", "desktop">>
          /\ verdict = "none" /\ verdict' = "none"
      BY <1>5, Frames DEF EmitDesktop, EmitLast, EndInv, StageInv, Looping
    <2> QED BY <1>0, <1>b, <2>1
  <1>6. CASE EmitDone
    <2>1. ending \in {<<"final">>, <<"final", "desktop">>}
      BY <1>6 DEF EmitDone, EmitLast, EndInv
    <2>2. ending' = Append(ending, "done") /\ verdict' = "completed"
      BY <1>6 DEF EmitDone, EmitLast, Return
    <2>3. ending' \in Done
      BY <1>0, <2>1, <2>2, Frames
    <2> QED BY <1>b, <2>2, <2>3
  <1>7. CASE Answer
    <2>1. /\ verdict' = verdict
          /\ \/ ending' = ending
             \/ /\ verdict # "completed" /\ ~broken
                /\ ending' = Append(ending, "error")
      BY <1>7 DEF Answer
    <2>2. CASE ending' = ending
      BY <1>1, <2>1, <2>2
    <2>3. CASE verdict # "completed" /\ ~broken /\ ending' = Append(ending, "error")
      <3>1. ending = <<>>
        BY <1>7, <2>3 DEF Answer, EndInv
      <3>2. ending' = <<"error">>
        BY <2>3, <3>1, Frames
      <3> QED BY <1>0, <1>b, <2>1, <2>3, <3>2
    <2> QED BY <2>1, <2>2, <2>3
  <1>8. CASE Woken \/ Emit \/ StopHandler \/ Join \/ CleanupTimeout
    BY <1>1, <1>8 DEF Woken, Emit, StopHandler, Join, CleanupTimeout, client
  <1>9. CASE (\E who \in {"worker", "handler"} : Signal(who)) \/ Disconnect \/ RunExpires
             \/ DeadlinePasses \/ UNCHANGED vars
    BY <1>1, <1>9 DEF Signal, Disconnect, RunExpires, DeadlinePasses, vars, loop, client
  <1>10. CASE \/ WorkerStep \/ Launch \/ RunReturns \/ Fail
              \/ \E kind \in Kinds : Notify(kind)
    BY <1>1, <1>10 DEF WorkerStep, Prepare, Analyze, Finalize, Progress, Launch, Interrupt,
      FinishError, FinishResult, CloseLease, StopWorker, RunReturns, Fail, Notify,
      WorkerOnly, loop, client
  <1> QED BY <1>3, <1>4, <1>5, <1>6, <1>7, <1>8, <1>9, <1>10 DEF Next, HandlerStep, Clock

\* The verdict of VerdictTrue, from the shapes the end can have.
LEMMA DoneIsDone ==
  EndsOnce =>
    (ending \in {<<"final", "done">>, <<"final", "desktop", "done">>}
       <=> \E i \in 1..Len(ending) : ending[i] = "done")
  <1> SUFFICES ASSUME EndsOnce
               PROVE  ending \in {<<"final", "done">>, <<"final", "desktop", "done">>}
                        <=> \E i \in 1..Len(ending) : ending[i] = "done"
    OBVIOUS
  <1> DEFINE Has(s) == \E i \in 1..Len(s) : s[i] = "done"
             Done == {<<"final", "done">>, <<"final", "desktop", "done">>}
  <1>1. ~Has(<<>>) /\ ~Has(<<"error">>) /\ ~Has(<<"final">>)
    OBVIOUS
  <1>2. ~Has(<<"final", "desktop">>)
    OBVIOUS
  <1>3. Has(<<"final", "done">>)
    <2>1. 2 \in 1..Len(<<"final", "done">>) /\ <<"final", "done">>[2] = "done"
      OBVIOUS
    <2> QED BY <2>1
  <1>4. Has(<<"final", "desktop", "done">>)
    <2>1. /\ 3 \in 1..Len(<<"final", "desktop", "done">>)
          /\ <<"final", "desktop", "done">>[3] = "done"
      OBVIOUS
    <2> QED BY <2>1
  <1>5. /\ <<>> \notin Done /\ <<"error">> \notin Done /\ <<"final">> \notin Done
        /\ <<"final", "desktop">> \notin Done
        /\ <<"final", "done">> \in Done /\ <<"final", "desktop", "done">> \in Done
    BY FramesDiffer
  <1> HIDE DEF Has, Done
  <1>6. ending \in Done <=> Has(ending)
    BY <1>1, <1>2, <1>3, <1>4, <1>5 DEF EndsOnce
  <1> QED BY <1>6 DEF Has, Done

-----------------------------------------------------------------------------
(* The stream as a whole *)

StreamInv ==
  /\ FlagsTyped /\ ControlTyped /\ PassInv
  /\ ToldInv /\ EndInv /\ EndsOnce /\ NoLostWakeup
  /\ ShapeInv /\ ReasonInv /\ DoneInv

LEMMA StreamInvInit == Init => StreamInv
  BY TypedInit, PassInit, ToldInit, EndInit, WakeInit, VerdictInit
  DEF StreamInv

LEMMA StreamInvNext == StreamInv /\ [Next]_vars => StreamInv'
  <1> SUFFICES ASSUME StreamInv, [Next]_vars PROVE StreamInv'
    OBVIOUS
  <1>1. StageInv
    BY DEF StreamInv, ToldInv
  <1>2. FlagsTyped' /\ ControlTyped'
    BY <1>1, FlagsTypedNext, ControlTypedNext DEF StreamInv
  <1>3. PassInv' /\ ShapeInv'
    BY <1>1, PassNext, ShapeNext DEF StreamInv
  <1>4. ToldInv' /\ EndInv' /\ EndsOnce' /\ NoLostWakeup'
    BY <1>1, ToldNext, EndNext, WakeNext DEF StreamInv
  <1>5. ReasonInv' /\ DoneInv'
    BY <1>1, ReasonNext, DoneNext DEF StreamInv
  <1> QED BY <1>2, <1>3, <1>4, <1>5 DEF StreamInv

LEMMA StreamInvSound == StreamInv => StreamSound
  <1> SUFFICES ASSUME StreamInv PROVE StreamSound
    OBVIOUS
  <1>1. TypeOK
    BY TypedParts DEF StreamInv, PassInv
  <1>2. BufferBounded /\ InOrder
    BY DEF StreamInv, PassInv
  <1>3. verdict = "completed" <=> \E i \in 1..Len(ending) : ending[i] = "done"
    BY DoneIsDone DEF StreamInv, DoneInv
  <1>4. /\ verdict = "cancelled" => gone
        /\ verdict = "timeout" => late \/ runCtx = "expired"
        /\ verdict = "slow_consumer" => stopped
        /\ verdict = "upstream_error" => failure = "upstream_error"
    BY DEF StreamInv, ReasonInv, CancelInv, TimeoutInv, SlowInv, UpstreamInv
  <1> QED BY <1>1, <1>2, <1>3, <1>4 DEF StreamSound, VerdictTrue

\* What passes through the stream (service.go, Stream and StreamBuffer): the
\* buffer keeps its limits and its count of bytes, the client gets the events
\* in order and without a gap, and the verdict names what happened.
THEOREM StreamIsSound == Spec => []StreamSound
  BY StreamInvInit, StreamInvNext, StreamInvSound, PTL DEF Spec

-----------------------------------------------------------------------------
(* HarnessClient: the kinds of values *)

Replies == [kind : {"result", "error"}, of : Methods, n : {0}]
Notices == [kind : NotificationKinds, of : {"none"}, n : Nat \ {0}]

\* What the type invariant leaves open: the lines, and the numbers handed on.
LinesOK ==
  /\ script \in Seq(NotificationKinds)
  /\ outPipe \in Seq(Replies \cup Notices) /\ found \in Replies \cup {NoLine}
  /\ queued \in Seq(Notices) /\ delivered \in Seq(Nat)

ClientTypeInv == ClientTypeOK /\ LinesOK

LEMMA ClientTypeInit == ClientInit => ClientTypeInv
  <1> SUFFICES ASSUME ClientInit PROVE ClientTypeInv
    OBVIOUS
  <1>1. script \in Seq(NotificationKinds)
    BY ClientAssumption DEF ClientInit
  <1>2. FlagsOK
    BY DEF ClientInit, FlagsOK
  <1>3. ClientTypeOK
    BY <1>1, <1>2, ClientAssumption DEF ClientInit, ClientTypeOK, Methods
  <1> QED BY <1>1, <1>3 DEF ClientInit, ClientTypeInv, LinesOK

LEMMA FlagsNext == FlagsOK /\ [ClientNext]_clientVars => FlagsOK'
  <1> SUFFICES ASSUME FlagsOK, [ClientNext]_clientVars PROVE FlagsOK'
    OBVIOUS
  <1> USE DEF FlagsOK, queueVars
  <1>1. ASSUME NEW m, Request(m) PROVE FlagsOK'
    <2>1. known' = known /\ deaf' = deaf /\ queueErr' = queueErr /\ token' = token
      BY <1>1 DEF Request, Registers, TakesPen, WriteLands, WriteFails, Answered, GivesUp,
        FailCall, CallReturns, Go, turnVars
    <2> QED BY <2>1
  <1>2. CASE Turn
    <2>1. CASE StartBegins \/ Spawns \/ Records \/ InitializeBegins \/ RunBegins
      BY <2>1 DEF StartBegins, Spawns, Records, InitializeBegins, RunBegins, Begin, ResetQueue,
        childVars
    <2>4. CASE Discards
      BY <2>4 DEF Discards, ChildExits
    <2>2. CASE Pops
      BY <2>2 DEF Pops, Consume, childVars
    <2>3. CASE Sleeps \/ RunWoken
      BY <2>3 DEF Sleeps, RunWoken, childVars
    <2> QED BY <1>2, <2>1, <2>2, <2>3, <2>4 DEF Turn
  <1>3. CASE Child
    BY <1>3 DEF Child, ChildAnswers, ChildEmits, ChildGoesDeaf, ChildExits, turnVars
  <1>4. CASE Loops
    <2>1. known' = known /\ deaf' = deaf
      BY <1>4 DEF Loops, ReadsLine, SendsAnswer, ReadEnds, ReadFails, Reaps, WaitFailsCalls,
        WaitFailsQueue, Signals, turnVars, childVars
    <2>2. queueErr' \in {queueErr, TRUE, FALSE} /\ token' \in {token, TRUE}
      BY <1>4 DEF Loops, ReadsLine, SendsAnswer, ReadEnds, ReadFails, Reaps, WaitFailsCalls,
        WaitFailsQueue, Signals, SignalWake, Push, FailQueue
    <2> QED BY <2>1, <2>2
  <1>5. CASE Close
    BY <1>5 DEF Close, CloseBegins, StdinCloses, LosesPatience, Killed, CloseEnds, ChildExits,
      FailQueue, turnVars, childVars
  <1>6. CASE UNCHANGED clientVars
    BY <1>6 DEF clientVars, turnVars, childVars
  <1> QED BY <1>1, <1>2, <1>3, <1>4, <1>5, <1>6 DEF ClientNext

LEMMA ReturnTyped ==
  ASSUME ClientTypeOK, NEW m \in Methods, NEW result \in {"result", "error"},
         calls[m] # "returned", CallReturns(m, result)
  PROVE  /\ turn' \in {"new", "starting", "spawned", "discarding", "initialize", "ready",
                       "prompt", "popping", "leaving", "asleep", "ended"}
         /\ runEnd' \in {"none", "failed", "completed"}
         /\ calls' = [calls EXCEPT ![m] = "returned"]
         /\ calls' \in [Methods -> {"none", "checked", "registered", "writing", "waiting",
                                    "returned"}]
         /\ pending' = pending \ {m} /\ UNCHANGED <<known, delivered>>
  <1>1. turn' \in {"new", "starting", "spawned", "discarding", "initialize", "ready",
                   "prompt", "popping", "leaving", "asleep", "ended"}
    <2>1. CASE m = "shutdown"
      BY <2>1 DEF CallReturns, After, ClientTypeOK
    <2>2. CASE m # "shutdown" /\ result # "result"
      BY <2>2 DEF CallReturns, After
    <2>3. CASE m = "initialize" /\ result = "result"
      BY <2>3 DEF CallReturns, After
    <2>4. CASE m = "prompt" /\ result = "result"
      BY <2>4 DEF CallReturns, After
    <2> QED BY <2>1, <2>2, <2>3, <2>4 DEF Methods
  <1> QED BY <1>1 DEF CallReturns, ClientTypeOK

LEMMA RequestTyped ==
  ASSUME ClientTypeInv, FlagsOK', NEW m \in Methods, Request(m) PROVE ClientTypeInv'
  <1> USE DEF ClientTypeInv, LinesOK, loopVars, queueVars
  <1>1. UNCHANGED <<child, deaf, script, emitted, outPipe, loopVars, closer, queueVars>>
    BY DEF Request
  <1>2. SUFFICES /\ turn' \in {"new", "starting", "spawned", "discarding", "initialize", "ready",
                               "prompt", "popping", "leaving", "asleep", "ended"}
                 /\ runEnd' \in {"none", "failed", "completed"}
                 /\ calls' \in [Methods -> {"none", "checked", "registered", "writing",
                                            "waiting", "returned"}]
                 /\ pending' \subseteq Methods /\ heard' \subseteq Methods
                 /\ answers' \in [Methods -> {"none", "result", "error"}]
                 /\ UNCHANGED <<known, delivered>>
    BY <1>1 DEF ClientTypeOK
  <1>3. ASSUME FailCall(m), calls[m] # "returned", UNCHANGED heard
        PROVE  /\ turn' \in {"new", "starting", "spawned", "discarding", "initialize", "ready",
                               "prompt", "popping", "leaving", "asleep", "ended"}
               /\ runEnd' \in {"none", "failed", "completed"}
               /\ calls' \in [Methods -> {"none", "checked", "registered", "writing",
                                            "waiting", "returned"}]
               /\ pending' \subseteq Methods /\ heard' \subseteq Methods
               /\ answers' \in [Methods -> {"none", "result", "error"}]
               /\ UNCHANGED <<known, delivered>>
    <2>1. answers' \in [Methods -> {"none", "result", "error"}]
      BY <1>3 DEF FailCall, ClientTypeOK
    <2> QED BY <1>3, <2>1, ReturnTyped DEF FailCall, ClientTypeOK
  <1>4. CASE Registers(m)
    BY <1>4 DEF Registers, Go, turnVars, ClientTypeOK
  <1>5. CASE TakesPen(m)
    BY <1>3, <1>5 DEF TakesPen, Go, turnVars, ClientTypeOK
  <1>6. CASE WriteLands(m)
    BY <1>6 DEF WriteLands, Go, turnVars, ClientTypeOK
  <1>7. CASE WriteFails(m) \/ GivesUp(m)
    BY <1>3, <1>7 DEF WriteFails, GivesUp
  <1>8. CASE Answered(m)
    <2>1. answers[m] \in {"result", "error"} /\ calls[m] # "returned"
      BY <1>8 DEF Answered, ClientTypeOK
    <2>2. answers' \in [Methods -> {"none", "result", "error"}]
      BY <1>8 DEF Answered, ClientTypeOK
    <2> QED BY <1>8, <2>1, <2>2, ReturnTyped DEF Answered, ClientTypeOK
  <1> QED BY <1>4, <1>5, <1>6, <1>7, <1>8 DEF Request

LEMMA TurnTyped == ASSUME ClientTypeInv, FlagsOK', Turn PROVE ClientTypeInv'
  <1> USE DEF ClientTypeInv, LinesOK
  <1>1. CASE StartBegins
    BY <1>1 DEF Turn, StartBegins, Ends, ClientTypeOK, callVars, childVars, loopVars, queueVars
  <1>2. CASE Spawns
    BY <1>2 DEF Turn, Spawns, Ends, ClientTypeOK, callVars, loopVars, queueVars
  <1>8. CASE Records
    BY <1>8 DEF Turn, Records, ClientTypeOK, callVars, childVars, queueVars
  <1>3. CASE InitializeBegins
    <2>1. calls' \in [Methods -> {"none", "checked", "registered", "writing", "waiting",
                                  "returned"}]
      BY <1>3 DEF InitializeBegins, Begin, ClientTypeOK
    <2> QED
      BY <1>3, <2>1 DEF Turn, InitializeBegins, Begin, Ends, ClientTypeOK, childVars, loopVars,
        queueVars
  <1>4. CASE RunBegins
    <2>1. calls' \in [Methods -> {"none", "checked", "registered", "writing", "waiting",
                                  "returned"}]
      BY <1>4 DEF RunBegins, Begin, ClientTypeOK
    <2>2. queued' = <<>> /\ queued' \in Seq(Notices) /\ Len(queued') = 0
      BY <1>4 DEF RunBegins, ResetQueue
    <2> QED
      BY <1>4, <2>1, <2>2, ClientAssumption DEF Turn, RunBegins, Begin, Ends, ResetQueue,
        ClientTypeOK, childVars, loopVars
  <1>5. CASE Pops
    <2>1. CASE queued # <<>>
      <3>1. /\ Head(queued) \in Notices /\ queued' = Tail(queued) /\ queued' \in Seq(Notices)
            /\ Len(queued') <= MaxNotificationEvents
        <4>1. queued' = Tail(queued)
          BY <1>5, <2>1 DEF Pops
        <4>2. MaxNotificationEvents \in Nat /\ Len(queued) <= MaxNotificationEvents
          BY ClientAssumption DEF ClientTypeOK
        <4> QED BY <2>1, <4>1, <4>2, HeadTailProperties
      <3>2. delivered' \in Seq(Nat)
        <4>1. delivered' = delivered \/ delivered' = Append(delivered, Head(queued).n)
          BY <1>5, <2>1 DEF Pops, Consume
        <4>2. Head(queued).n \in Nat
          BY <3>1 DEF Notices
        <4>3. delivered \in Seq(Nat)
          OBVIOUS
        <4> HIDE DEF ClientTypeInv, LinesOK
        <4> DEFINE k == Head(queued).n
        <4>4. k \in Nat
          BY <4>2
        <4> HIDE DEF k
        <4>5. Append(delivered, k) \in Seq(Nat)
          BY <4>3, <4>4
        <4> QED BY <4>1, <4>3, <4>5 DEF k
      <3>3. /\ turn' \in {"popping", "ended"}
            /\ runEnd' \in {"none", "failed", "completed"}
        BY <1>5, <2>1 DEF Pops, Consume, Ends, ClientTypeOK
      <3> QED
        BY <1>5, <3>1, <3>2, <3>3 DEF Turn, Pops, ClientTypeOK, callVars, childVars, loopVars
    <2>2. CASE queued = <<>>
      BY <1>5, <2>2 DEF Turn, Pops, Ends, ClientTypeOK, callVars, childVars, loopVars
    <2> QED BY <2>1, <2>2
  <1>6. CASE Sleeps \/ RunWoken
    <2>1. /\ turn' \in {"asleep", "popping", "ended"} /\ runEnd' \in {runEnd, "failed"}
          /\ UNCHANGED <<delivered, callVars, childVars, loopVars, queued, owed, closer>>
      BY <1>6 DEF Turn, Sleeps, RunWoken, Ends, queueVars
    <2> QED BY <2>1 DEF ClientTypeOK, callVars, childVars, loopVars
  <1>7. CASE Discards
    <2>1. CASE ChildExits /\ UNCHANGED <<turn, runEnd>>
      BY <1>7, <2>1 DEF Turn, Discards, ChildExits, ClientTypeOK, callVars, loopVars, queueVars
    <2>2. CASE ~(ChildExits /\ UNCHANGED <<turn, runEnd>>)
      BY <1>7, <2>2 DEF Turn, Discards, Ends, ClientTypeOK, callVars, loopVars, queueVars
    <2> QED BY <2>1, <2>2
  <1> QED BY <1>1, <1>2, <1>3, <1>4, <1>5, <1>6, <1>7, <1>8 DEF Turn

LEMMA ChildTyped ==
  ASSUME ClientTypeInv, ChildAnswers \/ ChildEmits \/ ChildGoesDeaf \/ ChildExits
  PROVE  /\ outPipe' \in Seq(Replies \cup Notices) /\ Len(outPipe') <= MaxPipe
         /\ child' \in {"none", "up", "exited", "reaped"}
         /\ script' = script /\ emitted' \in 0..Len(script)
         /\ heard' \subseteq Methods
  <1> USE DEF ClientTypeInv, LinesOK
  <1> MaxPipe \in Nat /\ Len(outPipe) \in Nat /\ Len(script) \in Nat
    BY ClientAssumption DEF ClientTypeOK
  <1>1. CASE ChildAnswers
    <2>1. PICK m \in heard, kind \in {"result", "error"} :
             heard' = heard \ {m} /\ outPipe' = Append(outPipe, AnswerTo(m, kind))
      BY <1>1 DEF ChildAnswers
    <2>2. AnswerTo(m, kind) \in Replies
      BY DEF AnswerTo, Replies, ClientTypeOK
    <2> QED BY <1>1, <2>1, <2>2, AppendProperties DEF ChildAnswers, ClientTypeOK
  <1>2. CASE ChildEmits
    <2>1. emitted' = emitted + 1 /\ emitted' \in 1..Len(script)
      BY <1>2 DEF ChildEmits, ClientTypeOK
    <2>2. Notified(script[emitted'], emitted') \in Notices
      <3>1. script[emitted'] \in NotificationKinds
        BY <2>1
      <3> QED BY <2>1, <3>1 DEF Notified, Notices
    <2>3. outPipe' = Append(outPipe, Notified(script[emitted'], emitted'))
      BY <1>2 DEF ChildEmits
    <2> HIDE DEF Notices
    <2> QED BY <1>2, <2>1, <2>2, <2>3, AppendProperties DEF ChildEmits, ClientTypeOK
  <1>3. CASE ChildGoesDeaf \/ ChildExits
    BY <1>3 DEF ChildGoesDeaf, ChildExits, ClientTypeOK
  <1> QED BY <1>1, <1>2, <1>3

LEMMA FailTyped ==
  ASSUME ClientTypeOK, FailAll
  PROVE  answers' \in [Methods -> {"none", "result", "error"}] /\ pending' = {} /\ calls' = calls
  BY DEF FailAll, ClientTypeOK

LEMMA QueueTyped ==
  ASSUME ClientTypeInv,
         NEW who \in {"readLoop", "waitLoop", "close"},
         \/ FailQueue(who) \/ SignalWake(who)
         \/ \E line \in Notices : Push(line)
  PROVE  /\ queued' \in Seq(Notices) /\ Len(queued') <= MaxNotificationEvents
         /\ owed' \subseteq {"readLoop", "waitLoop", "close"}
  <1> USE DEF ClientTypeInv, LinesOK
  <1> MaxNotificationEvents \in Nat /\ Len(queued) \in Nat
    BY ClientAssumption
  <1>1. CASE FailQueue(who) \/ SignalWake(who)
    BY <1>1 DEF FailQueue, SignalWake, ClientTypeOK, queueVars
  <1>2. CASE \E line \in Notices : Push(line)
    <2>1. PICK line \in Notices : Push(line)
      BY <1>2
    <2>2. CASE queueErr \/ Unread
      BY <2>1, <2>2 DEF Push, ClientTypeOK, queueVars
    <2>3. CASE ~queueErr /\ ~Unread /\ Len(queued) >= MaxNotificationEvents
      <3>1. queued' = <<>> /\ owed' = owed \cup {"readLoop"}
        BY <2>1, <2>3 DEF Push
      <3> QED BY <3>1 DEF ClientTypeOK
    <2>4. CASE ~queueErr /\ ~Unread /\ ~(Len(queued) >= MaxNotificationEvents)
      <3>1. queued' = Append(queued, line) /\ owed' = owed \cup {"readLoop"}
        BY <2>1, <2>4 DEF Push
      <3> QED BY <2>4, <3>1, AppendProperties DEF ClientTypeOK
    <2> QED BY <2>2, <2>3, <2>4
  <1> QED BY <1>1, <1>2

LEMMA LoopsTyped == ASSUME ClientTypeInv, FlagsOK', Loops PROVE ClientTypeInv'
  <1> USE DEF ClientTypeInv, LinesOK
  <1>1. CASE ReadsLine
    <2> DEFINE line == Head(outPipe)
    <2>1. /\ line \in Replies \cup Notices /\ outPipe' = Tail(outPipe)
          /\ outPipe' \in Seq(Replies \cup Notices) /\ Len(outPipe') <= MaxPipe
      BY <1>1, ClientAssumption, HeadTailProperties DEF ReadsLine, ClientTypeOK
    <2>2. CASE line.n = 0
      <3>1. line \in Replies
        BY <2>1, <2>2 DEF Notices
      <3>2. found' \in Replies \cup {NoLine} /\ UNCHANGED queueVars
        BY <1>1, <2>2, <3>1 DEF ReadsLine
      <3> QED
        BY <1>1, <2>1, <3>2 DEF Loops, ReadsLine, ClientTypeOK, turnVars, callVars, queueVars
    <2>3. CASE line.n # 0
      <3>1. line \in Notices
        BY <2>1, <2>3 DEF Replies
      <3>2. Push(line) /\ UNCHANGED found
        BY <1>1, <2>3 DEF ReadsLine
      <3>3. /\ queued' \in Seq(Notices) /\ Len(queued') <= MaxNotificationEvents
            /\ owed' \subseteq {"readLoop", "waitLoop", "close"}
        BY <3>1, <3>2, QueueTyped
      <3> QED
        BY <1>1, <2>1, <3>2, <3>3 DEF Loops, ReadsLine, ClientTypeOK, turnVars, callVars
    <2> QED BY <2>2, <2>3
  <1>2. CASE SendsAnswer
    <2>1. found \in Replies /\ found' = NoLine
      BY <1>2 DEF SendsAnswer
    <2>2. answers' \in [Methods -> {"none", "result", "error"}]
      BY <1>2, <2>1 DEF SendsAnswer, Replies, ClientTypeOK
    <2> QED
      BY <1>2, <2>1, <2>2 DEF Loops, SendsAnswer, ClientTypeOK, turnVars, childVars, queueVars
  <1>3. CASE ReadEnds \/ Reaps
    <2>1. /\ readLoop' \in {readLoop, "over"} /\ waitLoop' \in {waitLoop, "failing"}
          /\ child' \in {child, "reaped"} /\ found' = found
          /\ UNCHANGED <<turnVars, callVars, heard, script, emitted, outPipe, queued, owed, closer>>
      BY <1>3 DEF Loops, ReadEnds, Reaps, childVars, queueVars
    <2> QED BY <2>1 DEF ClientTypeOK, turnVars, callVars
  <1>4. CASE WaitFailsCalls
    BY <1>4, FailTyped DEF Loops, WaitFailsCalls, ClientTypeOK, turnVars, childVars, queueVars
  <1>5. CASE ReadFails \/ WaitFailsQueue
    <2>1. /\ queued' \in Seq(Notices) /\ Len(queued') <= MaxNotificationEvents
          /\ owed' \subseteq {"readLoop", "waitLoop", "close"}
      BY <1>5, QueueTyped DEF ReadFails, WaitFailsQueue
    <2> QED
      BY <1>5, <2>1 DEF Loops, ReadFails, WaitFailsQueue, ClientTypeOK, turnVars, callVars,
        childVars
  <1>6. CASE Signals
    <2>1. PICK who \in owed : SignalWake(who)
      BY <1>6 DEF Signals
    <2>2. /\ queued' \in Seq(Notices) /\ Len(queued') <= MaxNotificationEvents
          /\ owed' \subseteq {"readLoop", "waitLoop", "close"}
      BY <2>1, QueueTyped DEF ClientTypeOK
    <2> QED
      BY <1>6, <2>2 DEF Loops, Signals, ClientTypeOK, turnVars, callVars, childVars, loopVars
  <1> QED BY <1>1, <1>2, <1>3, <1>4, <1>5, <1>6 DEF Loops

LEMMA CloseTyped == ASSUME ClientTypeInv, FlagsOK', Close PROVE ClientTypeInv'
  <1> USE DEF ClientTypeInv, LinesOK
  <1>1. CASE FailAll /\ FailQueue("close") /\ closer' = "over" /\ UNCHANGED childVars
    <2>1. /\ queued' \in Seq(Notices) /\ Len(queued') <= MaxNotificationEvents
          /\ owed' \subseteq {"readLoop", "waitLoop", "close"}
      BY <1>1, QueueTyped
    <2> QED
      BY <1>1, <2>1, FailTyped DEF Close, ClientTypeOK, turnVars, loopVars, childVars
  <1>2. CASE CloseBegins
    <2>1. CASE waitLoop = "none"
      BY <1>1, <1>2, <2>1 DEF CloseBegins
    <2>2. CASE waitLoop # "none"
      <3>1. calls' \in [Methods -> {"none", "checked", "registered", "writing", "waiting",
                                    "returned"}] /\ pending' \subseteq Methods
        BY <1>2, <2>2 DEF CloseBegins, ClientTypeOK, Methods
      <3> QED
        <4>1. /\ UNCHANGED <<turnVars, loopVars, answers, child, heard, script, emitted, outPipe,
                              queued, owed>>
              /\ closer' = "shutdown"
          BY <1>2, <2>2 DEF Close, CloseBegins, childVars, queueVars
        <4> QED BY <3>1, <4>1 DEF ClientTypeOK, turnVars, loopVars
    <2> QED BY <2>1, <2>2
  <1>3. CASE StdinCloses \/ LosesPatience
    <2>1. /\ UNCHANGED <<turnVars, loopVars, callVars, child, heard, script, emitted, outPipe,
                          queued, owed>>
          /\ closer' \in {"waiting", "killing"}
      BY <1>3 DEF Close, StdinCloses, LosesPatience, childVars, queueVars
    <2> QED BY <2>1 DEF ClientTypeOK, turnVars, loopVars, callVars
  <1>4. CASE Killed
    BY <1>4, ChildTyped DEF Close, Killed, ClientTypeOK, turnVars, loopVars, callVars, queueVars
  <1>5. CASE CloseEnds
    BY <1>1, <1>5 DEF CloseEnds
  <1> QED BY <1>1, <1>2, <1>3, <1>4, <1>5 DEF Close

LEMMA ClientTypeNext == ClientTypeInv /\ [ClientNext]_clientVars => ClientTypeInv'
  <1> SUFFICES ASSUME ClientTypeInv, [ClientNext]_clientVars PROVE ClientTypeInv'
    OBVIOUS
  <1>0. FlagsOK'
    BY FlagsNext DEF ClientTypeInv, ClientTypeOK
  <1>1. CASE Child
    BY <1>0, <1>1, ChildTyped DEF Child, ClientTypeInv, LinesOK, ClientTypeOK, turnVars, callVars,
      loopVars, queueVars
  <1>2. CASE UNCHANGED clientVars
    BY <1>0, <1>2 DEF ClientTypeInv, LinesOK, ClientTypeOK, clientVars, turnVars, callVars, childVars,
      loopVars, queueVars
  <1> QED
    BY <1>0, <1>1, <1>2, RequestTyped, TurnTyped, LoopsTyped, CloseTyped DEF ClientNext

-----------------------------------------------------------------------------
(* HarnessClient: who waits, and for whom *)

InFlight == {"checked", "registered", "writing", "waiting"}
Early == {"new", "starting", "spawned", "discarding", "initialize", "ready"}

\* Start has a process that Client.cmd does not name.
Held == turn \in {"spawned", "discarding"}

\* A request on its way is pending or has its answer; when the process is gone
\* or Close is over, the pending were answered; the process and waitLoop end
\* together.  The turn waits for its own request, and takes nothing before it
\* has sent the prompt.  A process without a waitLoop is in the hands of Start.
CallInv ==
  /\ \A m \in Methods :
       calls[m] \in {"registered", "writing", "waiting"} => m \in pending \/ answers[m] # "none"
  /\ waitLoop \in {"queueing", "over"} \/ closer = "over" =>
       \A m \in Methods : calls[m] = "waiting" => answers[m] # "none"
  /\ waitLoop = "none" => child \in {"none", "reaped"} \/ Held
  /\ waitLoop # "none" =>
       /\ child # "none"
       /\ child = "reaped" <=> waitLoop \in {"failing", "queueing", "over"}
  /\ closer = "over" => child \in {"none", "reaped"} \/ Held
  /\ \A m \in {"initialize", "prompt"} : calls[m] \in InFlight => turn = m
  /\ turn \in Early => calls["prompt"] = "none"
  /\ turn \in {"new", "starting"} => child = "none"
  /\ Held => child \in {"up", "exited"}
  /\ turn \in {"new", "starting"} \/ Held => waitLoop = "none"
  /\ turn \in Early \cup {"prompt"} => delivered = <<>>
  /\ turn # "ended" => runEnd # "completed"

LEMMA CallInit == ClientInit => CallInv
  BY DEF ClientInit, CallInv, InFlight, Early, Held, Methods

LEMMA CallRequest ==
  ASSUME ClientTypeInv, CallInv, NEW m \in Methods, Request(m) PROVE CallInv'
  <1> USE DEF loopVars, Held
  <1>0. /\ UNCHANGED <<child, loopVars, closer>>
        /\ ClientTypeOK
    BY DEF Request, ClientTypeInv
  <1>1. ASSUME NEW r \in {"result", "error"}, CallReturns(m, r),
               calls[m] \in InFlight,
               \A o \in Methods \ {m} : answers'[o] = answers[o]
        PROVE  CallInv'
    <2>1. calls' = [calls EXCEPT ![m] = "returned"] /\ pending' = pending \ {m}
      BY <1>1 DEF CallReturns
    <2>2. \A o \in Methods \ {m} : calls'[o] = calls[o]
      BY <1>0, <2>1 DEF ClientTypeOK
    <2>3. calls'[m] = "returned"
      BY <1>0, <2>1 DEF ClientTypeOK
    <2>4. CASE m = "shutdown"
      <3>1. turn' = turn /\ runEnd' = runEnd /\ delivered' = delivered
        BY <1>1, <2>4 DEF CallReturns, After
      <3> QED BY <1>0, <1>1, <2>1, <2>2, <2>3, <2>4, <3>1 DEF CallInv, InFlight, Methods
    <2>5. CASE m # "shutdown"
      <3>1. turn = m /\ m \in {"initialize", "prompt"}
        BY <1>1, <2>5 DEF CallInv, Methods
      <3>2. \/ turn' = "ended"
            \/ m = "initialize" /\ turn' = "ready"
            \/ m = "prompt" /\ turn' = "popping"
        BY <1>1, <3>1 DEF CallReturns, After
      <3>3. runEnd' \in {"failed", runEnd} /\ delivered' = delivered /\ runEnd # "completed"
        BY <1>1, <3>1 DEF CallReturns, CallInv
      <3>4. \A o \in {"initialize", "prompt"} : calls[o] \in InFlight => o = m
        BY <3>1 DEF CallInv
      <3> QED
        <4>1. \A o \in Methods \ {m} :
                calls'[o] = calls[o] /\ answers'[o] = answers[o] /\ (o \in pending' <=> o \in pending)
          BY <1>1, <2>1, <2>2
        <4>2. \A o \in Methods :
                calls'[o] \in {"registered", "writing", "waiting"} => o \in pending' \/ answers'[o] # "none"
          BY <2>3, <4>1 DEF CallInv
        <4>3. waitLoop' \in {"queueing", "over"} \/ closer' = "over" =>
                \A o \in Methods : calls'[o] = "waiting" => answers'[o] # "none"
          BY <1>0, <2>3, <4>1 DEF CallInv
        <4>4. \A o \in {"initialize", "prompt"} : calls'[o] \notin InFlight
          BY <2>2, <2>3, <3>1, <3>4 DEF InFlight, Methods
        <4>5. turn' \in Early => m = "initialize" /\ calls'["prompt"] = "none"
          BY <2>2, <3>1, <3>2 DEF CallInv, Early, Methods
        <4>6. turn' \in Early \cup {"prompt"} => delivered' = <<>>
          BY <3>1, <3>2, <3>3 DEF CallInv, Early
        <4>7. turn' \notin {"new", "starting", "spawned", "discarding"}
          BY <3>2
        <4>8. turn \notin {"spawned", "discarding"}
          BY <3>1
        <4> QED BY <1>0, <3>3, <4>2, <4>3, <4>4, <4>5, <4>6, <4>7, <4>8 DEF CallInv
    <2> QED BY <2>4, <2>5
  <1>2. ASSUME FailCall(m), calls[m] \in InFlight PROVE CallInv'
    <2>1. CallReturns(m, "error")
      BY <1>2 DEF FailCall
    <2>2. \A o \in Methods \ {m} : answers'[o] = answers[o]
      BY <1>0, <1>2 DEF FailCall, ClientTypeOK
    <2> QED BY <1>1, <1>2, <2>1, <2>2
  <1>3. CASE Registers(m)
    BY <1>0, <1>3 DEF Registers, Go, turnVars, CallInv, InFlight, Early, ClientTypeOK
  <1>4. CASE TakesPen(m)
    <2>1. CASE StdinGone
      BY <1>2, <1>4, <2>1 DEF TakesPen, InFlight
    <2>2. CASE ~StdinGone
      <3>1. calls[m] = "registered" /\ Go(m, "writing") /\ UNCHANGED <<pending, answers>>
        BY <1>4, <2>2 DEF TakesPen
      <3> QED BY <1>0, <3>1 DEF Go, turnVars, CallInv, InFlight, Early, ClientTypeOK
    <2> QED BY <2>1, <2>2
  <1>5. CASE WriteLands(m)
    BY <1>0, <1>5 DEF WriteLands, Writable, StdinShut, WaitDone, Go, turnVars, CallInv, InFlight,
      Early, ClientTypeOK
  <1>6. CASE WriteFails(m) \/ GivesUp(m)
    BY <1>2, <1>6 DEF WriteFails, GivesUp, InFlight
  <1>7. CASE Answered(m)
    BY <1>0, <1>1, <1>7 DEF Answered, InFlight, ClientTypeOK
  <1> QED BY <1>3, <1>4, <1>5, <1>6, <1>7 DEF Request

LEMMA CallTurn == ASSUME ClientTypeInv, CallInv, Turn PROVE CallInv'
  <1> USE DEF loopVars, callVars, childVars, CallInv, InFlight, Early, Held
  <1>0. closer' = closer /\ ClientTypeOK
    BY DEF Turn, ClientTypeInv
  <1>1. CASE StartBegins
    BY <1>0, <1>1 DEF StartBegins, Ends
  <1>2. CASE Spawns
    BY <1>0, <1>2 DEF Spawns, Ends
  <1>7. CASE Records
    BY <1>0, <1>7 DEF Records, Recorded, Closed
  <1>8. CASE Discards
    BY <1>0, <1>8 DEF Discards, ChildExits, Ends
  <1>3. CASE InitializeBegins
    BY <1>0, <1>3 DEF InitializeBegins, Begin, Ends, ClientTypeOK, Methods
  <1>4. CASE RunBegins
    BY <1>0, <1>4 DEF RunBegins, Begin, Ends, ClientTypeOK, Methods
  <1>5. CASE Pops
    <2>1. /\ turn = "popping" /\ turn' \in {"popping", "leaving", "ended"}
          /\ turn' # "ended" => runEnd' = runEnd
          /\ UNCHANGED <<callVars, child, waitLoop>>
      BY <1>5 DEF Pops, Consume, Ends
    <2> QED BY <1>0, <2>1
  <1>6. CASE Sleeps \/ RunWoken
    BY <1>0, <1>6 DEF Sleeps, RunWoken, Ends
  <1> QED BY <1>1, <1>2, <1>3, <1>4, <1>5, <1>6, <1>7, <1>8 DEF Turn

LEMMA CallFails ==
  ASSUME ClientTypeInv, CallInv, FailAll
  PROVE  \A m \in Methods :
           calls[m] \in {"registered", "writing", "waiting"} => answers'[m] # "none"
  BY DEF CallInv, FailAll

LEMMA CallLoops == ASSUME ClientTypeInv, CallInv, Loops PROVE CallInv'
  <1> USE DEF loopVars, callVars, childVars, CallInv, Held
  <1>0. UNCHANGED <<turnVars, closer>> /\ ClientTypeOK
    BY DEF Loops, ClientTypeInv
  <1>1. CASE ReadsLine \/ Signals \/ ReadEnds \/ ReadFails \/ WaitFailsQueue
    BY <1>0, <1>1 DEF ReadsLine, Signals, ReadEnds, ReadFails, WaitFailsQueue, turnVars
  <1>2. CASE SendsAnswer
    <2>1. found \in Replies
      BY <1>2 DEF SendsAnswer, ClientTypeInv, LinesOK
    <2>2. \A m \in Methods : answers[m] # "none" => answers'[m] # "none"
      BY <1>0, <1>2, <2>1 DEF SendsAnswer, Replies, ClientTypeOK
    <2> QED BY <1>0, <1>2, <2>2 DEF SendsAnswer, turnVars
  <1>3. CASE Reaps
    BY <1>0, <1>3 DEF Reaps, turnVars
  <1>4. CASE WaitFailsCalls
    <2>1. \A m \in Methods :
            calls[m] \in {"registered", "writing", "waiting"} => answers'[m] # "none"
      BY <1>4, CallFails DEF WaitFailsCalls
    <2> QED BY <1>0, <1>4, <2>1 DEF WaitFailsCalls, FailAll, turnVars
  <1> QED BY <1>1, <1>2, <1>3, <1>4 DEF Loops

LEMMA CallClose == ASSUME ClientTypeInv, CallInv, Close PROVE CallInv'
  <1> USE DEF loopVars, callVars, childVars, CallInv, Held
  <1>0. UNCHANGED <<turnVars, loopVars>> /\ ClientTypeOK
    BY DEF Close, ClientTypeInv
  <1>1. ASSUME FailAll, closer' = "over", UNCHANGED childVars,
               child \in {"none", "reaped"} \/ Held
        PROVE  CallInv'
    <2>1. \A m \in Methods :
            calls[m] \in {"registered", "writing", "waiting"} => answers'[m] # "none"
      BY <1>1, CallFails
    <2> QED BY <1>0, <1>1, <2>1 DEF FailAll, turnVars
  <1>2. CASE CloseBegins
    <2>1. CASE waitLoop = "none"
      BY <1>1, <1>2, <2>1 DEF CloseBegins
    <2>2. CASE waitLoop # "none"
      <3>1. /\ \A m \in {"initialize", "prompt"} : calls'[m] = calls[m]
            /\ calls'["shutdown"] = "registered" /\ pending' = pending \cup {"shutdown"}
            /\ UNCHANGED <<answers, childVars>> /\ closer' = "shutdown"
        BY <1>0, <1>2, <2>2 DEF CloseBegins, ClientTypeOK, Methods
      <3> QED BY <1>0, <3>1 DEF turnVars, Methods
    <2> QED BY <2>1, <2>2
  <1>3. CASE StdinCloses \/ LosesPatience
    BY <1>0, <1>3 DEF StdinCloses, LosesPatience, turnVars
  <1>4. CASE Killed
    BY <1>0, <1>4 DEF Killed, ChildExits, turnVars
  <1>5. CASE CloseEnds
    BY <1>0, <1>1, <1>5 DEF CloseEnds, WaitDone, ClientTypeOK
  <1> QED BY <1>2, <1>3, <1>4, <1>5 DEF Close

LEMMA CallNext == ClientTypeInv /\ CallInv /\ [ClientNext]_clientVars => CallInv'
  <1> SUFFICES ASSUME ClientTypeInv, CallInv, [ClientNext]_clientVars PROVE CallInv'
    OBVIOUS
  <1>1. CASE Child
    <2>1. /\ UNCHANGED <<turnVars, callVars, loopVars, closer>>
          /\ child' = child \/ (child = "up" /\ child' = "exited")
      BY <1>1 DEF Child, ChildAnswers, ChildEmits, ChildGoesDeaf, ChildExits
    <2> QED BY <2>1 DEF CallInv, Held, turnVars, callVars, loopVars
  <1>2. CASE UNCHANGED clientVars
    BY <1>2 DEF CallInv, Held, clientVars, turnVars, callVars, childVars, loopVars
  <1> QED BY <1>1, <1>2, CallRequest, CallTurn, CallLoops, CallClose DEF ClientNext

-----------------------------------------------------------------------------
(* HarnessClient: no lost wake-up *)

LEMMA QueueWakesNext ==
  ClientTypeInv /\ CallInv /\ QueueWakes /\ [ClientNext]_clientVars => QueueWakes'
  <1> SUFFICES ASSUME ClientTypeInv, CallInv, QueueWakes, [ClientNext]_clientVars
               PROVE  QueueWakes'
    OBVIOUS
  <1> USE DEF QueueWakes, queueVars
  <1>1. ASSUME NEW m \in Methods, Request(m) PROVE QueueWakes'
    <2>1. UNCHANGED <<queued, queueErr, token, owed>>
      BY <1>1 DEF Request
    <2>2. turn' = turn \/ turn' \notin {"leaving", "asleep"}
      <3>1. ASSUME NEW r, CallReturns(m, r), r \in {"result", "error"},
                   calls[m] \in InFlight
            PROVE  turn' = turn \/ turn' \in {"ended", "ready", "popping"}
        <4>1. CASE m = "shutdown"
          BY <3>1, <4>1 DEF CallReturns, After
        <4>2. CASE m # "shutdown" /\ r # "result"
          BY <3>1, <4>2 DEF CallReturns, After
        <4>3. CASE m = "initialize" /\ r = "result"
          BY <3>1, <4>3 DEF CallReturns, After
        <4>4. CASE m = "prompt" /\ r = "result"
          BY <3>1, <4>4 DEF CallReturns, After
        <4> QED BY <3>1, <4>1, <4>2, <4>3, <4>4 DEF Methods
      <3>2. CASE Registers(m) \/ WriteLands(m)
        BY <3>2 DEF Registers, WriteLands, Go, turnVars
      <3>3. CASE TakesPen(m)
        BY <3>1, <3>3 DEF TakesPen, FailCall, Go, turnVars, InFlight
      <3>4. CASE WriteFails(m) \/ GivesUp(m)
        BY <3>1, <3>4 DEF WriteFails, GivesUp, FailCall, InFlight
      <3>5. CASE Answered(m)
        BY <3>1, <3>5 DEF Answered, InFlight, ClientTypeInv, ClientTypeOK
      <3> QED BY <1>1, <3>2, <3>3, <3>4, <3>5 DEF Request
    <2> QED BY <2>1, <2>2
  <1>2. CASE Turn
    <2>1. CASE StartBegins \/ Spawns \/ Records \/ Discards \/ InitializeBegins \/ RunBegins
      <3>1. turn' \notin {"leaving", "asleep"}
        BY <2>1 DEF StartBegins, Spawns, Records, Discards, InitializeBegins, RunBegins, Begin, Ends
      <3> QED BY <3>1
    <2>2. CASE Pops
      BY <2>2 DEF Pops, Consume, Ends
    <2>3. CASE Sleeps \/ RunWoken
      BY <2>3 DEF Sleeps, RunWoken, Ends
    <2> QED BY <1>2, <2>1, <2>2, <2>3 DEF Turn
  <1>3. ASSUME NEW who, FailQueue(who), turn' = turn PROVE QueueWakes'
    BY <1>3 DEF FailQueue, Unread
  <1>4. ASSUME NEW line, Push(line), turn' = turn PROVE QueueWakes'
    BY <1>4 DEF Push, Unread
  <1>5. CASE Loops
    <2>1. turn' = turn
      BY <1>5 DEF Loops, turnVars
    <2>2. CASE ReadsLine
      BY <1>4, <2>1, <2>2 DEF ReadsLine
    <2>3. CASE ReadFails \/ WaitFailsQueue
      BY <1>3, <2>1, <2>3 DEF ReadFails, WaitFailsQueue
    <2>4. CASE SendsAnswer \/ ReadEnds \/ Reaps \/ WaitFailsCalls
      BY <2>1, <2>4 DEF SendsAnswer, ReadEnds, Reaps, WaitFailsCalls
    <2>5. CASE Signals
      BY <2>1, <2>5 DEF Signals, SignalWake
    <2> QED BY <1>5, <2>2, <2>3, <2>4, <2>5 DEF Loops
  <1>6. CASE Close
    BY <1>3, <1>6 DEF Close, CloseBegins, StdinCloses, LosesPatience, Killed, CloseEnds, turnVars
  <1>7. CASE Child \/ UNCHANGED clientVars
    BY <1>7 DEF Child, clientVars, turnVars
  <1> QED BY <1>1, <1>2, <1>5, <1>6, <1>7 DEF ClientNext

-----------------------------------------------------------------------------
(* HarnessClient: the notifications of the turn *)

Reading == {"prompt", "popping", "leaving", "asleep"}
Prompted == {"waiting", "returned"}

\* The notifications up to s were said, those up to r were read, and the others
\* are in the pipe, in order; before the prompt only idle statuses are said.
PipeInv(r, s) ==
  /\ r \in 0..s /\ s \in 0..Len(script)
  /\ child \in {"none", "up"} => s = emitted
  /\ \A i \in 1..Len(outPipe) :
        outPipe[i].n # 0 => outPipe[i].n \in (r + 1)..s /\ outPipe[i].kind = script[outPipe[i].n]
  /\ \A i, j \in 1..Len(outPipe) :
        i < j /\ outPipe[i].n # 0 /\ outPipe[j].n # 0 => outPipe[i].n < outPipe[j].n
  /\ \A k \in (r + 1)..s : \E i \in 1..Len(outPipe) : outPipe[i].n = k
  /\ calls["prompt"] \notin Prompted => \A k \in 1..s : script[k] = "idle"

\* Of those read, Run has popped the ones up to p; the queue holds the next ones,
\* all of them unless it has an error.  What was taken is the turn so far.
QueueInv(p, r) ==
  turn \in Reading =>
    /\ p \in 0..r
    /\ Len(queued) <= r - p /\ (~queueErr => Len(queued) = r - p)
    /\ \A i \in 1..Len(queued) : queued[i].n = p + i /\ queued[i].kind = script[p + i]
    /\ known <=> \E k \in 1..p : script[k] = "started"
    /\ {delivered[i] : i \in 1..Len(delivered)} = TurnsUpTo(p)

FlowInv == \E s, r, p \in Nat : PipeInv(r, s) /\ QueueInv(p, r)

\* What PipeInv and QueueInv look at.
pipeView == <<script, child, emitted, outPipe>>
queueView == <<script, queued, queueErr, known, delivered>>

LEMMA PipeStays ==
  ASSUME NEW r, NEW s, PipeInv(r, s), UNCHANGED pipeView,
         calls["prompt"] \in Prompted => calls'["prompt"] \in Prompted
  PROVE  PipeInv(r, s)'
  BY DEF PipeInv, pipeView

LEMMA QueueStays ==
  ASSUME NEW p, NEW r, QueueInv(p, r), UNCHANGED queueView, turn' \in Reading => turn \in Reading
  PROVE  QueueInv(p, r)'
  <1>1. TurnsUpTo(p)' = TurnsUpTo(p)
    BY DEF queueView, TurnsUpTo
  <1>2. /\ queued' = queued /\ queueErr' = queueErr /\ script' = script
        /\ known' = known /\ delivered' = delivered
    BY DEF queueView
  <1> QED BY <1>1, <1>2 DEF QueueInv

LEMMA FlowStays ==
  ASSUME FlowInv, UNCHANGED <<pipeView, queueView>>, turn' \in Reading => turn \in Reading,
         calls["prompt"] \in Prompted => calls'["prompt"] \in Prompted
  PROVE  FlowInv'
  <1>1. PICK s, r, p \in Nat : PipeInv(r, s) /\ QueueInv(p, r)
    BY DEF FlowInv
  <1>2. PipeInv(r, s)' /\ QueueInv(p, r)'
    BY <1>1, PipeStays, QueueStays
  <1> QED BY <1>2 DEF FlowInv

LEMMA FlowInit == ClientInit => FlowInv
  <1> SUFFICES ASSUME ClientInit PROVE FlowInv
    OBVIOUS
  <1>1. Len(script) \in Nat
    BY ClientAssumption DEF ClientInit
  <1>2. PipeInv(0, 0) /\ QueueInv(0, 0)
    BY <1>1 DEF ClientInit, PipeInv, QueueInv, Reading, Prompted, Methods
  <1> QED BY <1>2 DEF FlowInv

\* A turn grows by one notification: it belongs to the turn if there was a
\* receipt, and a start if it is of a subagent.
LEMMA TurnGrows ==
  ASSUME NEW p \in Nat
  PROVE  TurnsUpTo(p + 1) = TurnsUpTo(p) \cup
           {i \in {p + 1} : /\ \E k \in 1..(p + 1) : script[k] = "receipt"
                            /\ script[i] = "nested" => \E k \in 1..(p + 1) : script[k] = "started"}
  <1>1. 1..(p + 1) = 1..p \cup {p + 1}
    OBVIOUS
  <1> QED BY <1>1 DEF TurnsUpTo

LEMMA TurnBegun ==
  ASSUME NEW p \in Nat
  PROVE  /\ TurnsUpTo(p) \subseteq 1..p
         /\ TurnsUpTo(p) # {} <=> \E k \in 1..p : script[k] = "receipt"
  <1>1. ASSUME NEW k \in 1..p, script[k] = "receipt" PROVE k \in TurnsUpTo(p)
    BY <1>1 DEF TurnsUpTo
  <1>2. ASSUME NEW i \in TurnsUpTo(p) PROVE \E k \in 1..p : script[k] = "receipt"
    BY DEF TurnsUpTo
  <1> QED BY <1>1, <1>2 DEF TurnsUpTo

\* What Run makes of the next notification.
LEMMA Consumes ==
  ASSUME ClientTypeInv, NEW p \in Nat, NEW line \in Notices, Consume(line),
         line.n = p + 1, line.kind = script[p + 1],
         script' = script, runEnd # "completed",
         turn = "popping",
         known <=> \E k \in 1..p : script[k] = "started",
         {delivered[i] : i \in 1..Len(delivered)} = TurnsUpTo(p)
  PROVE  /\ known' <=> \E k \in 1..(p + 1) : script[k] = "started"
         /\ \/ /\ delivered' = Append(delivered, p + 1)
               /\ TurnsUpTo(p + 1) = TurnsUpTo(p) \cup {p + 1}
               /\ runEnd' = IF script[p + 1] = "idle" THEN "completed" ELSE runEnd
               /\ turn' = IF script[p + 1] = "idle" THEN "ended" ELSE turn
            \/ /\ delivered' = delivered
               /\ turn' = "ended" /\ runEnd' = "failed"
            \/ /\ delivered' = delivered /\ UNCHANGED <<turn, runEnd>>
               /\ TurnsUpTo(p + 1) = TurnsUpTo(p)
  <1>1. 1..(p + 1) = 1..p \cup {p + 1}
    OBVIOUS
  <1>2. known' <=> \E k \in 1..(p + 1) : script[k] = "started"
    BY <1>1 DEF Consume
  <1>3. delivered # <<>> <=> \E k \in 1..p : script[k] = "receipt"
    <2>1. delivered # <<>> <=> {delivered[i] : i \in 1..Len(delivered)} # {}
      <3>1. delivered \in Seq(Nat) /\ Len(delivered) \in Nat
        BY DEF ClientTypeInv, LinesOK
      <3>2. delivered # <<>> <=> 1 \in 1..Len(delivered)
        BY <3>1, EmptySeq
      <3> QED BY <3>1, <3>2
    <2> QED BY <2>1, TurnBegun
  <1>4. Counts(line) <=>
          /\ \E k \in 1..(p + 1) : script[k] = "receipt"
          /\ script[p + 1] = "nested" => \E k \in 1..(p + 1) : script[k] = "started"
    BY <1>1, <1>3 DEF Counts, Belongs
  <1>5. TurnsUpTo(p + 1) = TurnsUpTo(p) \cup IF Counts(line) THEN {p + 1} ELSE {}
    BY <1>4, TurnGrows
  <1> QED BY <1>2, <1>5 DEF Consume, Ends

LEMMA RunStays ==
  ASSUME RunTrue, UNCHANGED <<delivered, script>>,
         runEnd' = runEnd \/ (runEnd # "completed" /\ runEnd' # "completed")
  PROVE  RunTrue'
  BY DEF RunTrue, TurnsUpTo

LEMMA FlowPops ==
  ASSUME ClientTypeInv, CallInv, FlowInv, RunTrue, Turn, Pops
  PROVE  FlowInv' /\ RunTrue'
  <1> USE DEF ClientTypeInv, LinesOK
  <1>0. /\ script' = script /\ UNCHANGED pipeView /\ calls' = calls /\ turn = "popping"
        /\ runEnd # "completed" /\ queueErr' = queueErr
    BY DEF Pops, childVars, callVars, pipeView, CallInv
  <1>1. PICK s, r, p \in Nat : PipeInv(r, s) /\ QueueInv(p, r)
    BY DEF FlowInv
  <1>2. PipeInv(r, s)'
    BY <1>0, <1>1, PipeStays
  <1>3. CASE queued = <<>>
    <2>1. QueueInv(p, r)'
      <3>1. UNCHANGED queueView
        BY <1>0, <1>3 DEF Pops, queueView
      <3> QED BY <1>0, <1>1, <3>1, QueueStays DEF Reading
    <2>2. RunTrue'
      <3>1. delivered' = delivered /\ runEnd' \in {runEnd, "failed"}
        BY <1>3 DEF Pops, Ends
      <3> QED BY <1>0, <3>1, RunStays
    <2> QED BY <1>2, <2>1, <2>2 DEF FlowInv
  <1>4. CASE queued # <<>>
    <2>1. /\ p \in 0..r /\ Len(queued) <= r - p /\ (~queueErr => Len(queued) = r - p)
          /\ \A i \in 1..Len(queued) : queued[i].n = p + i /\ queued[i].kind = script[p + i]
          /\ known <=> \E k \in 1..p : script[k] = "started"
          /\ {delivered[i] : i \in 1..Len(delivered)} = TurnsUpTo(p)
      BY <1>0, <1>1 DEF QueueInv, Reading
    <2>2. /\ Len(queued) \in Nat \ {0} /\ Head(queued) \in Notices /\ Head(queued) = queued[1]
          /\ queued' = Tail(queued) /\ Len(queued') = Len(queued) - 1
          /\ \A i \in 1..Len(queued') : queued'[i] = queued[i + 1]
          /\ Consume(Head(queued))
      <3>1. queued' = Tail(queued) /\ Consume(Head(queued))
        BY <1>4 DEF Pops
      <3> QED BY <1>4, <3>1, HeadTailProperties, EmptySeq
    <2>3. Head(queued).n = p + 1 /\ Head(queued).kind = script[p + 1]
      BY <2>1, <2>2
    <2>4. /\ known' <=> \E k \in 1..(p + 1) : script[k] = "started"
          /\ \/ /\ delivered' = Append(delivered, p + 1)
                /\ TurnsUpTo(p + 1) = TurnsUpTo(p) \cup {p + 1}
                /\ runEnd' = IF script[p + 1] = "idle" THEN "completed" ELSE runEnd
                /\ turn' = IF script[p + 1] = "idle" THEN "ended" ELSE turn
             \/ /\ delivered' = delivered
                /\ turn' = "ended" /\ runEnd' = "failed"
             \/ /\ delivered' = delivered /\ UNCHANGED <<turn, runEnd>>
                /\ TurnsUpTo(p + 1) = TurnsUpTo(p)
      BY <1>0, <2>1, <2>2, <2>3, Consumes
    <2>5. TurnsUpTo(p + 1)' = TurnsUpTo(p + 1)
      BY <1>0 DEF TurnsUpTo
    <2>6. delivered \in Seq(Nat) /\ Len(delivered) \in Nat
      OBVIOUS
    <2>7. ASSUME delivered' = Append(delivered, p + 1)
          PROVE  /\ Len(delivered') = Len(delivered) + 1
                 /\ \A i \in 1..Len(delivered) : delivered'[i] = delivered[i]
                 /\ delivered'[Len(delivered) + 1] = p + 1
                 /\ {delivered'[i] : i \in 1..Len(delivered')} = TurnsUpTo(p) \cup {p + 1}
      <3>1. /\ Len(delivered') = Len(delivered) + 1
            /\ \A i \in 1..Len(delivered) : delivered'[i] = delivered[i]
            /\ delivered'[Len(delivered) + 1] = p + 1
        BY <2>6, <2>7
      <3>2. 1..(Len(delivered) + 1) = 1..Len(delivered) \cup {Len(delivered) + 1}
        BY <2>6
      <3>3. {delivered'[i] : i \in 1..Len(delivered')}
              = {delivered[i] : i \in 1..Len(delivered)} \cup {p + 1}
        BY <3>1, <3>2
      <3> QED BY <2>1, <3>1, <3>3
    <2>8. QueueInv(p + 1, r)'
      <3>1. ASSUME turn' \in Reading
            PROVE  {delivered'[i] : i \in 1..Len(delivered')} = TurnsUpTo(p + 1)
        <4>1. turn' # "ended"
          BY <3>1 DEF Reading
        <4>2. CASE delivered' = Append(delivered, p + 1) /\ TurnsUpTo(p + 1) = TurnsUpTo(p) \cup {p + 1}
          BY <2>7, <4>2
        <4>3. CASE delivered' = delivered /\ TurnsUpTo(p + 1) = TurnsUpTo(p)
          BY <2>1, <4>3
        <4> QED BY <2>4, <4>1, <4>2, <4>3
      <3>2. Len(queued') <= r - (p + 1) /\ (~queueErr => Len(queued') = r - (p + 1))
        BY <2>1, <2>2
      <3>3. \A i \in 1..Len(queued') : queued'[i].n = (p + 1) + i /\ queued'[i].kind = script[(p + 1) + i]
        <4> TAKE i \in 1..Len(queued')
        <4>1. i + 1 \in 1..Len(queued) /\ p + (i + 1) = (p + 1) + i
          BY <2>2
        <4> QED BY <2>1, <2>2, <4>1
      <3>4. p + 1 \in 0..r
        BY <2>1, <2>2
      <3> QED BY <1>0, <2>4, <2>5, <3>1, <3>2, <3>3, <3>4 DEF QueueInv
    <2>9. RunTrue'
      <3>1. CASE delivered' = delivered
        <4>1. runEnd' # "completed"
          BY <1>0, <2>4, <3>1, <2>7
        <4> QED BY <1>0, <3>1, <4>1 DEF RunTrue, TurnsUpTo
      <3>2. CASE delivered' # delivered
        <4>1. /\ delivered' = Append(delivered, p + 1)
              /\ TurnsUpTo(p + 1) = TurnsUpTo(p) \cup {p + 1}
              /\ runEnd' = IF script[p + 1] = "idle" THEN "completed" ELSE runEnd
          BY <2>4, <3>2
        <4>2. \A i \in 1..Len(delivered) : delivered[i] \in 1..p
          BY <2>1, TurnBegun
        <4> DEFINE last == Len(delivered) + 1
        <4>3. /\ Len(delivered') = last /\ delivered'[last] = p + 1 /\ delivered' # <<>>
              /\ 1..last = 1..Len(delivered) \cup {last}
          BY <2>6, <2>7, <4>1
        <4>4. \A i, j \in 1..Len(delivered') : i < j => delivered'[i] < delivered'[j]
          BY <2>6, <2>7, <4>1, <4>2, <4>3 DEF RunTrue
        <4>5. {i \in 1..Len(delivered) : script[delivered[i]] = "idle"} = {}
          BY <1>0 DEF RunTrue
        <4>6. {i \in 1..Len(delivered') : script[delivered'[i]] = "idle"}
                = IF runEnd' = "completed" THEN {Len(delivered')} ELSE {}
          BY <1>0, <2>7, <4>1, <4>3, <4>5
        <4>7. {delivered'[i] : i \in 1..Len(delivered')} = TurnsUpTo(delivered'[Len(delivered')])
          BY <2>7, <4>1, <4>3
        <4>8. TurnsUpTo(delivered'[Len(delivered')]) = TurnsUpTo(delivered[Len(delivered)])'
          BY <1>0 DEF TurnsUpTo
        <4> QED BY <1>0, <4>3, <4>4, <4>6, <4>7, <4>8 DEF RunTrue
      <3> QED BY <3>1, <3>2
    <2> QED BY <1>2, <2>8, <2>9 DEF FlowInv
  <1> QED BY <1>3, <1>4

\* Run begins with an empty queue: what was read before were idle statuses.
LEMMA FlowBegins ==
  ASSUME ClientTypeInv, CallInv, FlowInv, Turn, RunBegins PROVE FlowInv'
  <1>0. /\ UNCHANGED pipeView /\ turn = "ready" /\ calls["prompt"] = "none"
        /\ queued' = <<>> /\ queueErr' = FALSE /\ known' = FALSE /\ delivered' = <<>>
        /\ script' = script
    BY DEF RunBegins, Begin, ResetQueue, childVars, pipeView, CallInv, Early
  <1>1. PICK s, r, p \in Nat : PipeInv(r, s) /\ QueueInv(p, r)
    BY DEF FlowInv
  <1>2. PipeInv(r, s)'
    BY <1>0, <1>1, PipeStays DEF Prompted
  <1>3. \A k \in 1..r : script[k] = "idle"
    BY <1>0, <1>1 DEF PipeInv, Prompted
  <1>4. TurnsUpTo(r) = {} /\ TurnsUpTo(r)' = TurnsUpTo(r)
    BY <1>0, <1>3, TurnBegun DEF TurnsUpTo
  <1>5. QueueInv(r, r)'
    BY <1>0, <1>3, <1>4 DEF QueueInv
  <1> QED BY <1>1, <1>2, <1>5 DEF FlowInv

LEMMA FlowRequest ==
  ASSUME ClientTypeInv, CallInv, FlowInv, RunTrue, NEW m \in Methods, Request(m)
  PROVE  FlowInv' /\ RunTrue'
  <1>0. /\ UNCHANGED <<child, script, emitted, outPipe, queued, queueErr>> /\ ClientTypeOK
    BY DEF Request, queueVars, ClientTypeInv
  <1>1. ASSUME NEW r \in {"result", "error"}, CallReturns(m, r), calls[m] \in InFlight
        PROVE  FlowInv' /\ RunTrue'
    <2>1. /\ UNCHANGED <<known, delivered>>
          /\ calls["prompt"] \in Prompted => calls'["prompt"] \in Prompted
      BY <1>0, <1>1 DEF CallReturns, Prompted, ClientTypeOK
    <2>2. /\ turn' \in Reading => turn \in Reading
          /\ runEnd' = runEnd \/ (runEnd # "completed" /\ runEnd' # "completed")
      <3>1. CASE m = "shutdown"
        BY <1>1, <3>1 DEF CallReturns, After
      <3>2. CASE m # "shutdown"
        <4>1. turn = m /\ m \in {"initialize", "prompt"}
          BY <1>1, <3>2 DEF CallInv, Methods
        <4>2. \/ turn' = "ended"
              \/ m = "initialize" /\ turn' = "ready"
              \/ m = "prompt" /\ turn' = "popping"
          BY <1>1, <4>1 DEF CallReturns, After
        <4> QED BY <1>1, <4>1, <4>2 DEF CallReturns, CallInv, Reading
      <3> QED BY <3>1, <3>2
    <2> QED BY <1>0, <2>1, <2>2, FlowStays, RunStays DEF pipeView, queueView
  <1>2. ASSUME m \in Methods, NEW stage, Go(m, stage), stage \in InFlight,
               calls[m] \notin Prompted \/ stage \in Prompted
        PROVE  FlowInv' /\ RunTrue'
    <2>1. /\ UNCHANGED turnVars
          /\ calls["prompt"] \in Prompted => calls'["prompt"] \in Prompted
      BY <1>0, <1>2 DEF Go, Prompted, ClientTypeOK
    <2> QED BY <1>0, <2>1, FlowStays, RunStays DEF pipeView, queueView, turnVars
  <1>3. CASE Registers(m)
    BY <1>2, <1>3 DEF Registers, Prompted, InFlight
  <1>4. CASE TakesPen(m)
    BY <1>1, <1>2, <1>4 DEF TakesPen, FailCall, Prompted, InFlight
  <1>5. CASE WriteLands(m)
    BY <1>2, <1>5 DEF WriteLands, Prompted, InFlight
  <1>6. CASE WriteFails(m) \/ GivesUp(m)
    BY <1>1, <1>6 DEF WriteFails, GivesUp, FailCall, InFlight
  <1>7. CASE Answered(m)
    BY <1>0, <1>1, <1>7 DEF Answered, InFlight, ClientTypeOK
  <1> QED BY <1>3, <1>4, <1>5, <1>6, <1>7 DEF Request

\* A line joins the pipe.
LEMMA FlowAppends ==
  ASSUME ClientTypeInv, NEW r, NEW s, PipeInv(r, s), child = "up", child' = "up",
         UNCHANGED <<script, calls>>,
         NEW line, outPipe' = Append(outPipe, line), NEW t, emitted' = t,
         \/ line.n = 0 /\ t = emitted
         \/ /\ t = emitted + 1 /\ t <= Len(script)
            /\ line.n = t /\ line.kind = script[t]
            /\ script[t] # "idle" => calls["prompt"] \in Prompted
  PROVE  PipeInv(r, t)'
  <1>0. /\ Len(outPipe) \in Nat /\ Len(outPipe') = Len(outPipe) + 1
        /\ \A i \in 1..Len(outPipe) : outPipe'[i] = outPipe[i]
        /\ outPipe'[Len(outPipe) + 1] = line
        /\ outPipe \in Seq(Replies \cup Notices)
    BY AppendProperties DEF ClientTypeInv, LinesOK
  <1>1. /\ r \in 0..s /\ s \in 0..Len(script) /\ s = emitted /\ Len(script) \in Nat
    BY DEF PipeInv, ClientTypeInv, LinesOK
  <1>2. 1..Len(outPipe') = 1..Len(outPipe) \cup {Len(outPipe) + 1}
    BY <1>0
  <1>3. r \in 0..t /\ t \in 0..Len(script)
    BY <1>1
  <1>4. \A i \in 1..Len(outPipe') :
          outPipe'[i].n # 0 =>
             outPipe'[i].n \in (r + 1)..t /\ outPipe'[i].kind = script[outPipe'[i].n]
    <2>1. ASSUME NEW i \in 1..Len(outPipe), outPipe'[i].n # 0
          PROVE  outPipe'[i].n \in (r + 1)..t /\ outPipe'[i].kind = script[outPipe'[i].n]
      BY <1>0, <1>1, <2>1 DEF PipeInv
    <2>2. ASSUME line.n # 0
          PROVE  line.n \in (r + 1)..t /\ line.kind = script[line.n]
      BY <1>1, <2>2
    <2> QED BY <1>0, <1>2, <2>1, <2>2
  <1>5. \A i, j \in 1..Len(outPipe') :
          i < j /\ outPipe'[i].n # 0 /\ outPipe'[j].n # 0 => outPipe'[i].n < outPipe'[j].n
    <2> SUFFICES ASSUME NEW i \in 1..Len(outPipe'), NEW j \in 1..Len(outPipe'), i < j,
                        outPipe'[i].n # 0, outPipe'[j].n # 0
                 PROVE  outPipe'[i].n < outPipe'[j].n
      OBVIOUS
    <2>1. i \in 1..Len(outPipe)
      BY <1>0
    <2>2. CASE j \in 1..Len(outPipe)
      BY <1>0, <2>1, <2>2 DEF PipeInv
    <2>3. CASE j = Len(outPipe) + 1
      <3>1. outPipe'[j] = line /\ outPipe'[i] = outPipe[i]
        BY <1>0, <2>1, <2>3
      <3>2. outPipe[i].n \in (r + 1)..s
        BY <2>1, <3>1 DEF PipeInv
      <3> QED BY <1>1, <3>1, <3>2
    <2> QED BY <1>2, <2>2, <2>3
  <1>6. \A k \in (r + 1)..t : \E i \in 1..Len(outPipe') : outPipe'[i].n = k
    <2> TAKE k \in (r + 1)..t
    <2>1. CASE k \in (r + 1)..s
      <3>1. PICK i \in 1..Len(outPipe) : outPipe[i].n = k
        BY <2>1 DEF PipeInv
      <3> QED BY <1>0, <1>2, <3>1
    <2>2. CASE k \notin (r + 1)..s
      <3>1. k = t /\ line.n = k
        BY <1>1, <2>2
      <3> QED BY <1>0, <1>2, <3>1
    <2> QED BY <2>1, <2>2
  <1>7. ASSUME calls'["prompt"] \notin Prompted, NEW k \in 1..t
        PROVE  script[k] = "idle"
    <2>1. calls["prompt"] \notin Prompted
      BY <1>7
    <2>2. CASE k \in 1..s
      BY <2>1, <2>2 DEF PipeInv
    <2>3. CASE k \notin 1..s
      <3>1. k = t /\ t # emitted
        BY <1>1, <2>3
      <3> QED BY <2>1, <3>1
    <2> QED BY <2>2, <2>3
  <1> QED BY <1>3, <1>4, <1>5, <1>6, <1>7 DEF PipeInv

LEMMA FlowChild ==
  ASSUME ClientTypeInv, FlowInv, UNCHANGED <<queueView, turn, calls>>,
         ChildAnswers \/ ChildEmits \/ ChildGoesDeaf \/ ChildExits
  PROVE  FlowInv'
  <1>1. PICK s, r, p \in Nat : PipeInv(r, s) /\ QueueInv(p, r)
    BY DEF FlowInv
  <1>2. QueueInv(p, r)'
    BY <1>1, QueueStays
  <1>3. emitted \in Nat /\ Len(script) \in Nat
    BY DEF ClientTypeInv, ClientTypeOK, LinesOK
  <1>4. CASE ChildAnswers
    <2>1. PICK m \in heard, kind \in {"result", "error"} :
             outPipe' = Append(outPipe, AnswerTo(m, kind))
      BY <1>4 DEF ChildAnswers
    <2>2. PipeInv(r, emitted)'
      <3>1. /\ child = "up" /\ child' = "up" /\ UNCHANGED <<script, calls>> /\ emitted' = emitted
            /\ AnswerTo(m, kind).n = 0
        BY <1>4 DEF ChildAnswers, AnswerTo, queueView
      <3> QED BY <1>1, <2>1, <3>1, FlowAppends
    <2>3. PICK t \in Nat : t = emitted /\ t = emitted'
      BY <1>3, <1>4 DEF ChildAnswers
    <2>4. PipeInv(r, t)'
      BY <2>2, <2>3
    <2> QED BY <1>1, <1>2, <2>4 DEF FlowInv
  <1>5. CASE ChildEmits
    <2>1. PICK t \in Nat : t = emitted'
      BY <1>3, <1>5 DEF ChildEmits
    <2>2. t = emitted + 1 /\ t <= Len(script)
      BY <1>3, <1>5, <2>1 DEF ChildEmits
    <2>3. /\ child = "up" /\ child' = "up" /\ UNCHANGED <<script, calls>>
          /\ outPipe' = Append(outPipe, Notified(script[t], t))
          /\ Notified(script[t], t).n = t /\ Notified(script[t], t).kind = script[t]
          /\ script[t] # "idle" => calls["prompt"] \in Prompted
      BY <1>5, <2>1 DEF ChildEmits, Notified, queueView, Prompted
    <2>4. PipeInv(r, t)'
      BY <1>1, <2>1, <2>2, <2>3, FlowAppends
    <2> QED BY <1>1, <1>2, <2>4 DEF FlowInv
  <1>6. CASE ChildGoesDeaf
    BY <1>1, <1>2, <1>6, PipeStays DEF FlowInv, ChildGoesDeaf, pipeView
  <1>7. CASE ChildExits
    <2>1. PipeInv(r, s)'
      BY <1>1, <1>7 DEF ChildExits, PipeInv
    <2> QED BY <1>1, <1>2, <2>1 DEF FlowInv
  <1> QED BY <1>4, <1>5, <1>6, <1>7

LEMMA FlowTurn ==
  ASSUME ClientTypeInv, CallInv, FlowInv, RunTrue, Turn PROVE FlowInv' /\ RunTrue'
  <1> USE DEF callVars, childVars, queueVars
  <1>0. ClientTypeOK
    BY DEF ClientTypeInv
  <1>1. CASE StartBegins
    <2>1. /\ UNCHANGED <<pipeView, queueView, calls>> /\ turn' \notin Reading
          /\ runEnd' = runEnd \/ (runEnd # "completed" /\ runEnd' # "completed")
      BY <1>1 DEF StartBegins, Ends, Reading, pipeView, queueView, CallInv
    <2> QED BY <2>1, FlowStays, RunStays DEF queueView
  <1>2. CASE Spawns
    <2>1. /\ UNCHANGED <<script, emitted, outPipe, queueView, calls>> /\ turn' \notin Reading
          /\ runEnd' = runEnd \/ (runEnd # "completed" /\ runEnd' # "completed")
      BY <1>2 DEF Spawns, Ends, Reading, queueView, CallInv
    <2>2. PICK s, r, p \in Nat : PipeInv(r, s) /\ QueueInv(p, r)
      BY DEF FlowInv
    <2>3. child' = child \/ child = "none"
      BY <1>2 DEF Spawns, CallInv
    <2>4. PipeInv(r, s)' /\ QueueInv(p, r)'
      BY <2>1, <2>2, <2>3, QueueStays DEF PipeInv
    <2> QED BY <2>1, <2>4, RunStays DEF FlowInv, queueView
  <1>7. CASE Records
    <2>1. /\ UNCHANGED <<pipeView, queueView, calls, runEnd>> /\ turn' \notin Reading
      BY <1>7 DEF Records, Reading, pipeView, queueView
    <2> QED BY <2>1, FlowStays, RunStays DEF queueView
  <1>8. CASE Discards
    <2>1. /\ UNCHANGED <<script, queueView, calls>>
          /\ runEnd' = runEnd \/ (runEnd # "completed" /\ runEnd' # "completed")
      BY <1>8 DEF Discards, ChildExits, Ends, queueView, CallInv
    <2>2. CASE ChildExits /\ UNCHANGED <<turn, runEnd>>
      BY <2>1, <2>2, FlowChild, RunStays DEF queueView
    <2>3. CASE ~(ChildExits /\ UNCHANGED <<turn, runEnd>>)
      <3>1. /\ turn' = "ended" /\ child' = "reaped" /\ UNCHANGED <<emitted, outPipe>>
        BY <1>8, <2>3 DEF Discards, Ends
      <3>2. PICK s, r, p \in Nat : PipeInv(r, s) /\ QueueInv(p, r)
        BY DEF FlowInv
      <3>3. PipeInv(r, s)' /\ QueueInv(p, r)'
        BY <2>1, <3>1, <3>2, QueueStays DEF PipeInv, Reading, queueView
      <3> QED BY <2>1, <3>3, RunStays DEF FlowInv, queueView
    <2> QED BY <2>2, <2>3
  <1>3. CASE InitializeBegins
    <2>1. /\ UNCHANGED <<pipeView, queueView>> /\ turn' \notin Reading
          /\ calls'["prompt"] = calls["prompt"]
          /\ runEnd' = runEnd \/ (runEnd # "completed" /\ runEnd' # "completed")
      BY <1>0, <1>3 DEF InitializeBegins, Begin, Ends, Reading, pipeView, queueView, CallInv,
        ClientTypeOK, Methods
    <2> QED BY <2>1, FlowStays, RunStays DEF queueView
  <1>4. CASE RunBegins
    <2>1. /\ delivered' = <<>> /\ delivered = <<>> /\ script' = script
          /\ runEnd' = runEnd \/ (runEnd # "completed" /\ runEnd' # "completed")
      BY <1>4 DEF RunBegins, Begin, Ends, CallInv, Early
    <2>2. FlowInv'
      BY <1>4, FlowBegins
    <2>3. UNCHANGED <<delivered, script>>
      BY <2>1
    <2>4. RunTrue'
      BY <2>1, <2>3, RunStays
    <2> QED BY <2>2, <2>4
  <1>5. CASE Pops
    BY <1>5, FlowPops
  <1>6. CASE Sleeps \/ RunWoken
    <2>1. /\ UNCHANGED <<pipeView, queueView, calls>> /\ turn \in Reading
          /\ runEnd' = runEnd \/ (runEnd # "completed" /\ runEnd' # "completed")
      BY <1>6 DEF Sleeps, RunWoken, Ends, Reading, pipeView, queueView, CallInv
    <2> QED BY <2>1, FlowStays, RunStays DEF queueView
  <1> QED BY <1>1, <1>2, <1>3, <1>4, <1>5, <1>6, <1>7, <1>8 DEF Turn

\* readLoop takes the next line: an answer, or the next notification.
LEMMA FlowTakes ==
  ASSUME ClientTypeInv, NEW r \in Nat, NEW s \in Nat, PipeInv(r, s),
         outPipe # <<>>, outPipe' = Tail(outPipe), UNCHANGED <<script, calls, child, emitted>>
  PROVE  /\ Head(outPipe).n = 0 => PipeInv(r, s)'
         /\ Head(outPipe).n # 0 =>
              /\ Head(outPipe).n = r + 1 /\ Head(outPipe).kind = script[r + 1]
              /\ PipeInv(r + 1, s)'
  <1>0. /\ Len(outPipe) \in Nat \ {0} /\ Len(outPipe') = Len(outPipe) - 1
        /\ \A i \in 1..Len(outPipe') : outPipe'[i] = outPipe[i + 1]
        /\ Head(outPipe) = outPipe[1]
    BY HeadTailProperties, EmptySeq DEF ClientTypeInv, LinesOK
  <1>1. \A i \in 1..Len(outPipe') : i + 1 \in 1..Len(outPipe)
    BY <1>0
  <1>2. ASSUME NEW k, NEW i \in 1..Len(outPipe), outPipe[i].n = k, outPipe[1].n # k
        PROVE  \E j \in 1..Len(outPipe') : outPipe'[j].n = k
    <2>1. i - 1 \in 1..Len(outPipe') /\ outPipe'[i - 1] = outPipe[(i - 1) + 1] /\ (i - 1) + 1 = i
      BY <1>0, <1>2
    <2> QED BY <1>2, <2>1
  <1>3. \A i, j \in 1..Len(outPipe') :
          i < j /\ outPipe'[i].n # 0 /\ outPipe'[j].n # 0 => outPipe'[i].n < outPipe'[j].n
    <2> SUFFICES ASSUME NEW i \in 1..Len(outPipe'), NEW j \in 1..Len(outPipe'), i < j,
                        outPipe'[i].n # 0, outPipe'[j].n # 0
                 PROVE  outPipe'[i].n < outPipe'[j].n
      OBVIOUS
    <2>1. /\ outPipe'[i] = outPipe[i + 1] /\ outPipe'[j] = outPipe[j + 1]
          /\ i + 1 \in 1..Len(outPipe) /\ j + 1 \in 1..Len(outPipe) /\ i + 1 < j + 1
      BY <1>0, <1>1
    <2> QED BY <2>1 DEF PipeInv
  <1>4. CASE outPipe[1].n = 0
    <2>1. \A i \in 1..Len(outPipe') :
            outPipe'[i].n # 0 =>
               outPipe'[i].n \in (r + 1)..s /\ outPipe'[i].kind = script[outPipe'[i].n]
      BY <1>0, <1>1 DEF PipeInv
    <2>2. \A k \in (r + 1)..s : \E i \in 1..Len(outPipe') : outPipe'[i].n = k
      <3> TAKE k \in (r + 1)..s
      <3>1. PICK i \in 1..Len(outPipe) : outPipe[i].n = k
        BY DEF PipeInv
      <3> QED BY <1>2, <1>4, <3>1
    <2> QED BY <1>0, <1>3, <1>4, <2>1, <2>2 DEF PipeInv
  <1>5. CASE outPipe[1].n # 0
    <2>1. outPipe[1].n \in (r + 1)..s /\ outPipe[1].kind = script[outPipe[1].n]
      BY <1>0, <1>5 DEF PipeInv
    <2>2. PICK i \in 1..Len(outPipe) : outPipe[i].n = r + 1
      BY <2>1 DEF PipeInv
    <2>3. outPipe[1].n = r + 1
      <3>1. CASE i = 1
        BY <2>2, <3>1
      <3>2. CASE i # 1
        <4>1. outPipe[1].n < outPipe[i].n
          BY <1>0, <1>5, <2>2, <3>2 DEF PipeInv
        <4> QED BY <2>1, <2>2, <4>1
      <3> QED BY <3>1, <3>2
    <2>4. \A j \in 1..Len(outPipe') :
            outPipe'[j].n # 0 =>
               outPipe'[j].n \in (r + 2)..s /\ outPipe'[j].kind = script[outPipe'[j].n]
      <3> SUFFICES ASSUME NEW j \in 1..Len(outPipe'), outPipe'[j].n # 0
                   PROVE  outPipe'[j].n \in (r + 2)..s /\ outPipe'[j].kind = script[outPipe'[j].n]
        OBVIOUS
      <3>1. outPipe'[j] = outPipe[j + 1] /\ j + 1 \in 1..Len(outPipe) /\ 1 < j + 1
        BY <1>0, <1>1
      <3>2. outPipe[1].n < outPipe[j + 1].n
        BY <1>0, <1>5, <3>1 DEF PipeInv
      <3>3. outPipe[j + 1].n \in (r + 1)..s /\ outPipe[j + 1].kind = script[outPipe[j + 1].n]
        BY <3>1 DEF PipeInv
      <3> QED BY <2>3, <3>1, <3>2, <3>3
    <2>5. \A k \in (r + 2)..s : \E j \in 1..Len(outPipe') : outPipe'[j].n = k
      <3> TAKE k \in (r + 2)..s
      <3>1. PICK j \in 1..Len(outPipe) : outPipe[j].n = k
        BY DEF PipeInv
      <3>2. outPipe[1].n # k
        BY <2>3
      <3> QED BY <1>2, <3>1, <3>2
    <2>6. PipeInv(r + 1, s)'
      <3>1. r + 1 \in 0..s /\ (r + 1) + 1 = r + 2
        BY <2>1
      <3> QED BY <1>3, <2>4, <2>5, <3>1 DEF PipeInv
    <2> QED BY <1>0, <2>1, <2>3, <2>6
  <1> QED BY <1>0, <1>4, <1>5

LEMMA FlowReads ==
  ASSUME ClientTypeInv, FlowInv, ReadsLine, UNCHANGED turnVars PROVE FlowInv'
  <1>1. PICK s, r, p \in Nat : PipeInv(r, s) /\ QueueInv(p, r)
    BY DEF FlowInv
  <1> DEFINE line == Head(outPipe)
  <1>2. /\ outPipe # <<>> /\ outPipe' = Tail(outPipe)
        /\ UNCHANGED <<script, calls, child, emitted, turn, known, delivered>>
    BY DEF ReadsLine, callVars, turnVars
  <1>3. CASE line.n = 0
    <2>1. PipeInv(r, s)'
      BY <1>1, <1>2, <1>3, FlowTakes
    <2>2. QueueInv(p, r)'
      BY <1>1, <1>2, <1>3, QueueStays DEF ReadsLine, queueVars, queueView
    <2> QED BY <2>1, <2>2 DEF FlowInv
  <1>4. CASE line.n # 0
    <2>1. PipeInv(r + 1, s)' /\ line.n = r + 1 /\ line.kind = script[r + 1]
      BY <1>1, <1>2, <1>4, FlowTakes
    <2>2. Push(line)
      BY <1>4 DEF ReadsLine
    <2>3. QueueInv(p, r + 1)'
      <3> SUFFICES ASSUME turn \in Reading PROVE QueueInv(p, r + 1)'
        BY <1>2 DEF QueueInv
      <3>1. /\ p \in 0..r /\ Len(queued) <= r - p /\ (~queueErr => Len(queued) = r - p)
            /\ \A i \in 1..Len(queued) : queued[i].n = p + i /\ queued[i].kind = script[p + i]
            /\ known <=> \E k \in 1..p : script[k] = "started"
            /\ {delivered[i] : i \in 1..Len(delivered)} = TurnsUpTo(p)
        BY <1>1 DEF QueueInv
      <3>2. TurnsUpTo(p)' = TurnsUpTo(p)
        BY <1>2 DEF TurnsUpTo
      <3>3. queued \in Seq(Notices) /\ Len(queued) \in Nat
        BY DEF ClientTypeInv, LinesOK
      <3>4. CASE queueErr \/ Unread
        <4>1. queueErr /\ UNCHANGED <<queued, queueErr>>
          BY <2>2, <3>4 DEF Push, Unread, Reading, queueVars
        <4> QED BY <1>2, <3>1, <3>2, <3>3, <4>1 DEF QueueInv
      <3>5. CASE ~(queueErr \/ Unread) /\ Len(queued) >= MaxNotificationEvents
        <4>1. queued' = <<>> /\ queueErr' = TRUE
          BY <2>2, <3>5 DEF Push, queueVars
        <4> QED BY <1>2, <3>1, <3>2, <4>1 DEF QueueInv
      <3>6. CASE ~(queueErr \/ Unread) /\ ~(Len(queued) >= MaxNotificationEvents)
        <4>1. queued' = Append(queued, line) /\ queueErr' = FALSE /\ ~queueErr
          BY <2>2, <3>6 DEF Push, queueVars
        <4>2. /\ Len(queued') = Len(queued) + 1
              /\ \A i \in 1..Len(queued) : queued'[i] = queued[i]
              /\ queued'[Len(queued) + 1] = line
          BY <3>3, <4>1
        <4>3. Len(queued) = r - p /\ p + (Len(queued) + 1) = r + 1
          <5>1. Len(queued) = r - p
            BY <3>1, <4>1
          <5> QED BY <3>1, <5>1
        <4>4. \A i \in 1..Len(queued') : queued'[i].n = p + i /\ queued'[i].kind = script[p + i]
          <5> TAKE i \in 1..Len(queued')
          <5>1. CASE i \in 1..Len(queued)
            BY <3>1, <4>2, <5>1
          <5>2. CASE i = Len(queued) + 1
            BY <2>1, <4>2, <4>3, <5>2
          <5> QED BY <3>3, <4>2, <5>1, <5>2
        <4>5. Len(queued') = (r + 1) - p /\ p \in 0..(r + 1)
          BY <3>1, <4>2, <4>3
        <4> HIDE DEF line
        <4> QED BY <1>2, <3>1, <3>2, <4>4, <4>5 DEF QueueInv
      <3> QED BY <3>4, <3>5, <3>6
    <2>4. r + 1 \in Nat /\ PipeInv(r + 1, s)' /\ QueueInv(p, r + 1)'
      BY <2>1, <2>3
    <2> DEFINE read == r + 1
    <2>5. read \in Nat /\ PipeInv(read, s)' /\ QueueInv(p, read)'
      BY <2>4
    <2> HIDE DEF read
    <2> QED BY <2>5 DEF FlowInv
  <1> QED BY <1>3, <1>4

\* An error of the queue drops nothing that is in it.
LEMMA FlowFails ==
  ASSUME FlowInv, NEW who, FailQueue(who), UNCHANGED <<pipeView, turn, known, delivered>>,
         calls["prompt"] \in Prompted => calls'["prompt"] \in Prompted
  PROVE  FlowInv'
  <1>1. PICK s, r, p \in Nat : PipeInv(r, s) /\ QueueInv(p, r)
    BY DEF FlowInv
  <1>2. PipeInv(r, s)'
    BY <1>1, PipeStays
  <1>3. QueueInv(p, r)'
    <2>1. queued' = queued /\ (queueErr' = queueErr \/ queueErr') /\ script' = script
      BY DEF FailQueue, queueVars, pipeView
    <2>2. TurnsUpTo(p)' = TurnsUpTo(p)
      BY <2>1 DEF TurnsUpTo
    <2> QED BY <1>1, <2>1, <2>2 DEF QueueInv
  <1> QED BY <1>2, <1>3 DEF FlowInv

LEMMA FlowLoops ==
  ASSUME ClientTypeInv, CallInv, FlowInv, RunTrue, Loops PROVE FlowInv' /\ RunTrue'
  <1>0. UNCHANGED <<turn, runEnd, known, delivered, script, calls>>
    BY DEF Loops, turnVars, ReadsLine, SendsAnswer, ReadEnds, ReadFails, Reaps, WaitFailsCalls,
      WaitFailsQueue, Signals, FailAll, callVars, childVars
  <1> SUFFICES FlowInv'
    BY <1>0, RunStays
  <1>1. CASE ReadsLine
    BY <1>1, FlowReads DEF Loops
  <1>2. CASE SendsAnswer \/ ReadEnds \/ WaitFailsCalls \/ Signals
    <2>1. UNCHANGED <<pipeView, queueView>>
      BY <1>0, <1>2 DEF SendsAnswer, ReadEnds, WaitFailsCalls, Signals, SignalWake, pipeView,
        queueView, childVars, queueVars
    <2> QED BY <1>0, <2>1, FlowStays
  <1>3. CASE ReadFails \/ WaitFailsQueue
    BY <1>0, <1>3, FlowFails DEF ReadFails, WaitFailsQueue, pipeView, childVars
  <1>4. CASE Reaps
    <2>1. PICK s, r, p \in Nat : PipeInv(r, s) /\ QueueInv(p, r)
      BY DEF FlowInv
    <2>2. QueueInv(p, r)' /\ PipeInv(r, s)'
      BY <1>0, <1>4, <2>1, QueueStays DEF Reaps, queueView, queueVars, PipeInv
    <2> QED BY <2>2 DEF FlowInv
  <1> QED BY <1>1, <1>2, <1>3, <1>4 DEF Loops

LEMMA FlowClose ==
  ASSUME ClientTypeInv, CallInv, FlowInv, RunTrue, Close PROVE FlowInv' /\ RunTrue'
  <1>0. UNCHANGED <<turn, runEnd, known, delivered, script>>
    BY DEF Close, turnVars, CloseBegins, StdinCloses, LosesPatience, Killed, CloseEnds,
      ChildExits, childVars
  <1> SUFFICES FlowInv'
    BY <1>0, RunStays
  <1>1. CASE CloseBegins \/ CloseEnds
    <2>1. calls["prompt"] \in Prompted => calls'["prompt"] \in Prompted
      BY <1>1 DEF CloseBegins, CloseEnds, FailAll, ClientTypeInv, ClientTypeOK, Methods
    <2>2. CASE FailQueue("close") /\ UNCHANGED childVars
      BY <1>0, <2>1, <2>2, FlowFails DEF pipeView, childVars
    <2>3. CASE UNCHANGED childVars /\ UNCHANGED queueVars
      BY <1>0, <2>1, <2>3, FlowStays DEF pipeView, queueView, childVars, queueVars
    <2> QED BY <1>1, <2>2, <2>3 DEF CloseBegins, CloseEnds
  <1>2. CASE StdinCloses \/ LosesPatience
    BY <1>0, <1>2, FlowStays DEF StdinCloses, LosesPatience, callVars, childVars, queueVars,
      pipeView, queueView
  <1>3. CASE Killed
    BY <1>0, <1>3, FlowChild DEF Killed, callVars, queueVars, queueView, ChildExits
  <1> QED BY <1>1, <1>2, <1>3 DEF Close

LEMMA FlowNext ==
  ClientTypeInv /\ CallInv /\ FlowInv /\ RunTrue /\ [ClientNext]_clientVars
    => FlowInv' /\ RunTrue'
  <1> SUFFICES ASSUME ClientTypeInv, CallInv, FlowInv, RunTrue, [ClientNext]_clientVars
               PROVE  FlowInv' /\ RunTrue'
    OBVIOUS
  <1>1. CASE Child
    <2>1. UNCHANGED <<queueView, turn, calls, runEnd>>
      BY <1>1 DEF Child, turnVars, callVars, queueVars, queueView, ChildAnswers, ChildEmits,
        ChildGoesDeaf, ChildExits
    <2> QED BY <1>1, <2>1, FlowChild, RunStays DEF Child, queueView
  <1>2. CASE UNCHANGED clientVars
    BY <1>2, FlowStays, RunStays DEF clientVars, turnVars, callVars, childVars, queueVars,
      pipeView, queueView
  <1> QED BY <1>1, <1>2, FlowRequest, FlowTurn, FlowLoops, FlowClose DEF ClientNext

\* Everything the client's invariants rest on.
ClientInv == ClientTypeInv /\ CallInv /\ QueueWakes /\ FlowInv /\ RunTrue

LEMMA ClientInvInit == ClientInit => ClientInv
  <1> SUFFICES ASSUME ClientInit PROVE ClientInv
    OBVIOUS
  <1>1. RunTrue
    BY DEF ClientInit, RunTrue, TurnsUpTo
  <1>2. QueueWakes
    BY DEF ClientInit, QueueWakes
  <1> QED BY <1>1, <1>2, ClientTypeInit, CallInit, FlowInit DEF ClientInv

LEMMA ClientInvNext == ClientInv /\ [ClientNext]_clientVars => ClientInv'
  BY ClientTypeNext, CallNext, QueueWakesNext, FlowNext DEF ClientInv

LEMMA ClientInvSound == ClientInv => ClientSound
  BY DEF ClientInv, ClientTypeInv, CallInv, ClientSound, NobodyWaitsForTheDead,
    ClosedLeavesNobody, Held

\* The harness client (internal/harness) by itself: no request waits for a child
\* that is gone, no notification is lost, repeated or handed on out of turn, a
\* run ends for the reason it gives, and a Close that is over leaves no process
\* but one that Start holds and is about to discard, whatever the child does and
\* when, for every script it may follow.
THEOREM ClientIsSound == ClientInit /\ [][ClientNext]_clientVars => []ClientSound
  BY ClientInvInit, ClientInvNext, ClientInvSound, PTL

-----------------------------------------------------------------------------
(* The turn: either side of its notifications *)

LEMMA TurnInvInit == TurnInit => StreamInv /\ ClientInv
  BY StreamInvInit, ClientInvInit DEF TurnInit

LEMMA TurnInvNext ==
    StreamInv /\ ClientInv /\ [TurnNext]_turnAll => StreamInv' /\ ClientInv'
  <1> SUFFICES ASSUME StreamInv, ClientInv, [TurnNext]_turnAll
               PROVE  StreamInv' /\ ClientInv'
    OBVIOUS
  <1>1. [Next]_vars /\ [ClientNext]_clientVars
    BY DEF TurnNext, turnAll
  <1> QED BY <1>1, StreamInvNext, ClientInvNext

\* A turn of the model that TLC runs, its assumptions on fairness left aside:
\* what the stream and the harness client promise holds in it throughout.
THEOREM TurnIsSound == TurnSpec => [](StreamSound /\ EndingSound /\ ClientSound)
  <1>1. StreamInv /\ ClientInv => StreamSound /\ EndingSound /\ ClientSound
    BY StreamInvSound, ClientInvSound DEF StreamInv, ToldInv, EndingSound
  <1> QED BY <1>1, TurnInvInit, TurnInvNext, PTL DEF TurnSpec
=============================================================================
