------------------------------ MODULE ChatStream ------------------------------
(***************************************************************************)
(* One streamed chat turn (backend-go/internal/agent/service.go, Stream    *)
(* and stream.go, StreamBuffer, called by internal/api/api.go, chat).  A   *)
(* worker goroutine runs the agent and publishes events into a bounded     *)
(* buffer; the handler drains it into the response.                        *)
(*                                                                         *)
(* Each section under the buffer's mutex is one step; the signal on the    *)
(* wake channel, sent after the unlock, is a step of its own, and so is    *)
(* the select that waits for it.  An event is its number and its kind: a   *)
(* "note" (progress or tool event, without content) or the message a delta *)
(* of the reply belongs to.  Sizes count events.                           *)
(***************************************************************************)
EXTENDS Integers, Sequences, SequencesExt

CONSTANTS
  CHATStreamMaxEvents,  \* items the buffer holds
  CHATStreamMaxBytes,   \* bytes the buffer holds
  MergeBytes,           \* 4096: deltas merge up to this size
  Messages,             \* message_ids of the reply's attempts
  MaxPublished          \* bound: events the agent produces

ASSUME ConstantsAssumption ==
  /\ CHATStreamMaxEvents \in Nat \ {0} /\ CHATStreamMaxBytes \in Nat \ {0}
  /\ MergeBytes \in Nat \ {0} /\ MaxPublished \in Nat
  /\ "note" \notin Messages

Kinds == Messages \cup {"note"}
Codes == {"cancelled", "timeout", "slow_consumer", "upstream_error", "write"}

VARIABLES
  progressive,  \* the protocol the client asked for
  items,        \* StreamBuffer.items: each the sequence of events merged into it
  bytes,        \* StreamBuffer.bytes
  terminal,     \* StreamBuffer.terminal: "none", "result" or an error code
  stopped,      \* StreamBuffer.stopped
  wake,         \* tokens in StreamBuffer.wake, a channel of capacity 1
  owes,         \* the goroutines between an unlock and their signal
  worker,       \* where the worker goroutine is
  failure,      \* the error the worker is about to report
  handler,      \* where Stream's own loop is
  holding,      \* the item the handler has taken and not yet emitted
  verdict,      \* what Stream returns: "none", "completed" or an error code
  gone,         \* the request's context is cancelled: the client left
  runCtx,       \* the context of the run: "live", "canceled" or "expired"
  late,         \* the handler's own deadline has passed
  broken,       \* a write to the response has failed
  published,    \* events accepted by Publish so far
  sent,         \* events written to the response so far
  ending        \* the frames written after them

buffer == <<items, bytes, terminal, stopped>>
clock == <<gone, runCtx, late>>
client == <<broken, sent, ending>>
loop == <<handler, holding, verdict>>
vars == <<progressive, buffer, wake, owes, worker, failure, loop, clock, client, published>>

Init ==
  /\ progressive \in BOOLEAN
  /\ items = <<>> /\ bytes = 0 /\ terminal = "none" /\ stopped = FALSE
  /\ wake = 0 /\ owes = {}
  /\ worker = "preparing" /\ failure = "none"
  /\ handler = "check" /\ holding = <<>> /\ verdict = "none"
  /\ gone = FALSE /\ runCtx = "live" /\ late = FALSE
  /\ broken = FALSE /\ sent = <<>> /\ ending = <<>>
  /\ published = <<>>

-----------------------------------------------------------------------------
(* StreamBuffer *)

Event(kind) == [n |-> Len(published) + 1, kind |-> kind]

\* Slip: any delta is merged into the last item with content.
MergesAny(e) ==
  /\ items # <<>> /\ e.kind # "note"
  /\ Head(Last(items)).kind # "note"
  /\ Len(Last(items)) + 1 <= MergeBytes
  /\ bytes + 1 <= CHATStreamMaxBytes

\* A delta is merged into the last item if that is a delta of the same message.
Merges(e) ==
  /\ items # <<>> /\ e.kind # "note"
  /\ Head(Last(items)).kind = e.kind
  /\ Len(Last(items)) + 1 <= MergeBytes
  /\ bytes + 1 <= CHATStreamMaxBytes

Overflows == Len(items) >= CHATStreamMaxEvents \/ bytes + 1 > CHATStreamMaxBytes

\* Slip: the byte count is not carried for merged deltas.
MergeUncounted(e) ==
  /\ items' = Front(items) \o <<Append(Last(items), e)>>
  /\ published' = Append(published, e)
  /\ UNCHANGED <<bytes, terminal, stopped, owes>>

Merge(e) ==
  /\ items' = Front(items) \o <<Append(Last(items), e)>>
  /\ bytes' = bytes + 1
  /\ published' = Append(published, e)
  /\ UNCHANGED <<terminal, stopped, owes>>

\* Slip: the error is left to Finish.
OverflowUntold ==
  /\ items' = <<>> /\ bytes' = 0 /\ stopped' = TRUE
  /\ owes' = owes \cup {"worker"}
  /\ UNCHANGED <<terminal, published>>

\* Slip: the handler is told the same as the worker of a stopped buffer.
OverflowCancelled ==
  /\ terminal' = "cancelled"
  /\ items' = <<>> /\ bytes' = 0 /\ stopped' = TRUE
  /\ owes' = owes \cup {"worker"}
  /\ UNCHANGED published

Overflow ==
  /\ terminal' = "slow_consumer"
  /\ items' = <<>> /\ bytes' = 0 /\ stopped' = TRUE
  /\ owes' = owes \cup {"worker"}
  /\ UNCHANGED published

Add(e) ==
  /\ items' = Append(items, <<e>>)
  /\ bytes' = bytes + 1
  /\ published' = Append(published, e)
  /\ owes' = owes \cup {"worker"}
  /\ UNCHANGED <<terminal, stopped>>

\* Publish returns an error if the buffer is stopped, before or by this call.
Publish(e, next) ==
  \/ /\ stopped
     /\ worker' = "failing" /\ failure' = "cancelled"
     /\ UNCHANGED <<buffer, owes, published>>
  \/ /\ ~stopped /\ Merges(e) /\ Merge(e)
     /\ worker' = next /\ UNCHANGED failure
  \/ /\ ~stopped /\ ~Merges(e) /\ Overflows /\ Overflow
     /\ worker' = "failing" /\ failure' = "slow_consumer"
  \/ /\ ~stopped /\ ~Merges(e) /\ ~Overflows /\ Add(e)
     /\ worker' = next /\ UNCHANGED failure

\* Slip: a result discards what has not been read.
FinishClearing(kind) ==
  IF terminal # "none" \/ stopped
  THEN UNCHANGED <<buffer, owes>>
  ELSE /\ terminal' = kind
       /\ items' = <<>> /\ bytes' = 0
       /\ owes' = owes \cup {"worker"}
       /\ UNCHANGED stopped

\* Slip: no signal; the heartbeat would find the terminal some seconds later.
FinishSilent(kind) ==
  IF terminal # "none" \/ stopped
  THEN UNCHANGED <<buffer, owes>>
  ELSE /\ terminal' = kind
       /\ IF kind = "result" THEN UNCHANGED <<items, bytes>>
                             ELSE items' = <<>> /\ bytes' = 0
       /\ UNCHANGED <<stopped, owes>>

Finish(kind) ==
  IF terminal # "none" \/ stopped
  THEN UNCHANGED <<buffer, owes>>
  ELSE /\ terminal' = kind
       /\ IF kind = "result" THEN UNCHANGED <<items, bytes>>
                             ELSE items' = <<>> /\ bytes' = 0
       /\ owes' = owes \cup {"worker"}
       /\ UNCHANGED stopped

Stop(who) ==
  /\ stopped' = TRUE /\ items' = <<>> /\ bytes' = 0
  /\ owes' = owes \cup {who}
  /\ UNCHANGED terminal

\* The send on the wake channel, dropped when a token is there.
Signal(who) ==
  /\ who \in owes
  /\ owes' = owes \ {who}
  /\ wake' = 1
  /\ UNCHANGED <<progressive, buffer, worker, failure, loop, clock, client, published>>

-----------------------------------------------------------------------------
(* The worker goroutine *)

AtWorker(stage) == worker = stage /\ "worker" \notin owes

\* What the worker's steps leave to the others.
WorkerOnly == UNCHANGED <<progressive, wake, loop, clock, client>>

\* The progress events around the run, for clients that asked for them.
Progress(stage, next) ==
  /\ AtWorker(stage)
  /\ IF progressive
     THEN Publish(Event("note"), next)
     ELSE worker' = next /\ UNCHANGED <<buffer, owes, published, failure>>
  /\ WorkerOnly

Prepare == Progress("preparing", "starting")
Analyze == Progress("analyzing", "running")
Finalize == Progress("finalizing", "finishing")

\* Acquire, Start and Initialize.
Launch ==
  /\ AtWorker("starting")
  /\ worker' = "analyzing"
  /\ WorkerOnly /\ UNCHANGED <<buffer, owes, published, failure>>

\* The callback of Run publishes what a notification gives: tool events, and
\* for progressive clients progress and deltas of the reply.
Notify(kind) ==
  /\ AtWorker("running") /\ Len(published) < MaxPublished
  /\ progressive \/ kind = "note"
  /\ Publish(Event(kind), "running")
  /\ WorkerOnly

\* Run has returned a valid reply.
RunReturns ==
  /\ AtWorker("running")
  /\ worker' = "finalizing"
  /\ WorkerOnly /\ UNCHANGED <<buffer, owes, published, failure>>

\* A call of the runtime fails, or the reply is not valid.
Fail ==
  /\ AtWorker("starting") \/ AtWorker("running")
  /\ worker' = "failing" /\ failure' = "upstream_error"
  /\ WorkerOnly /\ UNCHANGED <<buffer, owes, published>>

\* Slip: the run does not look at its context.
InterruptStart ==
  /\ runCtx # "live"
  /\ AtWorker("starting")
  /\ worker' = "failing"
  /\ failure' = IF runCtx = "canceled" THEN "cancelled" ELSE "timeout"
  /\ WorkerOnly /\ UNCHANGED <<buffer, owes, published>>

\* A call of the runtime returns because runCtx is done.
Interrupt ==
  /\ runCtx # "live"
  /\ AtWorker("starting") \/ AtWorker("running")
  /\ worker' = "failing"
  /\ failure' = IF runCtx = "canceled" THEN "cancelled" ELSE "timeout"
  /\ WorkerOnly /\ UNCHANGED <<buffer, owes, published>>

FinishError ==
  /\ AtWorker("failing")
  /\ Finish(failure)
  /\ worker' = "closing"
  /\ WorkerOnly /\ UNCHANGED <<published, failure>>

FinishResult ==
  /\ AtWorker("finishing")
  /\ Finish("result")
  /\ worker' = "closing"
  /\ WorkerOnly /\ UNCHANGED <<published, failure>>

\* The deferred function: the lease is closed, then the buffer is stopped.
CloseLease ==
  /\ AtWorker("closing")
  /\ worker' = "stopping"
  /\ WorkerOnly /\ UNCHANGED <<buffer, owes, published, failure>>

StopWorker ==
  /\ AtWorker("stopping")
  /\ Stop("worker")
  /\ worker' = "done"
  /\ WorkerOnly /\ UNCHANGED <<published, failure>>

-----------------------------------------------------------------------------
(* The loop of Stream, in the handler *)

HandlerOnly == UNCHANGED <<progressive, worker, failure, published>>
NoBuffer == UNCHANGED <<buffer, owes>>

\* The context of the run ends, at the first of its causes.
CancelRun == runCtx' = IF runCtx = "live" THEN "canceled" ELSE runCtx

\* Stream cancels the run and returns.
Return(code) ==
  /\ verdict' = code /\ handler' = "leaving"
  /\ CancelRun
  /\ holding' = <<>>

\* The top of the loop.
Check ==
  /\ handler = "check"
  /\ IF gone THEN Return("cancelled")
     ELSE IF late THEN Return("timeout")
     ELSE handler' = "get" /\ UNCHANGED <<holding, verdict, runCtx>>
  /\ HandlerOnly /\ NoBuffer /\ UNCHANGED <<wake, gone, late, client>>

\* The section of Get under the mutex: an item, else the terminal, else wait.
Get ==
  /\ handler = "get"
  /\ \/ /\ items # <<>>
        /\ holding' = Head(items) /\ items' = Tail(items)
        /\ bytes' = bytes - Len(Head(items))
        /\ handler' = "emit"
        /\ UNCHANGED <<verdict, runCtx>>
     \/ /\ items = <<>> /\ terminal = "result"
        /\ handler' = "final" /\ UNCHANGED <<items, bytes, holding, verdict, runCtx>>
     \/ /\ items = <<>> /\ terminal \notin {"none", "result"}
        /\ Return(terminal) /\ UNCHANGED <<items, bytes>>
     \/ /\ items = <<>> /\ terminal = "none"
        /\ handler' = "select" /\ UNCHANGED <<items, bytes, holding, verdict, runCtx>>
  /\ HandlerOnly /\ UNCHANGED <<terminal, stopped, owes, wake, gone, late, client>>

\* The three cases of the select in Get.
Woken ==
  /\ handler = "select" /\ wake = 1
  /\ wake' = 0 /\ handler' = "get"
  /\ HandlerOnly /\ NoBuffer /\ UNCHANGED <<holding, verdict, clock, client>>

ContextDone ==
  /\ handler = "select" /\ gone
  /\ Return("cancelled")
  /\ HandlerOnly /\ NoBuffer /\ UNCHANGED <<wake, gone, late, client>>

TimerFires ==
  /\ handler = "select"
  /\ IF gone THEN Return("cancelled")
     ELSE IF late THEN Return("timeout")
     ELSE handler' = "heartbeat" /\ UNCHANGED <<holding, verdict, runCtx>>
  /\ HandlerOnly /\ NoBuffer /\ UNCHANGED <<wake, gone, late, client>>

\* emit writes one frame.
Emit ==
  /\ handler \in {"emit", "heartbeat"} /\ ~broken
  /\ handler' = "check"
  /\ sent' = sent \o holding
  /\ holding' = <<>>
  /\ HandlerOnly /\ NoBuffer /\ UNCHANGED <<wake, verdict, clock, broken, ending>>

\* The last frames: the final reply, the desktop action if there is one, done.
EmitLast(frame, next) ==
  /\ handler = frame /\ ~broken
  /\ ending' = Append(ending, frame)
  /\ IF next = "leaving" THEN Return("completed")
     ELSE handler' = next /\ UNCHANGED <<holding, verdict, runCtx>>
  /\ HandlerOnly /\ NoBuffer /\ UNCHANGED <<wake, gone, late, broken, sent>>

EmitFinal == EmitLast("final", "desktop") \/ EmitLast("final", "done")
EmitDesktop == EmitLast("desktop", "done")
EmitDone == EmitLast("done", "leaving")

\* A write fails: the client is gone or reads too slowly.
EmitFails ==
  /\ handler \in {"emit", "heartbeat", "final", "desktop", "done"}
  /\ broken' = TRUE
  /\ Return("write")
  /\ HandlerOnly /\ NoBuffer /\ UNCHANGED <<wake, gone, late, sent, ending>>

\* The deferred function: Stop, its signal, and the wait for the worker.
StopHandler ==
  /\ handler = "leaving"
  /\ Stop("handler")
  /\ handler' = "joining"
  /\ HandlerOnly /\ UNCHANGED <<wake, holding, verdict, clock, client>>

Join ==
  /\ handler = "joining" /\ "handler" \notin owes
  /\ worker = "done" /\ "worker" \notin owes
  /\ handler' = "returned"
  /\ HandlerOnly /\ NoBuffer /\ UNCHANGED <<wake, holding, verdict, clock, client>>

\* DSHCleanupTimeoutSeconds pass first.
CleanupTimeout ==
  /\ handler = "joining" /\ "handler" \notin owes
  /\ handler' = "returned"
  /\ HandlerOnly /\ NoBuffer /\ UNCHANGED <<wake, holding, verdict, clock, client>>

\* Slip: whatever Stream returned.
AnswerAlways ==
  /\ handler = "returned"
  /\ handler' = "end"
  /\ ending' \in IF broken THEN {ending} ELSE {ending, Append(ending, "error")}
  /\ HandlerOnly /\ NoBuffer /\ UNCHANGED <<wake, holding, verdict, clock, broken, sent>>

\* The chat handler: an error becomes the last frame, if it can be written.
Answer ==
  /\ handler = "returned"
  /\ handler' = "end"
  /\ ending' \in IF verdict = "completed" \/ broken THEN {ending}
                 ELSE {ending, Append(ending, "error")}
  /\ HandlerOnly /\ NoBuffer /\ UNCHANGED <<wake, holding, verdict, clock, broken, sent>>

-----------------------------------------------------------------------------
(* The outside *)

Disconnect ==
  /\ ~gone /\ handler # "end"
  /\ gone' = TRUE /\ CancelRun
  /\ UNCHANGED <<progressive, buffer, wake, owes, worker, failure, loop, late, client, published>>

\* DSHRequestTimeoutSeconds, once for runCtx and once for the handler.
RunExpires ==
  /\ runCtx = "live"
  /\ runCtx' = "expired"
  /\ UNCHANGED <<progressive, buffer, wake, owes, worker, failure, loop, gone, late, client, published>>

DeadlinePasses ==
  /\ ~late /\ runCtx # "live"
  /\ late' = TRUE
  /\ UNCHANGED <<progressive, buffer, wake, owes, worker, failure, loop, gone, runCtx, client, published>>

\* Steps the runtime of the program takes by itself.
WorkerStep ==
  \/ Prepare \/ Analyze \/ Interrupt \/ Finalize
  \/ FinishError \/ FinishResult \/ CloseLease \/ StopWorker

HandlerStep ==
  \/ Check \/ Get \/ Woken \/ ContextDone \/ TimerFires \/ Emit
  \/ EmitFinal \/ EmitDesktop \/ EmitDone \/ StopHandler \/ Join \/ Answer

Clock == RunExpires \/ DeadlinePasses

Next ==
  \/ WorkerStep \/ HandlerStep \/ Clock
  \/ \E who \in {"worker", "handler"} : Signal(who)
  \/ \E kind \in Kinds : Notify(kind)
  \/ Launch \/ RunReturns \/ Fail
  \/ EmitFails \/ CleanupTimeout \/ Disconnect

Spec == Init /\ [][Next]_vars

-----------------------------------------------------------------------------
WorkerStages == {"preparing", "starting", "analyzing", "running", "finalizing",
                 "finishing", "failing", "closing", "stopping", "done"}
HandlerStages == {"check", "get", "select", "emit", "heartbeat", "final", "desktop",
                  "done", "leaving", "joining", "returned", "end"}
Events == [n : Nat \ {0}, kind : Kinds]

FlagsTyped ==
  /\ progressive \in BOOLEAN /\ stopped \in BOOLEAN
  /\ gone \in BOOLEAN /\ late \in BOOLEAN /\ broken \in BOOLEAN

ControlTyped ==
  /\ terminal \in {"none", "result"} \cup Codes
  /\ wake \in {0, 1} /\ owes \subseteq {"worker", "handler"}
  /\ worker \in WorkerStages /\ failure \in {"none"} \cup Codes
  /\ handler \in HandlerStages /\ verdict \in {"none", "completed"} \cup Codes
  /\ runCtx \in {"live", "canceled", "expired"}

DataTyped ==
  /\ items \in Seq(Seq(Events)) /\ bytes \in Nat
  /\ holding \in Seq(Events) /\ published \in Seq(Events) /\ sent \in Seq(Events)

\* Every variable keeps its kind of value.
TypeOK ==
  /\ FlagsTyped /\ ControlTyped /\ DataTyped
  /\ ending \in Seq({"final", "desktop", "done", "error"})

\* The handler is still in its loop.
Looping == verdict = "none"

\* How the items divide a stretch of events: each begins where the one before
\* it ends, the first after "from", and the last ends at "to".
Cuts(from, to) ==
  {cut \in [0..Len(items) -> from..to] :
     /\ cut[0] = from /\ cut[Len(items)] = to
     /\ \A i \in 1..Len(items) : cut[i] = cut[i - 1] + Len(items[i])}

\* The buffer stays within its limits, its byte count is the size of what it
\* holds, and only deltas of one message share an item.
BufferBounded ==
  /\ Len(items) <= CHATStreamMaxEvents
  /\ bytes <= CHATStreamMaxBytes
  /\ Cuts(0, bytes) # {}
  /\ \A i \in 1..Len(items) :
       /\ items[i] # <<>>
       /\ \A j \in 1..Len(items[i]) :
            /\ items[i][j].kind = items[i][1].kind
            /\ Len(items[i]) > 1 => items[i][j].kind # "note"

\* No lost wake-up: a handler that waits while there is something to read has a
\* token on the way, although merged deltas send no signal and the signal is
\* sent after the unlock.
NoLostWakeup ==
  handler = "select" /\ (items # <<>> \/ terminal # "none")
    => wake = 1 \/ "worker" \in owes

\* The handler is never left alone: on every path out of the worker, the
\* overflow of the buffer included, a handler still in its loop has a terminal
\* to find, and need not wait for its own deadline.
Told ==
  Looping /\ worker \in {"closing", "stopping", "done"} => terminal # "none"

\* The client gets the events in the order in which the agent produced them,
\* without a gap: what was written, and what is about to be, is a prefix of what
\* was published, and while the worker runs, the items are all the rest.
InOrder ==
  /\ IsPrefix(sent \o holding, published)
  /\ Looping /\ ~stopped /\ terminal \in {"none", "result"} =>
       \E cut \in Cuts(Len(sent \o holding), Len(published)) :
         \A i \in 1..Len(items) : items[i] = SubSeq(published, cut[i - 1] + 1, cut[i])

\* The reported reason is the real one.
VerdictTrue ==
  /\ verdict = "cancelled" => gone
  /\ verdict = "timeout" => late \/ runCtx = "expired"
  /\ verdict = "slow_consumer" => stopped
  /\ verdict = "upstream_error" => failure = "upstream_error"
  /\ verdict = "completed" <=> \E i \in 1..Len(ending) : ending[i] = "done"

\* A turn ends once: the final reply is followed by nothing but its desktop
\* action and done, and never by an error.
EndsOnce ==
  ending \in {<<>>, <<"error">>, <<"final">>, <<"final", "desktop">>,
              <<"final", "done">>, <<"final", "desktop", "done">>}

\* What passes through the buffer is bounded, complete and in order, and the
\* verdict on the turn is the true one.
StreamSound == TypeOK /\ BufferBounded /\ InOrder /\ VerdictTrue

\* A turn comes to one end and the handler hears of it: no wake-up is lost, no
\* exit of the worker is silent, and nothing follows the end.
EndingSound == NoLostWakeup /\ Told /\ EndsOnce
=============================================================================
