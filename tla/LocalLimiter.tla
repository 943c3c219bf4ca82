----------------------------- MODULE LocalLimiter -----------------------------
(***************************************************************************)
(* The in-process admission gate (backend-go/internal/admission/           *)
(* limiter.go), used when Redis is not configured, as the chat middleware  *)
(* (middleware.go, Wrap) drives it.                                        *)
(*                                                                         *)
(* One process per HTTP request.  The sections under Limiter.mu are the    *)
(* steps of the request that holds mutex; promoteLocked takes one step per *)
(* turn of its loop.  A ticket is the request it was made for; its ready   *)
(* channel, of capacity one, is ready[r].                                  *)
(***************************************************************************)
EXTENDS Integers, Sequences, FiniteSets

CONSTANTS
  Requests, Sources,
  Source,              \* the identity of each request
  None,                \* no ticket, nobody
  maximum, queueMax,   \* CHATMaxConcurrent, CHATQueueMaxSize
  wait,                \* CHATQueueWaitSeconds
  LastArrival,         \* bound: no request arrives later
  MaxClock             \* bound: the clock stops here

ASSUME ConstantsAssumption ==
  /\ IsFiniteSet(Sources)
  /\ Source \in [Requests -> Sources]
  /\ None \notin Requests
  /\ maximum \in Nat \ {0} /\ queueMax \in Nat
  /\ wait \in Nat /\ LastArrival \in Nat /\ MaxClock \in Nat

VARIABLES
  now,       \* the clock
  pc,        \* where each request is
  stamp,     \* the time.Now() the middleware hands to Enter
  verdict,   \* the rejection the request will answer, or "none"
  gone,      \* requests whose context is cancelled
  mutex,     \* the request inside Limiter.mu, or None
  at,        \* the now argument of the promoteLocked call in progress
  active,    \* identity -> ticket with a slot
  waiting,   \* identity -> ticket in the waiting room
  order,     \* identities in the waiting room, first come first
  queued,    \* tickets whose queued field is set
  ready      \* what each ticket's ready channel holds

lists == <<active, waiting, order, queued, ready>>
vars == <<now, pc, stamp, verdict, gone, mutex, at, active, waiting, order,
          queued, ready>>

(***************************************************************************)
(* Places.  "admit": promoteLocked of Enter, then its decision.  "body":   *)
(* readChatBody.  "fast" and "select": the two selects of Wait.  "undo":   *)
(* a Release in Wait.  "release": the deferred Release.  "undone" and      *)
(* "released": their promoteLocked.                                        *)
(***************************************************************************)
Places == {"idle", "enter", "admit", "body", "wait", "fast", "select",
           "undo", "undone", "run", "release", "released", "done"}
Verdicts == {"none", "concurrency", "queue_full", "queue_timeout",
             "cancelled", "invalid_body"}
Signals == {"empty", "admitted", "expired"}

Deadline(r) == stamp[r] + wait
Holders == {s \in Sources : active[s] # None}
Waiters == {s \in Sources : waiting[s] # None}

Init ==
  /\ now = 1
  /\ pc = [r \in Requests |-> "idle"]
  /\ stamp = [r \in Requests |-> 0]
  /\ verdict = [r \in Requests |-> "none"]
  /\ gone = {}
  /\ mutex = None
  /\ at = 0
  /\ active = [s \in Sources |-> None]
  /\ waiting = [s \in Sources |-> None]
  /\ order = <<>>
  /\ queued = {}
  /\ ready = [r \in Requests |-> "empty"]

Goto(r, place) == pc' = [pc EXCEPT ![r] = place]
Answer(r, code) == verdict' = [verdict EXCEPT ![r] = code]

-----------------------------------------------------------------------------
(* promoteLocked                                                           *)

\* The head of the line has a ticket whose deadline has passed, or none.
HeadExpired ==
  LET s == Head(order) IN waiting[s] = None \/ at > Deadline(waiting[s])

\* Slip: the limit is checked after the ticket has been counted in.
LoopEndsLate ==
  order # <<>> => ~HeadExpired /\ Cardinality(Holders) > maximum

\* The loop ends at an empty line, or at a head that must wait on.
LoopEnds ==
  order # <<>> => ~HeadExpired /\ Cardinality(Holders) >= maximum

\* Slip: the ticket of an expired head stays in the map.
DropHeadOnly ==
  LET s == Head(order)
      t == waiting[s]
  IN  /\ order' = Tail(order)
      /\ ready' = IF t = None THEN ready ELSE [ready EXCEPT ![t] = "expired"]
      /\ UNCHANGED <<waiting, active, queued>>

\* An expired head is told so.
DropHead ==
  LET s == Head(order)
      t == waiting[s]
  IN  /\ order' = Tail(order)
      /\ waiting' = [waiting EXCEPT ![s] = None]
      /\ ready' = IF t = None THEN ready ELSE [ready EXCEPT ![t] = "expired"]
      /\ UNCHANGED <<active, queued>>

\* Slip: the identity goes where its ticket belongs.
AdmitHeadIdentity ==
  LET s == Head(order)
      t == waiting[s]
  IN  /\ order' = Tail(order)
      /\ waiting' = [waiting EXCEPT ![s] = None]
      /\ active' = [active EXCEPT ![s] = s]
      /\ queued' = queued \ {t}
      /\ ready' = [ready EXCEPT ![t] = "admitted"]

\* A head in time moves to a slot.
AdmitHead ==
  LET s == Head(order)
      t == waiting[s]
  IN  /\ order' = Tail(order)
      /\ waiting' = [waiting EXCEPT ![s] = None]
      /\ active' = [active EXCEPT ![s] = t]
      /\ queued' = queued \ {t}
      /\ ready' = [ready EXCEPT ![t] = "admitted"]

\* A send on a full channel would block with the mutex held.
SendBlocks == waiting[Head(order)] # None /\ ready[waiting[Head(order)]] # "empty"

\* One turn of the loop.
Promote(r) ==
  /\ mutex = r /\ ~LoopEnds /\ ~SendBlocks
  /\ IF HeadExpired THEN DropHead ELSE AdmitHead
  /\ UNCHANGED <<now, pc, stamp, verdict, gone, mutex, at>>

-----------------------------------------------------------------------------
(* Enter                                                                   *)

Arrive(r) ==
  /\ pc[r] = "idle" /\ now <= LastArrival
  /\ stamp' = [stamp EXCEPT ![r] = now]
  /\ Goto(r, "enter")
  /\ UNCHANGED <<now, verdict, gone, mutex, at, lists>>

\* Slip: only the waiting room is searched for the identity.
KnownByWaiting(r) == waiting[Source[r]] # None

Known(r) == active[Source[r]] # None \/ waiting[Source[r]] # None

\* Slip: the early return keeps the mutex.
EnterLocked(r) ==
  /\ pc[r] = "enter" /\ mutex = None
  /\ IF Known(r)
     THEN /\ Answer(r, "concurrency") /\ Goto(r, "done")
          /\ mutex' = r /\ UNCHANGED at
     ELSE /\ mutex' = r /\ at' = stamp[r] /\ Goto(r, "admit")
          /\ UNCHANGED verdict
  /\ UNCHANGED <<now, stamp, gone, lists>>

\* Takes the mutex; an identity with a slot or a place in line is refused.
Enter(r) ==
  /\ pc[r] = "enter" /\ mutex = None
  /\ IF Known(r)
     THEN /\ Answer(r, "concurrency") /\ Goto(r, "done")
          /\ UNCHANGED <<mutex, at>>
     ELSE /\ mutex' = r /\ at' = stamp[r] /\ Goto(r, "admit")
          /\ UNCHANGED verdict
  /\ UNCHANGED <<now, stamp, gone, lists>>

\* Slip: off by one in the size of the waiting room.
RoomFullLate == Cardinality(Waiters) > queueMax

RoomFull == Cardinality(Waiters) >= queueMax

\* The rest of Enter: reject, join the line, or take a slot.
Decide(r) ==
  LET s == Source[r]
      mustQueue == Cardinality(Holders) >= maximum \/ Waiters # {}
  IN
  /\ pc[r] = "admit" /\ mutex = r /\ LoopEnds
  /\ \/ /\ mustQueue /\ RoomFull
        /\ Answer(r, "queue_full") /\ Goto(r, "done")
        /\ UNCHANGED lists
     \/ /\ mustQueue /\ ~RoomFull
        /\ queued' = queued \cup {r}
        /\ waiting' = [waiting EXCEPT ![s] = r]
        /\ order' = Append(order, s)
        /\ Goto(r, "body")
        /\ UNCHANGED <<verdict, active, ready>>
     \/ /\ ~mustQueue
        /\ active' = [active EXCEPT ![s] = r]
        /\ ready' = [ready EXCEPT ![r] = "admitted"]
        /\ Goto(r, "body")
        /\ UNCHANGED <<verdict, waiting, order, queued>>
  /\ mutex' = None
  /\ UNCHANGED <<now, stamp, gone, at>>

-----------------------------------------------------------------------------
(* Release                                                                 *)

\* removeOrder: the entries behind the identity move up.
WithoutSource(s) ==
  LET i == CHOOSE j \in 1..Len(order) : order[j] = s
  IN  [j \in 1..(Len(order) - 1) |-> IF j < i THEN order[j] ELSE order[j + 1]]

\* Slip: the line keeps the identity.
GiveBackTicket(r) ==
  /\ active' = [s \in Sources |-> IF active[s] = r THEN None ELSE active[s]]
  /\ waiting' = [s \in Sources |-> IF waiting[s] = r THEN None ELSE waiting[s]]
  /\ UNCHANGED <<order, queued, ready>>

\* Slip: whoever holds the identity's slot loses it.
GiveBackIdentity(r) ==
  LET s == Source[r] IN
  /\ active' = [active EXCEPT ![s] = None]
  /\ waiting' = [waiting EXCEPT ![s] = None]
  /\ order' = IF waiting[s] # None THEN WithoutSource(s) ELSE order
  /\ UNCHANGED <<queued, ready>>

\* What Release deletes: only what belongs to this very ticket.
GiveBack(r) ==
  LET s == Source[r] IN
  /\ active' = IF active[s] = r THEN [active EXCEPT ![s] = None] ELSE active
  /\ waiting' = IF waiting[s] = r THEN [waiting EXCEPT ![s] = None] ELSE waiting
  /\ order' = IF waiting[s] = r THEN WithoutSource(s) ELSE order
  /\ UNCHANGED <<queued, ready>>

\* Slip: nobody is promoted into the slot that Release frees.
BeginReleaseOnly(r, from, to) ==
  /\ pc[r] = from /\ mutex = None
  /\ GiveBack(r)
  /\ Goto(r, IF from = "undo" THEN "release" ELSE "done")
  /\ UNCHANGED <<now, stamp, verdict, gone, mutex, at>>

BeginRelease(r, from, to) ==
  /\ pc[r] = from /\ mutex = None
  /\ GiveBack(r)
  /\ mutex' = r /\ at' = now /\ Goto(r, to)
  /\ UNCHANGED <<now, stamp, verdict, gone>>

EndRelease(r, from, to) ==
  /\ pc[r] = from /\ mutex = r /\ LoopEnds
  /\ mutex' = None /\ Goto(r, to)
  /\ UNCHANGED <<now, stamp, verdict, gone, at, lists>>

\* The Release of Wait, and the one Wrap defers.
Release(r) ==
  \/ BeginRelease(r, "undo", "undone")
  \/ EndRelease(r, "undone", "release")
  \/ BeginRelease(r, "release", "released")
  \/ EndRelease(r, "released", "done")

-----------------------------------------------------------------------------
(* Wait                                                                    *)

\* Slip: the Release is deferred only after the body has been read.
ReadBodyFirst(r) ==
  /\ pc[r] = "body"
  /\ \/ Goto(r, "wait") /\ UNCHANGED verdict
     \/ Goto(r, "done") /\ Answer(r, "invalid_body")
  /\ UNCHANGED <<now, stamp, gone, mutex, at, lists>>

ReadBody(r) ==
  /\ pc[r] = "body"
  /\ \/ Goto(r, "wait") /\ UNCHANGED verdict
     \/ Goto(r, "release") /\ Answer(r, "invalid_body")
  /\ UNCHANGED <<now, stamp, gone, mutex, at, lists>>

\* Wait reads ticket.queued under the mutex.
BeginWait(r) ==
  /\ pc[r] = "wait" /\ mutex = None
  /\ Goto(r, IF r \in queued THEN "select" ELSE "fast")
  /\ UNCHANGED <<now, stamp, verdict, gone, mutex, at, lists>>

\* Receives from ready and returns what it says.
Receive(r) ==
  /\ ready[r] # "empty"
  /\ ready' = [ready EXCEPT ![r] = "empty"]
  /\ \/ /\ ready[r] = "admitted"
        /\ Goto(r, "run") /\ UNCHANGED verdict
     \/ /\ ready[r] = "expired"
        /\ Goto(r, "release") /\ Answer(r, "queue_timeout")
  /\ UNCHANGED <<now, stamp, gone, mutex, at, active, waiting, order, queued>>

TakeReady(r) == pc[r] \in {"fast", "select"} /\ r \notin gone /\ Receive(r)

\* Either the context ends the select, or ready does and the context is found
\* cancelled: then the channel has been emptied.
TakeCancelled(r) ==
  /\ pc[r] \in {"fast", "select"} /\ r \in gone
  /\ Goto(r, "undo") /\ Answer(r, "cancelled")
  /\ \/ UNCHANGED ready
     \/ ready[r] # "empty" /\ ready' = [ready EXCEPT ![r] = "empty"]
  /\ UNCHANGED <<now, stamp, gone, mutex, at, active, waiting, order, queued>>

\* The timer looks at ready once more.  Between that look and the Release a
\* promotion may still reach the ticket.
TimerFires(r) ==
  /\ pc[r] = "select" /\ now >= Deadline(r)
  /\ \/ Receive(r)
     \/ /\ ready[r] = "empty"
        /\ Answer(r, "queue_timeout") /\ Goto(r, "undo")
        /\ UNCHANGED <<now, stamp, gone, mutex, at, lists>>

\* Quota.Consume and next.ServeHTTP, whatever they answer.
Serve(r) ==
  /\ pc[r] = "run" /\ Goto(r, "release")
  /\ UNCHANGED <<now, stamp, verdict, gone, mutex, at, lists>>

-----------------------------------------------------------------------------
Disconnect(r) ==
  /\ pc[r] \in {"wait", "fast", "select"} /\ r \notin gone
  /\ gone' = gone \cup {r}
  /\ UNCHANGED <<now, pc, stamp, verdict, mutex, at, lists>>

Tick ==
  /\ now < MaxClock /\ now' = now + 1
  /\ UNCHANGED <<pc, stamp, verdict, gone, mutex, at, lists>>

Step(r) ==
  \/ Promote(r) \/ Enter(r) \/ Decide(r) \/ Release(r) \/ ReadBody(r)
  \/ BeginWait(r) \/ TakeReady(r) \/ TakeCancelled(r) \/ TimerFires(r)
  \/ Serve(r)

Next ==
  \/ \E r \in Requests : Arrive(r) \/ Step(r) \/ Disconnect(r)
  \/ Tick

Spec == Init /\ [][Next]_vars

\* sync.Mutex hands the lock to a waiter that has starved for a millisecond, so
\* a request at a lock gets it although others keep taking it: strong
\* fairness.  Time passes; nothing makes a visitor arrive or leave.
FairSpec == Spec /\ WF_vars(Tick) /\ \A r \in Requests : SF_vars(Step(r))

-----------------------------------------------------------------------------
(* What the gate promises.                                                 *)

\* Every variable keeps its kind of value.
TypeOK ==
  /\ now \in Nat /\ at \in Nat
  /\ pc \in [Requests -> Places]
  /\ stamp \in [Requests -> Nat]
  /\ verdict \in [Requests -> Verdicts]
  /\ gone \in SUBSET Requests
  /\ mutex \in Requests \cup {None}
  /\ active \in [Sources -> Requests \cup {None}]
  /\ waiting \in [Sources -> Requests \cup {None}]
  /\ order \in Seq(Sources)
  /\ queued \in SUBSET Requests
  /\ ready \in [Requests -> Signals]

\* The slice and the map of the waiting room never disagree: no identity waits
\* outside the line, none stands in it twice, and none is left in it.
LineMatches ==
  /\ \A s \in Sources :
       waiting[s] # None <=> \E i \in 1..Len(order) : order[i] = s
  /\ \A i, j \in 1..Len(order) : order[i] = order[j] => i = j

\* Outside the mutex, somebody waits only if every slot is taken: no section
\* leaves a free slot next to a waiting ticket.
WorkConserving == mutex = None /\ order # <<>> => Cardinality(Holders) = maximum

\* The waiting room never holds more than queueMax tickets.
\* deployment/agent-protection.md: "the waiting room has a fixed capacity".
FixedCapacity == Len(order) <= queueMax

\* A request past admission owns its identity's slot until its own Release
\* gives it back: no other request's timeout or cancellation takes it away.
RunnersHoldSlots == \A r \in Requests : pc[r] = "run" => active[Source[r]] = r

\* deployment/agent-protection.md: "One active or waiting request per source".
OnePerSource ==
  \A r, m \in Requests :
    /\ Source[r] = Source[m]
    /\ \A q \in {r, m} : active[Source[q]] = q \/ waiting[Source[q]] = q
       \/ pc[q] = "run"
    => r = m

\* A request that has answered holds neither a slot nor a place in line, even
\* if it was promoted between its timeout and its Release.
NothingLeftBehind ==
  \A s \in Sources : \A r \in {active[s], waiting[s]} \ {None} : pc[r] # "done"

\* promoteLocked never sends on a full channel while it holds the mutex, which
\* would stop every request of the process.
SendNeverBlocks ==
  \A s \in Sources : waiting[s] # None => ready[waiting[s]] = "empty"

\* The line in front of the slots is sound after every section under the mutex.
LineSound ==
  TypeOK /\ LineMatches /\ WorkConserving /\ FixedCapacity /\ SendNeverBlocks

\* Requests of one source never take each other's slot or place, and leave none.
SourcesSound == RunnersHoldSlots /\ OnePerSource /\ NothingLeftBehind

\* Every request that enters is answered and leaves: no lost wake-up, no
\* deadlock on the mutex or the channel.
Settles == \A r \in Requests : pc[r] = "enter" ~> pc[r] = "done"

\* The abstract place of a request: a ticket in the line waits, a ticket with
\* a slot executes.
Place(r) ==
  CASE pc[r] = "idle" -> "outside"
    [] pc[r] \in {"enter", "admit"} \/ waiting[Source[r]] = r -> "waiting"
    [] active[Source[r]] = r -> "executing"
    [] OTHER -> "left"

Gate == INSTANCE AdmissionGate WITH
  MaxExecuting <- maximum, place <- [r \in Requests |-> Place(r)]

\* The in-process limiter is an admission gate: slots are handed out one at a
\* time, each while fewer than maximum tickets hold one, and a ticket that has
\* left never comes back.
GateSpec == Gate!Spec

=============================================================================
