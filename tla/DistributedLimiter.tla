-------------------------- MODULE DistributedLimiter --------------------------
(***************************************************************************)
(* The Redis-backed admission gate of the Go backend                       *)
(* (backend-go/internal/admission/distributed_limiter.go) as the chat      *)
(* middleware (middleware.go, Wrap) drives it.                             *)
(*                                                                         *)
(* One process per HTTP request.  Every Redis round trip is one step, so   *)
(* requests of several backend instances interleave between the commands   *)
(* that Enter, Wait and Release issue.  The Lua script is one step: Redis  *)
(* runs it atomically.  A request is its own member of the two sorted      *)
(* sets; the member's text (identity and nanoseconds) is abstracted to the *)
(* request itself, the score to the clock value the request read.          *)
(*                                                                         *)
(* Time is a bounded counter.  A key is present while its expiry lies in   *)
(* the future; an entry of the active set stays until a script purges it.  *)
(***************************************************************************)
EXTENDS Integers, FiniteSets

CONSTANTS
  Requests,            \* HTTP requests, a set of naturals: the order of
                       \* members with equal scores
  Sources,             \* client identities (identityHash)
  Source,              \* the identity of each request
  Instances,           \* backend processes
  Instance,            \* the process that serves each request
  CHATMaxConcurrent,   \* slots
  CHATQueueMaxSize,    \* the size at which ZCARD answers queue_full
  Wait,                \* CHATQueueWaitSeconds
  Lease,               \* DSHRequestTimeout + 30 s
  Grace,               \* the 10 s an identity key outlives the lease
  HoldMax,             \* longest time from a grant to the end of Release
  EntryMax,            \* longest time from Enter to a grant or to the end
  LastArrival,         \* bound: when each request arrives at the latest
  MaxClock,            \* bound: the clock stops here
  MaxFaults,           \* bound: failed Redis round trips in a behaviour
  MaxCrashes           \* bound: crashes of backend processes

ASSUME ConstantsAssumption ==
  /\ Requests \subseteq Nat /\ IsFiniteSet(Requests)
  /\ Source \in [Requests -> Sources]
  /\ Instance \in [Requests -> Instances]
  /\ CHATMaxConcurrent \in Nat \ {0} /\ CHATQueueMaxSize \in Nat
  /\ Wait \in Nat /\ Lease \in Nat \ {0} /\ Grace \in Nat
  /\ HoldMax \in Nat /\ EntryMax \in Nat
  /\ LastArrival \in [Requests -> Nat] /\ MaxClock \in Nat
  /\ MaxFaults \in Nat /\ MaxCrashes \in Nat

(***************************************************************************)
(* The time the code grants itself: the handler's own deadlines fit in the *)
(* lease (DSHRequestTimeout plus 30 s for the body, the quota, the cleanup *)
(* and the one-second Release), and reaching a grant or a rejection takes  *)
(* less than the TTL of the identity key.                                  *)
(***************************************************************************)
ASSUME TimingAssumption ==
  /\ HoldMax < Lease
  /\ Wait < EntryMax
  /\ EntryMax < Wait + Lease + Grace

VARIABLES
  now,          \* the clock, read by every request and by the Lua script
  pc,           \* where each request is in Wrap, Enter, Wait, Release
  stamp,        \* the time.Now() of Enter: the score of the queue entry
  granted,      \* when the script moved the request to the active set
  verdict,      \* the rejection the request will answer, or "none"
  gone,         \* requests whose context is cancelled
  identityKey,  \* expiry of identity:<source>, 0 when deleted
  queue,        \* members of the waiting sorted set
  active,       \* score of each member of slots:active, 0 when not a member
  faults,       \* failed Redis round trips so far
  crashes       \* crashes so far

store == <<identityKey, queue, active, granted>>
count == <<faults, crashes>>
vars == <<now, pc, stamp, granted, verdict, gone, identityKey, queue, active,
          faults, crashes>>

Absent == 0

(***************************************************************************)
(* Places.  Entering: inside Enter.  "read" and "readQueued": the body is  *)
(* being read, with a slot and without.  "poll" and "rest": the loop of    *)
(* Wait.  "run": Quota.Consume and the chat handler.  "cancelEnter" and    *)
(* "cancelWait": the Cancel of Enter and of Wait, "giveUp": Enter's DEL.   *)
(***************************************************************************)
Places == {"idle", "setnx", "zcard", "zadd", "try", "giveUp", "cancelEnter",
           "read", "readQueued", "poll", "rest", "cancelWait", "run",
           "release", "done", "dead"}
Verdicts == {"none", "concurrency", "queue_full", "queue_timeout",
             "cancelled", "quota_storage", "invalid_body"}

Live == {r \in Requests : pc[r] \notin {"idle", "done", "dead"}}

\* Requests that hold a ticket: from the SETNX that succeeded to the end of
\* the deferred Release.
Ticketed == {r \in Live : pc[r] # "setnx"}

\* Requests that have been let through and are not yet finished.
Executing == {r \in Requests : pc[r] \in {"read", "run"}}

Slots == {r \in Requests : active[r] # Absent}

\* Slip: the wait starts anew with every look at the clock.
DeadlineRestarted(r) == now + Wait

Deadline(r) == stamp[r] + Wait

Init ==
  /\ now = 1
  /\ pc = [r \in Requests |-> "idle"]
  /\ stamp = [r \in Requests |-> 0]
  /\ granted = [r \in Requests |-> Absent]
  /\ verdict = [r \in Requests |-> "none"]
  /\ gone = {}
  /\ identityKey = [s \in Sources |-> Absent]
  /\ queue = {}
  /\ active = [r \in Requests |-> Absent]
  /\ faults = 0
  /\ crashes = 0

-----------------------------------------------------------------------------
(* Redis commands: each one constrains store'.                             *)

KeyExists(s) == identityKey[s] > now

\* Slip: the key lives as long as the wait.
SetForTheWait(r) ==
  /\ identityKey' = [identityKey EXCEPT ![Source[r]] =
                       IF @ > now THEN @ ELSE now + Wait + Grace]
  /\ UNCHANGED <<queue, active, granted>>

\* SETNX with a TTL: sets the key unless it is there.
SetIdentity(r) ==
  /\ identityKey' = [identityKey EXCEPT ![Source[r]] =
                       IF @ > now THEN @ ELSE now + Wait + Lease + Grace]
  /\ UNCHANGED <<queue, active, granted>>

DelIdentity(r) ==
  /\ identityKey' = [identityKey EXCEPT ![Source[r]] = Absent]
  /\ UNCHANGED <<queue, active, granted>>

\* ZADD: the score is stamp[r].
AddToQueue(r) ==
  /\ queue' = queue \cup {r}
  /\ UNCHANGED <<identityKey, active, granted>>

\* Sorted-set order: by score, then by member.
Before(a, b) == stamp[a] < stamp[b] \/ (stamp[a] = stamp[b] /\ a < b)

\* Slip: remaining times instead of scores.
PurgedRelative == [m \in Requests |-> active[m] - now]

\* Slip: an entry is purged one unit before its lease ends.
PurgedEarly ==
  [m \in Requests |-> IF active[m] <= now + 1 THEN Absent ELSE active[m]]

\* ZREMRANGEBYSCORE active -inf now, the first command of the script.
Purged == [m \in Requests |-> IF active[m] <= now THEN Absent ELSE active[m]]

\* Slip: the script counts the set as it is.
SlotsNeverPurged == {m \in Requests : active[m] # Absent}

\* Who holds a slot then.
SlotsAfterPurge == {m \in Requests : active[m] > now}

\* Slip: one grant too many.
AdmissibleOneMore(r) ==
  /\ \A m \in queue \ {r} : Before(r, m)
  /\ Cardinality(SlotsAfterPurge) <= CHATMaxConcurrent

\* Slip: one grant too few.
AdmissibleOneLess(r) ==
  /\ \A m \in queue \ {r} : Before(r, m)
  /\ Cardinality(SlotsAfterPurge) + 1 < CHATMaxConcurrent

\* Slip: a free slot goes to whoever asks first.
AdmissibleAnyone(r) == Cardinality(SlotsAfterPurge) < CHATMaxConcurrent

Admissible(r) ==
  /\ \A m \in queue \ {r} : Before(r, m)
  /\ Cardinality(SlotsAfterPurge) < CHATMaxConcurrent

\* The Lua script; gate is the answer tryAcquire decodes.
TryAcquire(r, gate) ==
  \/ /\ gate = "acquired"
     /\ r \in SlotsAfterPurge
     /\ active' = Purged
     /\ UNCHANGED <<identityKey, queue, granted>>
  \/ /\ gate = "missing"
     /\ r \notin SlotsAfterPurge \cup queue
     /\ active' = Purged
     /\ UNCHANGED <<identityKey, queue, granted>>
  \/ /\ gate = "acquired"
     /\ r \in queue \ SlotsAfterPurge /\ Admissible(r)
     /\ active' = [Purged EXCEPT ![r] = now + Lease]
     /\ queue' = queue \ {r}
     /\ identityKey' = [identityKey EXCEPT ![Source[r]] =
                          IF @ > now THEN now + Lease + Grace ELSE @]
     /\ granted' = [granted EXCEPT ![r] = now]
  \/ /\ gate = "timedOut"
     /\ r \in queue \ SlotsAfterPurge /\ ~Admissible(r) /\ now >= Deadline(r)
     /\ active' = Purged
     /\ queue' = queue \ {r}
     /\ identityKey' = [identityKey EXCEPT ![Source[r]] = Absent]
     /\ UNCHANGED granted
  \/ /\ gate = "waiting"
     /\ r \in queue \ SlotsAfterPurge /\ ~Admissible(r) /\ now < Deadline(r)
     /\ active' = Purged
     /\ UNCHANGED <<identityKey, queue, granted>>

\* The first n commands of Release's pipeline: ZREM active, ZREM queue, and
\* a DEL of the identity key whatever its value.
ReleasePipeline(r, n) ==
  /\ active' = IF n >= 1 THEN [active EXCEPT ![r] = Absent] ELSE active
  /\ queue' = IF n >= 2 THEN queue \ {r} ELSE queue
  /\ identityKey' = IF n >= 3 THEN [identityKey EXCEPT ![Source[r]] = Absent]
                              ELSE identityKey
  /\ UNCHANGED granted

-----------------------------------------------------------------------------
Goto(r, place) == pc' = [pc EXCEPT ![r] = place]
Answer(r, code) == verdict' = [verdict EXCEPT ![r] = code]

(* Enter.                                                                  *)

\* The middleware has passed authorize and CheckAttempt; Enter reads the clock.
Arrive(r) ==
  /\ pc[r] = "idle" /\ now <= LastArrival[r]
  /\ stamp' = [stamp EXCEPT ![r] = now]
  /\ Goto(r, "setnx")
  /\ UNCHANGED <<now, verdict, gone, store, count>>

\* Slip: a duplicate cleans up the key on its way out.
ClaimIdentityTidy(r) ==
  /\ pc[r] = "setnx"
  /\ SetIdentity(r)
  /\ IF KeyExists(Source[r])
     THEN Answer(r, "concurrency") /\ Goto(r, "giveUp")
     ELSE Goto(r, "zcard") /\ UNCHANGED verdict
  /\ UNCHANGED <<now, stamp, gone, count>>

ClaimIdentity(r) ==
  /\ pc[r] = "setnx"
  /\ SetIdentity(r)
  /\ IF KeyExists(Source[r])
     THEN Answer(r, "concurrency") /\ Goto(r, "done")
     ELSE Goto(r, "zcard") /\ UNCHANGED verdict
  /\ UNCHANGED <<now, stamp, gone, count>>

CheckRoom(r) ==
  /\ pc[r] = "zcard"
  /\ IF Cardinality(queue) >= CHATQueueMaxSize
     THEN Answer(r, "queue_full") /\ Goto(r, "giveUp")
     ELSE Goto(r, "zadd") /\ UNCHANGED verdict
  /\ UNCHANGED <<now, stamp, gone, store, count>>

GiveUp(r) ==
  /\ pc[r] = "giveUp"
  /\ DelIdentity(r)
  /\ Goto(r, "done")
  /\ UNCHANGED <<now, stamp, verdict, gone, count>>

Join(r) ==
  /\ pc[r] = "zadd"
  /\ AddToQueue(r)
  /\ Goto(r, "try")
  /\ UNCHANGED <<now, stamp, verdict, gone, count>>

\* Enter's own attempt; a missing member is treated like a waiting one.
FirstAttempt(r) ==
  /\ pc[r] = "try"
  /\ \/ /\ TryAcquire(r, "acquired")
        /\ Goto(r, "read") /\ UNCHANGED verdict
     \/ /\ TryAcquire(r, "timedOut")
        /\ Goto(r, "cancelEnter") /\ Answer(r, "queue_timeout")
     \/ /\ TryAcquire(r, "waiting") \/ TryAcquire(r, "missing")
        /\ Goto(r, "readQueued") /\ UNCHANGED verdict
  /\ UNCHANGED <<now, stamp, gone, count>>

\* Enter's Cancel before it returns an error or a rejection: Wrap has not yet
\* deferred a Release.
CancelEnter(r) ==
  /\ pc[r] = "cancelEnter"
  /\ ReleasePipeline(r, 3)
  /\ Goto(r, "done")
  /\ UNCHANGED <<now, stamp, verdict, gone, count>>

-----------------------------------------------------------------------------
(* Wrap after Enter, and Wait.                                             *)

\* Slip: the Release is deferred only after the body has been read.
ReadBodyFirst(r) ==
  /\ \/ pc[r] = "read" /\ Goto(r, "run") /\ UNCHANGED verdict
     \/ pc[r] = "readQueued" /\ Goto(r, "poll") /\ UNCHANGED verdict
     \/ /\ pc[r] \in {"read", "readQueued"}
        /\ Goto(r, "done") /\ Answer(r, "invalid_body")
  /\ UNCHANGED <<now, stamp, gone, store, count>>

ReadBody(r) ==
  /\ \/ pc[r] = "read" /\ Goto(r, "run") /\ UNCHANGED verdict
     \/ pc[r] = "readQueued" /\ Goto(r, "poll") /\ UNCHANGED verdict
     \/ /\ pc[r] \in {"read", "readQueued"}
        /\ Goto(r, "release") /\ Answer(r, "invalid_body")
  /\ UNCHANGED <<now, stamp, gone, store, count>>

\* One turn of Wait's loop.  With a cancelled context the client library
\* returns an error before it sends the script: no Cancel, only the deferred
\* Release.
Poll(r) ==
  /\ pc[r] = "poll"
  /\ \/ /\ r \in gone
        /\ Goto(r, "release") /\ Answer(r, "queue_timeout")
        /\ UNCHANGED store
     \/ /\ r \notin gone
        /\ \/ /\ TryAcquire(r, "acquired")
              /\ Goto(r, "run") /\ UNCHANGED verdict
           \/ /\ TryAcquire(r, "timedOut") \/ TryAcquire(r, "missing")
              /\ Goto(r, "cancelWait") /\ Answer(r, "queue_timeout")
           \/ /\ TryAcquire(r, "waiting")
              /\ Goto(r, "rest") /\ UNCHANGED verdict
  /\ UNCHANGED <<now, stamp, gone, count>>

\* The deadline check of the loop, then the select on the context and the
\* ticker, which may pick the ticker although the context is done.
Rest(r) ==
  /\ pc[r] = "rest"
  /\ \/ /\ now > Deadline(r)
        /\ Goto(r, "cancelWait") /\ Answer(r, "queue_timeout")
     \/ /\ now <= Deadline(r) /\ r \in gone
        /\ Goto(r, "cancelWait") /\ Answer(r, "cancelled")
     \/ /\ now <= Deadline(r)
        /\ Goto(r, "poll") /\ UNCHANGED verdict
  /\ UNCHANGED <<now, stamp, gone, store, count>>

CancelWait(r) ==
  /\ pc[r] = "cancelWait"
  /\ ReleasePipeline(r, 3)
  /\ Goto(r, "release")
  /\ UNCHANGED <<now, stamp, verdict, gone, count>>

\* Quota.Consume and next.ServeHTTP, whatever they answer.
Serve(r) ==
  /\ pc[r] = "run"
  /\ Goto(r, "release")
  /\ UNCHANGED <<now, stamp, verdict, gone, store, count>>

\* The deferred Release of Wrap.
Release(r) ==
  /\ pc[r] = "release"
  /\ ReleasePipeline(r, 3)
  /\ Goto(r, "done")
  /\ UNCHANGED <<now, stamp, verdict, gone, count>>

-----------------------------------------------------------------------------
(* The environment.                                                        *)

\* net/http notices a lost client once the body has been read.
Disconnect(r) ==
  /\ pc[r] \in {"poll", "rest"} /\ r \notin gone
  /\ gone' = gone \cup {r}
  /\ UNCHANGED <<now, pc, stamp, verdict, store, count>>

\* What the command issued at each place does to Redis.
Command(r) ==
  \/ pc[r] = "setnx" /\ SetIdentity(r)
  \/ pc[r] = "zadd" /\ AddToQueue(r)
  \/ /\ pc[r] = "try" \/ (pc[r] = "poll" /\ r \notin gone)
     /\ \E gate \in {"acquired", "timedOut", "missing", "waiting"} :
          TryAcquire(r, gate)
  \/ pc[r] = "giveUp" /\ DelIdentity(r)
  \/ /\ pc[r] \in {"cancelEnter", "cancelWait", "release"}
     /\ \E n \in 1..3 : ReleasePipeline(r, n)

\* Where the code goes when the command issued at a place returns an error.
AfterError == [setnx |-> "done", zcard |-> "giveUp", zadd |-> "giveUp",
               try |-> "cancelEnter", poll |-> "release", giveUp |-> "done",
               cancelEnter |-> "done", cancelWait |-> "release",
               release |-> "done"]

\* A lost connection or a timeout: the command may have reached Redis or not.
\* The client library sends it again (the place stays), or the code sees the
\* error.  Errors of DEL and of the Release pipeline are ignored.
RedisFault(r) ==
  /\ faults < MaxFaults /\ pc[r] \in DOMAIN AfterError
  /\ \/ Command(r) /\ UNCHANGED <<pc, verdict>>
     \/ /\ Command(r) \/ UNCHANGED store
        /\ Goto(r, AfterError[pc[r]])
        /\ \/ /\ pc[r] \in {"setnx", "zcard", "zadd", "try"}
              /\ Answer(r, "quota_storage")
           \/ pc[r] = "poll" /\ Answer(r, "queue_timeout")
           \/ /\ pc[r] \in {"giveUp", "cancelEnter", "cancelWait", "release"}
              /\ UNCHANGED verdict
  /\ faults' = faults + 1
  /\ UNCHANGED <<now, stamp, gone, crashes>>

\* A backend process dies with every request it serves; Redis keeps its state.
Crash(i) ==
  /\ crashes < MaxCrashes
  /\ \E r \in Live : Instance[r] = i
  /\ pc' = [r \in Requests |->
              IF r \in Live /\ Instance[r] = i THEN "dead" ELSE pc[r]]
  /\ crashes' = crashes + 1
  /\ UNCHANGED <<now, stamp, verdict, gone, store, faults>>

\* When a request must have moved on: the code's own timeouts.
Due(r) == IF granted[r] # Absent THEN granted[r] + HoldMax
                                 ELSE stamp[r] + EntryMax

Tick ==
  /\ now < MaxClock
  /\ \A r \in Live : now < Due(r)
  /\ now' = now + 1
  /\ UNCHANGED <<pc, stamp, verdict, gone, store, count>>

Step(r) ==
  \/ ClaimIdentity(r) \/ CheckRoom(r) \/ GiveUp(r) \/ Join(r)
  \/ FirstAttempt(r) \/ CancelEnter(r) \/ ReadBody(r) \/ Poll(r) \/ Rest(r)
  \/ CancelWait(r) \/ Serve(r) \/ Release(r)

Next ==
  \/ \E r \in Requests : Arrive(r) \/ Step(r) \/ Disconnect(r) \/ RedisFault(r)
  \/ \E i \in Instances : Crash(i)
  \/ Tick

Spec == Init /\ [][Next]_vars

\* The Go runtime schedules every request, and time passes.  Nothing makes a
\* visitor arrive or leave, or a fault happen.
FairSpec == Spec /\ WF_vars(Tick) /\ \A r \in Requests : WF_vars(Step(r))

-----------------------------------------------------------------------------
(* What the gate promises.                                                 *)

\* Every variable keeps its kind of value.
TypeOK ==
  /\ now \in Nat
  /\ pc \in [Requests -> Places]
  /\ stamp \in [Requests -> Nat]
  /\ granted \in [Requests -> Nat]
  /\ verdict \in [Requests -> Verdicts]
  /\ gone \in SUBSET Requests
  /\ identityKey \in [Sources -> Nat]
  /\ queue \in SUBSET Requests
  /\ active \in [Requests -> Nat]
  /\ faults \in Nat /\ crashes \in Nat

\* At most CHATMaxConcurrent requests read their body with a slot or run the
\* chat handler, over all instances: a lease outlives the work it covers, and
\* neither a lost reply, a crash nor another request's Release ends it early
\* (middleware.go Wrap, the Lua script of distributed_limiter.go).
ExecutionBound == Cardinality(Executing) <= CHATMaxConcurrent

\* A request is never granted a slot while one that entered strictly earlier
\* stands in the waiting room, whatever the order in which their ZADDs and
\* their polls reached Redis (the FIFO check of the Lua script).
NoOvertaking ==
  [][\A r \in Requests : granted'[r] # granted[r] =>
       \A m \in queue : stamp[r] <= stamp[m]]_vars

\* Codes after which Enter or Wait has already run Cancel.
CancelCodes == {"queue_timeout", "cancelled", "quota_storage"}

\* As long as no request of a source ended by a Cancel and no Redis command
\* failed, the identity key admits one request of that source at a time,
\* crashes included: it neither expires under its holder nor is deleted by
\* another request's path through Enter and Release.
ExclusiveUntilCancelled ==
  \A r, m \in Ticketed :
    Source[r] = Source[m] /\ r # m =>
      \/ faults > 0
      \/ \E q \in Requests : Source[q] = Source[r] /\ verdict[q] \in CancelCodes

\* Without faults and crashes a request that has been answered is in neither
\* sorted set, and an identity key that still exists belongs to a request in
\* service: every return path of Enter, Wait and Wrap cleans up.
NothingLeftBehind ==
  faults = 0 /\ crashes = 0 =>
    /\ queue \cup Slots \subseteq Ticketed
    /\ \A s \in Sources : KeyExists(s) => \E r \in Ticketed : Source[r] = s

\* What Redis holds of the gate is sound: slots are bounded whatever fails, and
\* without a failure nothing stays behind (Enter, Wait, Release, Cancel).
GateSound == TypeOK /\ ExecutionBound /\ NothingLeftBehind

\* Without faults the script turns a request away at its deadline only if
\* every slot is taken or a request in service stands before it.
\* deployment/agent-protection.md: "Normal visitors wait briefly when all
\* model slots are occupied".
WaitsOnlyWhenOccupied ==
  [][\A r \in queue \ queue' :
       pc[r] \in {"try", "poll"} /\ granted'[r] = granted[r] /\ faults' = 0 =>
         \/ Cardinality(SlotsAfterPurge) = CHATMaxConcurrent
         \/ \E m \in queue \cap Ticketed : Before(m, r)]_vars

\* The line is kept, at its head and at its end: slots go to the earliest, and
\* nobody is turned away beside a free one.  After a crash the second half fails:
\* the member a dead process left at the head of the line holds everybody up
\* until their own deadline.
LineKept == NoOvertaking /\ WaitsOnlyWhenOccupied

\* A request whose slot is not given back yet and whose lease is not over.
SlotHeld(m) == granted[m] # Absent /\ now < granted[m] + Lease /\ pc[m] # "done"

\* The slot of a request that died comes back when its lease ends: without faults,
\* whoever is turned away at its deadline has somebody before it in the waiting
\* set, or finds every slot held by a request that is not done, dead perhaps, and
\* was granted it less than a lease ago (ZREMRANGEBYSCORE at the head of the script).
SlotsComeBack ==
  [][\A r \in queue \ queue' :
       pc[r] \in {"try", "poll"} /\ active'[r] = Absent /\ faults' = 0 =>
         \/ Cardinality({m \in Requests : SlotHeld(m)}) >= CHATMaxConcurrent
         \/ \E m \in queue : Before(m, r)]_vars

\* What a dead process leaves in Redis neither lets a second request of its source
\* in too early nor keeps a slot for ever.
CrashSurvived == []ExclusiveUntilCancelled /\ SlotsComeBack

\* Every request that enters is answered: the head of the waiting room may be
\* slow, silent or cancelled, those behind it still leave at their deadline.
Settles == \A r \in Requests : pc[r] = "setnx" ~> pc[r] \in {"done", "dead"}

\* Where a request stands in front of the gate this limiter implements: before
\* its verdict it waits, with a slot it executes, and it has left once it has a
\* verdict or has finished.
Place(r) ==
  CASE pc[r] = "idle" -> "outside"
    [] pc[r] \in {"setnx", "zcard", "zadd", "try", "readQueued", "poll", "rest"}
         -> "waiting"
    [] pc[r] \in {"read", "run"} -> "executing"
    [] OTHER -> "left"

Gate == INSTANCE AdmissionGate WITH
  MaxExecuting <- CHATMaxConcurrent,
  place <- [r \in Requests |-> Place(r)]

\* The limiter over Redis, with its lost replies and crashes, is an admission
\* gate: at each grant fewer than CHATMaxConcurrent requests execute.
GateSpec == Gate!Spec

\* Requests that are executing or waiting.
InService ==
  {r \in Requests : pc[r] \in {"readQueued", "poll", "rest", "read", "run"}}

\* deployment/agent-protection.md: "One active or waiting request per source".
OnePerSource ==
  \A r, m \in InService : Source[r] = Source[m] => r = m
=============================================================================
