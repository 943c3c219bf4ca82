---------------------------- MODULE RuntimeManager ----------------------------
(***************************************************************************)
(* The runtimes of the chat turns (backend-go/internal/agent/manager.go),  *)
(* with what meets them: the admission slot a turn holds while its handler *)
(* runs, the Start and Close of the harness client (internal/harness/      *)
(* client.go), and the end of the process (cmd/neko-backend/main.go).      *)
(*                                                                         *)
(* A section under the manager's or the client's mutex is one step.  A     *)
(* turn has a handler and a worker; for a turn that is not streamed the    *)
(* handler does the worker's steps itself.                                 *)
(***************************************************************************)
EXTENDS Naturals, FiniteSets

CONSTANTS
  Turns,             \* chat turns
  Streamed,          \* those answered by Stream, the others by GenerateReply
  CHATMaxConcurrent  \* admission slots, and leases of the manager

ASSUME ConstantsAssumption ==
  /\ IsFiniteSet(Turns) /\ Streamed \subseteq Turns
  /\ CHATMaxConcurrent \in Nat \ {0}

VARIABLES
  handler,   \* where the handler of a turn is; it holds a slot in "running"
  worker,    \* where the worker of a turn is
  refusal,   \* why the manager gave the turn no lease, or "none"
  leases,    \* Manager.leases, by turn
  closing,   \* Manager.closing
  failure,   \* Manager.failure
  patches,   \* the files of Manager.prepared: "none", "ready" or "removed"
  closed,    \* Client.closed
  recorded,  \* Client.cmd is set
  child,     \* the dsh process of a turn: "none", "running" or "dead"
  closer,    \* Lease.once: "none", who runs it ("worker", "main"), or "over"
  reaping,   \* Close has found a process and waits for its end
  main,      \* where main is
  toClose    \* the leases Shutdown has still to close

turn == <<handler, worker, refusal>>
manager == <<leases, closing, failure, patches>>
client == <<closed, recorded, child, closer, reaping>>
vars == <<turn, manager, client, main, toClose>>

Init ==
  /\ handler = [t \in Turns |-> "idle"] /\ worker = [t \in Turns |-> "idle"]
  /\ refusal = [t \in Turns |-> "none"]
  /\ leases = {} /\ closing = FALSE /\ failure = FALSE /\ patches = "none"
  /\ closed = [t \in Turns |-> FALSE] /\ recorded = [t \in Turns |-> FALSE]
  /\ child = [t \in Turns |-> "none"]
  /\ closer = [t \in Turns |-> "none"] /\ reaping = [t \in Turns |-> FALSE]
  /\ main = "serving" /\ toClose = {}

Alive == main # "exited"

Go(t, stage) == worker' = [worker EXCEPT ![t] = stage]

-----------------------------------------------------------------------------
(* Manager *)

\* Prepare, as it leaves the manager: nothing to do, refused, failed for good,
\* or the files written.
Prepare ==
  \/ /\ (patches # "none" \/ failure \/ closing)
     /\ UNCHANGED <<failure, patches>>
  \/ /\ patches = "none" /\ ~failure /\ ~closing
     /\ \/ /\ failure' = TRUE /\ UNCHANGED patches
        \/ /\ patches' = "ready" /\ UNCHANGED failure

\* Slip: the files go with Shutdown, whoever still uses them.
RemovePatchesNow(remaining) ==
  patches' = IF closing /\ patches = "ready" THEN "removed" ELSE patches

\* The files go when Shutdown has begun and the last lease is back.
RemovePatches(remaining) ==
  patches' = IF closing /\ remaining = {} /\ patches = "ready" THEN "removed" ELSE patches

\* main prepares in a goroutine of its own.
Initialize ==
  /\ Alive /\ Prepare
  /\ UNCHANGED <<turn, leases, closing, client, main, toClose>>

-----------------------------------------------------------------------------
(* A turn *)

\* The gate has let the turn through (AdmissionGate), and CheckConfiguration
\* passes.
Running == {t \in Turns : handler[t] = "running"}

Admit(t) ==
  /\ main = "serving" /\ ~failure /\ handler[t] = "idle"
  /\ Cardinality(Running) < CHATMaxConcurrent
  /\ handler' = [handler EXCEPT ![t] = "running"]
  /\ Go(t, "preparing")
  /\ UNCHANGED <<refusal, manager, client, main, toClose>>

\* Acquire: its Prepare, then its own section.
PrepareTurn(t) ==
  /\ Alive /\ worker[t] = "preparing"
  /\ Prepare
  /\ Go(t, IF patches' = "none" THEN "done" ELSE "acquiring")
  /\ UNCHANGED <<handler, refusal, leases, closing, client, main, toClose>>

\* Slip: Shutdown is not looked at.
AcquireAlways(t) ==
  /\ Alive /\ worker[t] = "acquiring"
  /\ IF Cardinality(leases) >= CHATMaxConcurrent
     THEN /\ refusal' = [refusal EXCEPT ![t] = "concurrency"]
          /\ Go(t, "done") /\ UNCHANGED leases
     ELSE /\ leases' = leases \cup {t}
          /\ Go(t, "starting") /\ UNCHANGED refusal
  /\ UNCHANGED <<handler, closing, failure, patches, client, main, toClose>>

\* Slip: refusals carry no code.
AcquireUncoded(t) ==
  /\ Alive /\ worker[t] = "acquiring"
  /\ IF closing \/ failure \/ Cardinality(leases) >= CHATMaxConcurrent
     THEN /\ refusal' = [refusal EXCEPT ![t] = ""]
          /\ Go(t, "done") /\ UNCHANGED leases
     ELSE /\ leases' = leases \cup {t}
          /\ Go(t, "starting") /\ UNCHANGED refusal
  /\ UNCHANGED <<handler, closing, failure, patches, client, main, toClose>>

Acquire(t) ==
  /\ Alive /\ worker[t] = "acquiring"
  /\ \/ /\ (closing \/ failure)
        /\ refusal' = [refusal EXCEPT ![t] = "runtime_closed"]
        /\ Go(t, "done") /\ UNCHANGED leases
     \/ /\ ~closing /\ ~failure /\ Cardinality(leases) >= CHATMaxConcurrent
        /\ refusal' = [refusal EXCEPT ![t] = "concurrency"]
        /\ Go(t, "done") /\ UNCHANGED leases
     \/ /\ ~closing /\ ~failure /\ Cardinality(leases) < CHATMaxConcurrent
        /\ leases' = leases \cup {t}
        /\ Go(t, "starting") /\ UNCHANGED refusal
  /\ UNCHANGED <<handler, closing, failure, patches, client, main, toClose>>

\* Client.Start: the first look at closed, the start of the process, and the
\* second look, which undoes it.
Start(t) ==
  /\ Alive /\ worker[t] = "starting"
  /\ Go(t, IF closed[t] THEN "leaving" ELSE "spawning")
  /\ UNCHANGED <<handler, refusal, manager, client, main, toClose>>

Spawn(t) ==
  /\ Alive /\ worker[t] = "spawning"
  /\ \/ /\ child' = [child EXCEPT ![t] = "running"] /\ Go(t, "recording")
     \/ /\ UNCHANGED child /\ Go(t, "leaving")
  /\ UNCHANGED <<handler, refusal, manager, closed, recorded, closer, reaping, main, toClose>>

\* Slip: no second look.
RecordBlindly(t) ==
  /\ Alive /\ worker[t] = "recording"
  /\ recorded' = [recorded EXCEPT ![t] = TRUE] /\ Go(t, "running")
  /\ UNCHANGED <<handler, refusal, manager, closed, child, closer, reaping, main, toClose>>

Record(t) ==
  /\ Alive /\ worker[t] = "recording"
  /\ IF closed[t]
     THEN child' = [child EXCEPT ![t] = "dead"] /\ Go(t, "leaving") /\ UNCHANGED recorded
     ELSE recorded' = [recorded EXCEPT ![t] = TRUE] /\ Go(t, "running") /\ UNCHANGED child
  /\ UNCHANGED <<handler, refusal, manager, closed, closer, reaping, main, toClose>>

\* Slip: a run ends only with its process.
RunEndsByClose(t) ==
  /\ Alive /\ worker[t] = "running" /\ closed[t]
  /\ Go(t, "leaving")
  /\ UNCHANGED <<handler, refusal, manager, client, main, toClose>>

\* Initialize and Run: a reply, an error, the deadline, a cancelled context or
\* the end of the process.  An Initialize that fails closes the client itself:
\* the client part of the Close that follows.
RunEnds(t) ==
  /\ Alive /\ worker[t] = "running"
  /\ Go(t, "leaving")
  /\ UNCHANGED <<handler, refusal, manager, client, main, toClose>>

-----------------------------------------------------------------------------
(* Lease.Close, by the worker or by Shutdown; the other one waits for it *)

BeginClose(t, who) ==
  /\ closer[t] = "none"
  /\ closer' = [closer EXCEPT ![t] = who]
  /\ closed' = [closed EXCEPT ![t] = TRUE]
  /\ reaping' = [reaping EXCEPT ![t] = recorded[t]]
  /\ UNCHANGED <<recorded, child>>

\* The shutdown request, the closed stdin, SIGTERM, SIGKILL: one of them ends
\* the process.
Reap(t) ==
  /\ Alive /\ reaping[t]
  /\ child' = [child EXCEPT ![t] = "dead"]
  /\ reaping' = [reaping EXCEPT ![t] = FALSE]
  /\ UNCHANGED <<turn, manager, closed, recorded, closer, main, toClose>>

\* Slip: the lease is given back before its process has ended.
ReleaseEarly(t) ==
  /\ Alive /\ closer[t] \in {"worker", "main"}
  /\ closer' = [closer EXCEPT ![t] = "over"]
  /\ leases' = leases \ {t}
  /\ RemovePatches(leases \ {t})
  /\ UNCHANGED <<turn, closing, failure, closed, recorded, child, reaping, main, toClose>>

\* Slip: Shutdown keeps the manager's mutex while it closes the leases.
ReleaseLocked(t) ==
  /\ Alive /\ closer[t] \in {"worker", "main"} /\ ~reaping[t]
  /\ main # "closing"
  /\ closer' = [closer EXCEPT ![t] = "over"]
  /\ leases' = leases \ {t}
  /\ RemovePatches(leases \ {t})
  /\ UNCHANGED <<turn, closing, failure, closed, recorded, child, reaping, main, toClose>>

Release(t) ==
  /\ Alive /\ closer[t] \in {"worker", "main"} /\ ~reaping[t]
  /\ closer' = [closer EXCEPT ![t] = "over"]
  /\ leases' = leases \ {t}
  /\ RemovePatches(leases \ {t})
  /\ UNCHANGED <<turn, closing, failure, closed, recorded, child, reaping, main, toClose>>

CloseLease(t) ==
  /\ Alive /\ worker[t] = "leaving"
  /\ BeginClose(t, "worker")
  /\ UNCHANGED <<turn, manager, main, toClose>>

WorkerDone(t) ==
  /\ Alive /\ worker[t] = "leaving" /\ closer[t] = "over"
  /\ Go(t, "done")
  /\ UNCHANGED <<handler, refusal, manager, client, main, toClose>>

\* The handler returns and gives its slot back: when the worker is done, or, if
\* the turn is streamed, when the cleanup timeout has passed.
Return(t) ==
  /\ Alive /\ handler[t] = "running" /\ worker[t] = "done"
  /\ handler' = [handler EXCEPT ![t] = "returned"]
  /\ UNCHANGED <<worker, refusal, manager, client, main, toClose>>

CleanupTimeout(t) ==
  /\ Alive /\ handler[t] = "running" /\ t \in Streamed
  /\ handler' = [handler EXCEPT ![t] = "returned"]
  /\ UNCHANGED <<worker, refusal, manager, client, main, toClose>>

-----------------------------------------------------------------------------
(* main: ListenAndServe returns as soon as Shutdown is called on the server *)

StopServing ==
  /\ main = "serving"
  /\ main' = "closing"
  /\ closing' = TRUE /\ toClose' = leases
  /\ UNCHANGED <<turn, leases, failure, patches, client>>

\* One lease of the snapshot after the other.
ShutdownClose(t) ==
  /\ main = "closing" /\ t \in toClose
  /\ \A u \in toClose : closer[u] # "main"
  /\ BeginClose(t, "main")
  /\ UNCHANGED <<turn, manager, main, toClose>>

ShutdownNext(t) ==
  /\ main = "closing" /\ t \in toClose /\ closer[t] = "over"
  /\ toClose' = toClose \ {t}
  /\ UNCHANGED <<turn, manager, client, main>>

ShutdownRemove ==
  /\ main = "closing" /\ toClose = {}
  /\ RemovePatches(leases)
  /\ main' = "exiting"
  /\ UNCHANGED <<turn, leases, closing, failure, client, toClose>>

Exit ==
  /\ main = "exiting"
  /\ main' = "exited"
  /\ UNCHANGED <<turn, manager, client, toClose>>

TurnStep(t) ==
  \/ PrepareTurn(t) \/ Acquire(t) \/ Start(t) \/ Spawn(t) \/ Record(t) \/ RunEnds(t)
  \/ CloseLease(t) \/ Reap(t) \/ Release(t) \/ WorkerDone(t) \/ Return(t)

MainStep ==
  \/ \E t \in Turns : ShutdownClose(t) \/ ShutdownNext(t)
  \/ ShutdownRemove \/ Exit

Next ==
  \/ \E t \in Turns : Admit(t) \/ TurnStep(t) \/ CleanupTimeout(t)
  \/ Initialize \/ StopServing \/ MainStep

Spec == Init /\ [][Next]_vars

\* Goroutines run, a run ends by its deadline, and SIGKILL ends a process.
Fairness == WF_vars(MainStep) /\ \A t \in Turns : WF_vars(TurnStep(t))

FairSpec == Spec /\ Fairness

-----------------------------------------------------------------------------
\* Every variable keeps its kind of value.
TypeOK ==
  /\ handler \in [Turns -> {"idle", "running", "returned"}]
  /\ worker \in [Turns -> {"idle", "preparing", "acquiring", "starting", "spawning",
                           "recording", "running", "leaving", "done"}]
  /\ refusal \in [Turns -> {"none", "runtime_closed", "concurrency"}]
  /\ leases \in SUBSET Turns
  /\ closing \in BOOLEAN /\ failure \in BOOLEAN
  /\ patches \in {"none", "ready", "removed"}
  /\ closed \in [Turns -> BOOLEAN] /\ recorded \in [Turns -> BOOLEAN]
  /\ child \in [Turns -> {"none", "running", "dead"}]
  /\ closer \in [Turns -> {"none", "worker", "main", "over"}]
  /\ reaping \in [Turns -> BOOLEAN]
  /\ main \in {"serving", "closing", "exiting", "exited"}
  /\ toClose \in SUBSET Turns

\* At most CHATMaxConcurrent agents run, leases of handlers that gave up waiting
\* and the race of a Start with Shutdown included: a slot of the manager is not
\* given to another turn before the process that used it has ended.
ChildrenBounded == Cardinality({t \in Turns : child[t] = "running"}) <= CHATMaxConcurrent

\* No process outlives its worker, even when Shutdown closes the client between
\* the first look of Start and the start of the process.
ChildEndsWithWorker == \A t \in Turns : worker[t] = "done" => child[t] # "running"

\* A running agent has its files: they are not removed under a turn that nobody
\* has closed.
RunsWithPatches ==
  \A t \in Turns : worker[t] = "running" /\ ~closed[t] => patches = "ready"

\* backend-go/README.md: the patch files are removed on graceful shutdown.  None
\* is left when the process exits, nor written later.
PatchesRemoved == main \in {"exiting", "exited"} => patches # "ready"

\* The manager keeps count of its agents and of their files, whatever the order
\* of Start, Lease.Close and Shutdown.
RuntimeSound ==
  /\ TypeOK /\ ChildrenBounded /\ ChildEndsWithWorker
  /\ RunsWithPatches /\ PatchesRemoved

\* The end of main: Shutdown waits for leases the workers are closing, and they
\* for those Shutdown is closing, and nobody for ever.
ShutdownEnds == main # "serving" ~> main = "exited"

\* Every turn that was admitted ends, unless the process does first.
TurnsEnd ==
  \A t \in Turns : handler[t] = "running" ~>
    \/ handler[t] = "returned" /\ worker[t] = "done"
    \/ main = "exited"

\* deployment/agent-protection.md: visitors wait while the slots are occupied.
\* A turn the gate let through finds the runtime it waited for.  It fails: see
\* the observations in the project's README.
AdmittedGetsRuntime == \A t \in Turns : refusal[t] # "concurrency"

\* README.md: the backend's control plane shuts its processes down; none is left
\* behind when it exits.  It fails: see the same observations.
NoOrphan == main = "exited" => \A t \in Turns : child[t] # "running"
=============================================================================
