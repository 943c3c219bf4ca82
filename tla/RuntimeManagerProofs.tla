------------------------- MODULE RuntimeManagerProofs -------------------------
(***************************************************************************)
(* Proofs about RuntimeManager, for every number of turns and of slots.    *)
(***************************************************************************)
EXTENDS RuntimeManager, FiniteSetTheorems, TLAPS

USE ConstantsAssumption DEF ConstantsAssumption

LEMMA TypeInit == Init => TypeOK
  BY DEF Init, TypeOK

LEMMA TypeNext == TypeOK /\ [Next]_vars => TypeOK'
  <1> SUFFICES ASSUME TypeOK, [Next]_vars PROVE TypeOK'
    OBVIOUS
  <1> USE DEF TypeOK, turn, manager, client, Go
  <1>1. ASSUME NEW t \in Turns, Admit(t) PROVE TypeOK'
    BY <1>1 DEF Admit
  <1>2. ASSUME NEW t \in Turns, PrepareTurn(t) PROVE TypeOK'
    BY <1>2 DEF PrepareTurn, Prepare
  <1>3. ASSUME NEW t \in Turns, Acquire(t) PROVE TypeOK'
    BY <1>3 DEF Acquire
  <1>4. ASSUME NEW t \in Turns, Start(t) PROVE TypeOK'
    BY <1>4 DEF Start
  <1>5. ASSUME NEW t \in Turns, Spawn(t) PROVE TypeOK'
    BY <1>5 DEF Spawn
  <1>6. ASSUME NEW t \in Turns, Record(t) PROVE TypeOK'
    BY <1>6 DEF Record
  <1>7. ASSUME NEW t \in Turns, RunEnds(t) PROVE TypeOK'
    BY <1>7 DEF RunEnds
  <1>8. ASSUME NEW t \in Turns, CloseLease(t) PROVE TypeOK'
    BY <1>8 DEF CloseLease, BeginClose
  <1>9. ASSUME NEW t \in Turns, Reap(t) PROVE TypeOK'
    BY <1>9 DEF Reap
  <1>10. ASSUME NEW t \in Turns, Release(t) PROVE TypeOK'
    BY <1>10 DEF Release, RemovePatches
  <1>11. ASSUME NEW t \in Turns, WorkerDone(t) PROVE TypeOK'
    BY <1>11 DEF WorkerDone
  <1>12. ASSUME NEW t \in Turns, Return(t) PROVE TypeOK'
    BY <1>12 DEF Return
  <1>13. ASSUME NEW t \in Turns, CleanupTimeout(t) PROVE TypeOK'
    BY <1>13 DEF CleanupTimeout
  <1>14. ASSUME NEW t \in Turns, ShutdownClose(t) PROVE TypeOK'
    BY <1>14 DEF ShutdownClose, BeginClose
  <1>15. ASSUME NEW t \in Turns, ShutdownNext(t) PROVE TypeOK'
    BY <1>15 DEF ShutdownNext
  <1>16. CASE Initialize
    BY <1>16 DEF Initialize, Prepare
  <1>17. CASE StopServing
    BY <1>17 DEF StopServing
  <1>18. CASE ShutdownRemove
    BY <1>18 DEF ShutdownRemove, RemovePatches
  <1>19. CASE Exit
    BY <1>19 DEF Exit
  <1>20. CASE UNCHANGED vars
    BY <1>20 DEF vars
  <1> QED
    BY <1>1, <1>2, <1>3, <1>4, <1>5, <1>6, <1>7, <1>8, <1>9, <1>10,
       <1>11, <1>12, <1>13, <1>14, <1>15, <1>16, <1>17, <1>18, <1>19, <1>20
    DEF Next, TurnStep, MainStep

\* Type correctness, for every set of turns.
THEOREM TypeCorrect == Spec => []TypeOK
  BY TypeInit, TypeNext, PTL DEF Spec

-----------------------------------------------------------------------------
(* Children, leases and Shutdown *)

\* The stages of Client.Start: a process may appear although nobody sees it yet.
Early == {"starting", "spawning", "recording"}

\* The turns that have a lease, or are still in a Start that began with one.
Claims == leases \cup {t \in Turns : worker[t] \in Early}

\* A turn by the stage of its worker.
StageInv == \A t \in Turns :
  /\ handler[t] = "idle" => worker[t] = "idle"
  /\ worker[t] \in {"idle", "preparing", "acquiring"} =>
       /\ t \notin leases /\ t \notin toClose /\ closer[t] = "none"
       /\ child[t] = "none" /\ ~recorded[t]
  /\ worker[t] \in {"starting", "spawning"} => child[t] = "none"
  /\ worker[t] = "recording" => child[t] = "running"
  /\ worker[t] \in Early => ~recorded[t]
  /\ worker[t] \in Early \cup {"running", "leaving"} =>
       closer[t] = "over" \/ t \in leases
  /\ worker[t] = "done" => t \notin leases /\ child[t] # "running"
  /\ t \in leases => closer[t] # "over"

\* A running process is known to the client or its Start is not over, and it
\* is reaped before its lease is given back.
ChildInv == \A t \in Turns :
  /\ child[t] = "running" => worker[t] = "recording" \/ recorded[t]
  /\ recorded[t] /\ child[t] = "running" =>
       t \in leases /\ (closer[t] = "none" \/ reaping[t])
  /\ closer[t] = "none" <=> ~closed[t]
  /\ reaping[t] => closer[t] # "none" /\ recorded[t]
  /\ closer[t] = "worker" => worker[t] = "leaving"
  /\ closer[t] = "main" => main = "closing" /\ t \in toClose

\* Until Shutdown begins, only a turn itself gives back its lease.
ShutdownInv ==
  /\ closing <=> main # "serving"
  /\ ~closing => \A t \in Turns : worker[t] \in Early => t \in leases
  /\ closing => leases \subseteq toClose
  /\ main \in {"exiting", "exited"} => toClose = {}

\* The files are there for whoever has a lease, and gone when main has ended.
FilesInv ==
  /\ \A t \in Turns : worker[t] = "acquiring" => patches # "none"
  /\ leases # {} => patches = "ready"
  /\ patches = "removed" => closing
  /\ PatchesRemoved

SlotsInv == Cardinality(Claims) <= CHATMaxConcurrent

Inv == TypeOK /\ StageInv /\ ChildInv /\ ShutdownInv /\ FilesInv /\ SlotsInv

LEMMA InvInit == Init => Inv
  <1> SUFFICES ASSUME Init PROVE Inv
    OBVIOUS
  <1>1. Claims = {}
    BY DEF Init, Claims, Early
  <1>2. SlotsInv
    BY <1>1, FS_EmptySet DEF SlotsInv
  <1> QED
    BY <1>2, TypeInit DEF Init, Inv, StageInv, ChildInv, ShutdownInv, FilesInv,
                          PatchesRemoved, Early

LEMMA ClaimsFinite == TypeOK => IsFiniteSet(Claims) /\ IsFiniteSet(leases)
  BY FS_Subset DEF TypeOK, Claims

\* A step that gives no lease keeps the claims within the slots.
LEMMA SlotsKept ==
  ASSUME TypeOK, SlotsInv, leases' \subseteq leases,
         \A t \in Turns : worker'[t] \in Early => worker[t] \in Early
  PROVE  SlotsInv'
  <1>1. Claims' \subseteq Claims
    BY DEF Claims
  <1>2. Cardinality(Claims') \in Nat /\ Cardinality(Claims) \in Nat
        /\ Cardinality(Claims') <= Cardinality(Claims)
    BY <1>1, ClaimsFinite, FS_Subset, FS_CardinalityType
  <1> QED BY <1>2 DEF SlotsInv

LEMMA InvNext == Inv /\ [Next]_vars => Inv'
  <1> SUFFICES ASSUME Inv, [Next]_vars PROVE Inv'
    OBVIOUS
  <1>0. TypeOK'
    BY TypeNext DEF Inv
  <1> USE DEF Inv, turn, manager, client, Go
  <1>1. ASSUME NEW t \in Turns, Admit(t) PROVE Inv'
    <2>1. StageInv'
      BY <1>1, <1>0 DEF Admit, TypeOK, StageInv, ChildInv, Early
    <2>2. ChildInv'
      BY <1>1, <1>0 DEF Admit, TypeOK, StageInv, ChildInv, Early
    <2>3. ShutdownInv'
      BY <1>1, <1>0 DEF Admit, TypeOK, StageInv, ChildInv, ShutdownInv, Early
    <2>4. FilesInv'
      BY <1>1, <1>0 DEF Admit, TypeOK, StageInv, ShutdownInv, FilesInv, PatchesRemoved
    <2>5. SlotsInv'
      BY <1>1, <1>0, SlotsKept DEF Admit, TypeOK, Early
    <2> QED BY <1>0, <2>1, <2>2, <2>3, <2>4, <2>5
  <1>2. ASSUME NEW t \in Turns, PrepareTurn(t) PROVE Inv'
    <2>1. StageInv'
      BY <1>2, <1>0 DEF PrepareTurn, Prepare, TypeOK, StageInv, ChildInv, Early
    <2>2. ChildInv'
      BY <1>2, <1>0 DEF PrepareTurn, Prepare, TypeOK, StageInv, ChildInv, Early
    <2>a. \E stage \in {"done", "acquiring"} :
            /\ stage = "acquiring" => patches' # "none"
            /\ worker' = [worker EXCEPT ![t] = stage]
      BY <1>2 DEF PrepareTurn
    <2>b. UNCHANGED <<leases, closing, main, toClose>>
      BY <1>2 DEF PrepareTurn
    <2>c. \A u \in Turns : worker'[u] \in Early => worker[u] \in Early
      BY <2>a DEF TypeOK, Early
    <2>d. patches' = patches \/ (patches = "none" /\ patches' = "ready" /\ ~closing)
      BY <1>2 DEF PrepareTurn, Prepare
    <2>3. ShutdownInv'
      BY <2>b, <2>c DEF ShutdownInv
    <2>4. FilesInv'
      <3>1. \A u \in Turns : worker'[u] = "acquiring" => patches' # "none"
        BY <2>a, <2>d DEF TypeOK, FilesInv
      <3>2. /\ leases' # {} => patches' = "ready"
            /\ patches' = "removed" => closing'
        BY <2>b, <2>d DEF FilesInv
      <3>3. PatchesRemoved'
        BY <2>b, <2>d DEF FilesInv, ShutdownInv, PatchesRemoved
      <3> QED BY <3>1, <3>2, <3>3 DEF FilesInv
    <2>5. SlotsInv'
      BY <1>2, <1>0, SlotsKept DEF PrepareTurn, Prepare, TypeOK, Early
    <2> QED BY <1>0, <2>1, <2>2, <2>3, <2>4, <2>5
  <1>3. ASSUME NEW t \in Turns, Acquire(t) PROVE Inv'
    <2>1. StageInv'
      BY <1>3, <1>0 DEF Acquire, TypeOK, StageInv, ChildInv, Early
    <2>2. ChildInv'
      BY <1>3, <1>0 DEF Acquire, TypeOK, StageInv, ChildInv, Early
    <2>3. ShutdownInv'
      BY <1>3, <1>0 DEF Acquire, TypeOK, StageInv, ChildInv, ShutdownInv, Early
    <2>4. FilesInv'
      BY <1>3, <1>0 DEF Acquire, TypeOK, StageInv, ShutdownInv, FilesInv, PatchesRemoved
    <2>5. SlotsInv'
      <3>1. CASE leases' = leases /\ worker' = [worker EXCEPT ![t] = "done"]
        BY <3>1, SlotsKept DEF TypeOK, Early
      <3>2. CASE ~closing /\ Cardinality(leases) < CHATMaxConcurrent
                   /\ leases' = leases \cup {t} /\ worker' = [worker EXCEPT ![t] = "starting"]
        <4>1. Claims' \subseteq leases \cup {t}
          <5>1. \A u \in Turns : worker[u] \in Early => u \in leases
            BY <3>2 DEF ShutdownInv
          <5>2. \A u \in Turns \ {t} : worker'[u] = worker[u]
            BY <3>2 DEF TypeOK
          <5> QED BY <5>1, <5>2, <3>2 DEF Claims
        <4>2. /\ IsFiniteSet(leases \cup {t})
              /\ Cardinality(leases \cup {t}) \in Nat /\ Cardinality(leases) \in Nat
              /\ Cardinality(leases \cup {t}) <= Cardinality(leases) + 1
          <5>1. IsFiniteSet(leases)
            BY ClaimsFinite
          <5>2. /\ IsFiniteSet(leases \cup {t})
                /\ \/ Cardinality(leases \cup {t}) = Cardinality(leases)
                   \/ Cardinality(leases \cup {t}) = Cardinality(leases) + 1
            BY <5>1, FS_AddElement
          <5>3. Cardinality(leases \cup {t}) \in Nat /\ Cardinality(leases) \in Nat
            BY <5>1, <5>2, FS_CardinalityType
          <5> QED BY <5>2, <5>3
        <4>3. Cardinality(Claims') <= Cardinality(leases \cup {t})
              /\ Cardinality(Claims') \in Nat
          BY <4>1, <4>2, FS_Subset, FS_CardinalityType
        <4> QED BY <3>2, <4>2, <4>3 DEF SlotsInv
      <3> QED BY <1>3, <3>1, <3>2 DEF Acquire
    <2> QED BY <1>0, <2>1, <2>2, <2>3, <2>4, <2>5
  <1>4. ASSUME NEW t \in Turns, Start(t) PROVE Inv'
    <2>1. StageInv'
      BY <1>4, <1>0 DEF Start, TypeOK, StageInv, ChildInv, Early
    <2>2. ChildInv'
      BY <1>4, <1>0 DEF Start, TypeOK, StageInv, ChildInv, Early
    <2>3. ShutdownInv'
      BY <1>4, <1>0 DEF Start, TypeOK, StageInv, ChildInv, ShutdownInv, Early
    <2>4. FilesInv'
      BY <1>4, <1>0 DEF Start, TypeOK, StageInv, ShutdownInv, FilesInv, PatchesRemoved
    <2>5. SlotsInv'
      BY <1>4, <1>0, SlotsKept DEF Start, TypeOK, Early
    <2> QED BY <1>0, <2>1, <2>2, <2>3, <2>4, <2>5
  <1>5. ASSUME NEW t \in Turns, Spawn(t) PROVE Inv'
    <2>1. StageInv'
      BY <1>5, <1>0 DEF Spawn, TypeOK, StageInv, ChildInv, Early
    <2>2. ChildInv'
      BY <1>5, <1>0 DEF Spawn, TypeOK, StageInv, ChildInv, Early
    <2>3. ShutdownInv'
      BY <1>5, <1>0 DEF Spawn, TypeOK, StageInv, ChildInv, ShutdownInv, Early
    <2>4. FilesInv'
      BY <1>5, <1>0 DEF Spawn, TypeOK, StageInv, ShutdownInv, FilesInv, PatchesRemoved
    <2>5. SlotsInv'
      BY <1>5, <1>0, SlotsKept DEF Spawn, TypeOK, Early
    <2> QED BY <1>0, <2>1, <2>2, <2>3, <2>4, <2>5
  <1>6. ASSUME NEW t \in Turns, Record(t) PROVE Inv'
    <2>1. StageInv'
      BY <1>6, <1>0 DEF Record, TypeOK, StageInv, ChildInv, Early
    <2>2. ChildInv'
      BY <1>6, <1>0 DEF Record, TypeOK, StageInv, ChildInv, Early
    <2>3. ShutdownInv'
      BY <1>6, <1>0 DEF Record, TypeOK, StageInv, ChildInv, ShutdownInv, Early
    <2>4. FilesInv'
      BY <1>6, <1>0 DEF Record, TypeOK, StageInv, ShutdownInv, FilesInv, PatchesRemoved
    <2>5. SlotsInv'
      BY <1>6, <1>0, SlotsKept DEF Record, TypeOK, Early
    <2> QED BY <1>0, <2>1, <2>2, <2>3, <2>4, <2>5
  <1>7. ASSUME NEW t \in Turns, RunEnds(t) PROVE Inv'
    <2>1. StageInv'
      BY <1>7, <1>0 DEF RunEnds, TypeOK, StageInv, ChildInv, Early
    <2>2. ChildInv'
      BY <1>7, <1>0 DEF RunEnds, TypeOK, StageInv, ChildInv, Early
    <2>3. ShutdownInv'
      BY <1>7, <1>0 DEF RunEnds, TypeOK, StageInv, ChildInv, ShutdownInv, Early
    <2>4. FilesInv'
      BY <1>7, <1>0 DEF RunEnds, TypeOK, StageInv, ShutdownInv, FilesInv, PatchesRemoved
    <2>5. SlotsInv'
      BY <1>7, <1>0, SlotsKept DEF RunEnds, TypeOK, Early
    <2> QED BY <1>0, <2>1, <2>2, <2>3, <2>4, <2>5
  <1>8. ASSUME NEW t \in Turns, CloseLease(t) PROVE Inv'
    <2>1. StageInv'
      BY <1>8, <1>0 DEF CloseLease, BeginClose, TypeOK, StageInv, ChildInv, Early
    <2>2. ChildInv'
      BY <1>8, <1>0 DEF CloseLease, BeginClose, TypeOK, StageInv, ChildInv, Early
    <2>3. ShutdownInv'
      BY <1>8, <1>0 DEF CloseLease, BeginClose, TypeOK, StageInv, ChildInv, ShutdownInv, Early
    <2>4. FilesInv'
      BY <1>8, <1>0 DEF CloseLease, BeginClose, TypeOK, StageInv, ShutdownInv, FilesInv, PatchesRemoved
    <2>5. SlotsInv'
      BY <1>8, <1>0, SlotsKept DEF CloseLease, BeginClose, TypeOK, Early
    <2> QED BY <1>0, <2>1, <2>2, <2>3, <2>4, <2>5
  <1>9. ASSUME NEW t \in Turns, Reap(t) PROVE Inv'
    <2>1. StageInv'
      BY <1>9, <1>0 DEF Reap, TypeOK, StageInv, ChildInv, Early
    <2>2. ChildInv'
      BY <1>9, <1>0 DEF Reap, TypeOK, StageInv, ChildInv, Early
    <2>3. ShutdownInv'
      BY <1>9, <1>0 DEF Reap, TypeOK, StageInv, ChildInv, ShutdownInv, Early
    <2>4. FilesInv'
      BY <1>9, <1>0 DEF Reap, TypeOK, StageInv, ShutdownInv, FilesInv, PatchesRemoved
    <2>5. SlotsInv'
      BY <1>9, <1>0, SlotsKept DEF Reap, TypeOK, Early
    <2> QED BY <1>0, <2>1, <2>2, <2>3, <2>4, <2>5
  <1>10. ASSUME NEW t \in Turns, Release(t) PROVE Inv'
    <2>1. StageInv'
      BY <1>10, <1>0 DEF Release, RemovePatches, TypeOK, StageInv, ChildInv, Early
    <2>2. ChildInv'
      BY <1>10, <1>0 DEF Release, RemovePatches, TypeOK, StageInv, ChildInv, Early
    <2>3. ShutdownInv'
      BY <1>10, <1>0 DEF Release, RemovePatches, TypeOK, StageInv, ChildInv, ShutdownInv, Early
    <2>4. FilesInv'
      BY <1>10, <1>0 DEF Release, RemovePatches, TypeOK, StageInv, ShutdownInv, FilesInv, PatchesRemoved
    <2>5. SlotsInv'
      BY <1>10, <1>0, SlotsKept DEF Release, RemovePatches, TypeOK, Early
    <2> QED BY <1>0, <2>1, <2>2, <2>3, <2>4, <2>5
  <1>11. ASSUME NEW t \in Turns, WorkerDone(t) PROVE Inv'
    <2>1. StageInv'
      BY <1>11, <1>0 DEF WorkerDone, TypeOK, StageInv, ChildInv, Early
    <2>2. ChildInv'
      BY <1>11, <1>0 DEF WorkerDone, TypeOK, StageInv, ChildInv, Early
    <2>3. ShutdownInv'
      BY <1>11, <1>0 DEF WorkerDone, TypeOK, StageInv, ChildInv, ShutdownInv, Early
    <2>4. FilesInv'
      BY <1>11, <1>0 DEF WorkerDone, TypeOK, StageInv, ShutdownInv, FilesInv, PatchesRemoved
    <2>5. SlotsInv'
      BY <1>11, <1>0, SlotsKept DEF WorkerDone, TypeOK, Early
    <2> QED BY <1>0, <2>1, <2>2, <2>3, <2>4, <2>5
  <1>12. ASSUME NEW t \in Turns, Return(t) PROVE Inv'
    <2>1. StageInv'
      BY <1>12, <1>0 DEF Return, TypeOK, StageInv, ChildInv, Early
    <2>2. ChildInv'
      BY <1>12, <1>0 DEF Return, TypeOK, StageInv, ChildInv, Early
    <2>3. ShutdownInv'
      BY <1>12, <1>0 DEF Return, TypeOK, StageInv, ChildInv, ShutdownInv, Early
    <2>4. FilesInv'
      BY <1>12, <1>0 DEF Return, TypeOK, StageInv, ShutdownInv, FilesInv, PatchesRemoved
    <2>5. SlotsInv'
      BY <1>12, <1>0, SlotsKept DEF Return, TypeOK, Early
    <2> QED BY <1>0, <2>1, <2>2, <2>3, <2>4, <2>5
  <1>13. ASSUME NEW t \in Turns, CleanupTimeout(t) PROVE Inv'
    <2>1. StageInv'
      BY <1>13, <1>0 DEF CleanupTimeout, TypeOK, StageInv, ChildInv, Early
    <2>2. ChildInv'
      BY <1>13, <1>0 DEF CleanupTimeout, TypeOK, StageInv, ChildInv, Early
    <2>3. ShutdownInv'
      BY <1>13, <1>0 DEF CleanupTimeout, TypeOK, StageInv, ChildInv, ShutdownInv, Early
    <2>4. FilesInv'
      BY <1>13, <1>0 DEF CleanupTimeout, TypeOK, StageInv, ShutdownInv, FilesInv, PatchesRemoved
    <2>5. SlotsInv'
      BY <1>13, <1>0, SlotsKept DEF CleanupTimeout, TypeOK, Early
    <2> QED BY <1>0, <2>1, <2>2, <2>3, <2>4, <2>5
  <1>14. ASSUME NEW t \in Turns, ShutdownClose(t) PROVE Inv'
    <2>1. StageInv'
      BY <1>14, <1>0 DEF ShutdownClose, BeginClose, TypeOK, StageInv, ChildInv, Early
    <2>2. ChildInv'
      BY <1>14, <1>0 DEF ShutdownClose, BeginClose, TypeOK, StageInv, ChildInv, Early
    <2>3. ShutdownInv'
      BY <1>14, <1>0 DEF ShutdownClose, BeginClose, TypeOK, StageInv, ChildInv, ShutdownInv, Early
    <2>4. FilesInv'
      BY <1>14, <1>0 DEF ShutdownClose, BeginClose, TypeOK, StageInv, ShutdownInv, FilesInv, PatchesRemoved
    <2>5. SlotsInv'
      BY <1>14, <1>0, SlotsKept DEF ShutdownClose, BeginClose, TypeOK, Early
    <2> QED BY <1>0, <2>1, <2>2, <2>3, <2>4, <2>5
  <1>15. ASSUME NEW t \in Turns, ShutdownNext(t) PROVE Inv'
    <2>1. StageInv'
      BY <1>15, <1>0 DEF ShutdownNext, TypeOK, StageInv, ChildInv, Early
    <2>2. ChildInv'
      BY <1>15, <1>0 DEF ShutdownNext, TypeOK, StageInv, ChildInv, Early
    <2>3. ShutdownInv'
      BY <1>15, <1>0 DEF ShutdownNext, TypeOK, StageInv, ChildInv, ShutdownInv, Early
    <2>4. FilesInv'
      BY <1>15, <1>0 DEF ShutdownNext, TypeOK, StageInv, ShutdownInv, FilesInv, PatchesRemoved
    <2>5. SlotsInv'
      BY <1>15, <1>0, SlotsKept DEF ShutdownNext, TypeOK, Early
    <2> QED BY <1>0, <2>1, <2>2, <2>3, <2>4, <2>5
  <1>16. CASE Initialize
    <2>1. StageInv'
      BY <1>16, <1>0 DEF Initialize, Prepare, TypeOK, StageInv, ChildInv, Early
    <2>2. ChildInv'
      BY <1>16, <1>0 DEF Initialize, Prepare, TypeOK, StageInv, ChildInv, Early
    <2>3. ShutdownInv'
      BY <1>16, <1>0 DEF Initialize, Prepare, TypeOK, StageInv, ChildInv, ShutdownInv, Early
    <2>4. FilesInv'
      BY <1>16, <1>0 DEF Initialize, Prepare, TypeOK, StageInv, ShutdownInv, FilesInv, PatchesRemoved
    <2>5. SlotsInv'
      BY <1>16, <1>0, SlotsKept DEF Initialize, Prepare, TypeOK, Early
    <2> QED BY <1>0, <2>1, <2>2, <2>3, <2>4, <2>5
  <1>17. CASE StopServing
    <2>1. StageInv'
      BY <1>17, <1>0 DEF StopServing, TypeOK, StageInv, ChildInv, Early
    <2>2. ChildInv'
      BY <1>17, <1>0 DEF StopServing, TypeOK, StageInv, ChildInv, Early
    <2>3. ShutdownInv'
      BY <1>17, <1>0 DEF StopServing, TypeOK, StageInv, ChildInv, ShutdownInv, Early
    <2>4. FilesInv'
      BY <1>17, <1>0 DEF StopServing, TypeOK, StageInv, ShutdownInv, FilesInv, PatchesRemoved
    <2>5. SlotsInv'
      BY <1>17, <1>0, SlotsKept DEF StopServing, TypeOK, Early
    <2> QED BY <1>0, <2>1, <2>2, <2>3, <2>4, <2>5
  <1>18. CASE ShutdownRemove
    <2>1. StageInv'
      BY <1>18, <1>0 DEF ShutdownRemove, RemovePatches, TypeOK, StageInv, ChildInv, Early
    <2>2. ChildInv'
      BY <1>18, <1>0 DEF ShutdownRemove, RemovePatches, TypeOK, StageInv, ChildInv, Early
    <2>3. ShutdownInv'
      BY <1>18, <1>0 DEF ShutdownRemove, RemovePatches, TypeOK, StageInv, ChildInv, ShutdownInv, Early
    <2>4. FilesInv'
      BY <1>18, <1>0 DEF ShutdownRemove, RemovePatches, TypeOK, StageInv, ShutdownInv, FilesInv, PatchesRemoved
    <2>5. SlotsInv'
      BY <1>18, <1>0, SlotsKept DEF ShutdownRemove, RemovePatches, TypeOK, Early
    <2> QED BY <1>0, <2>1, <2>2, <2>3, <2>4, <2>5
  <1>19. CASE Exit
    <2>1. StageInv'
      BY <1>19, <1>0 DEF Exit, TypeOK, StageInv, ChildInv, Early
    <2>2. ChildInv'
      BY <1>19, <1>0 DEF Exit, TypeOK, StageInv, ChildInv, Early
    <2>3. ShutdownInv'
      BY <1>19, <1>0 DEF Exit, TypeOK, StageInv, ChildInv, ShutdownInv, Early
    <2>4. FilesInv'
      BY <1>19, <1>0 DEF Exit, TypeOK, StageInv, ShutdownInv, FilesInv, PatchesRemoved
    <2>5. SlotsInv'
      BY <1>19, <1>0, SlotsKept DEF Exit, TypeOK, Early
    <2> QED BY <1>0, <2>1, <2>2, <2>3, <2>4, <2>5
  <1>20. CASE UNCHANGED vars
    <2>1. StageInv'
      BY <1>20, <1>0 DEF vars, TypeOK, StageInv, ChildInv, Early
    <2>2. ChildInv'
      BY <1>20, <1>0 DEF vars, TypeOK, StageInv, ChildInv, Early
    <2>3. ShutdownInv'
      BY <1>20, <1>0 DEF vars, TypeOK, StageInv, ChildInv, ShutdownInv, Early
    <2>4. FilesInv'
      BY <1>20, <1>0 DEF vars, TypeOK, StageInv, ShutdownInv, FilesInv, PatchesRemoved
    <2>5. SlotsInv'
      BY <1>20, <1>0, SlotsKept DEF vars, TypeOK, Early
    <2> QED BY <1>0, <2>1, <2>2, <2>3, <2>4, <2>5
  <1> QED
    BY <1>1, <1>2, <1>3, <1>4, <1>5, <1>6, <1>7, <1>8, <1>9, <1>10,
       <1>11, <1>12, <1>13, <1>14, <1>15, <1>16, <1>17, <1>18, <1>19, <1>20
    DEF Next, TurnStep, MainStep

LEMMA InvAlways == Spec => []Inv
  BY InvInit, InvNext, PTL DEF Spec

\* At most CHATMaxConcurrent agents run, Shutdown's race with Start included.
THEOREM Bounded == Spec => []ChildrenBounded
  <1>1. Inv => ChildrenBounded
    <2> SUFFICES ASSUME Inv PROVE ChildrenBounded
      OBVIOUS
    <2>1. {t \in Turns : child[t] = "running"} \subseteq Claims
      BY DEF Inv, ChildInv, Claims, Early
    <2>2. /\ Cardinality({t \in Turns : child[t] = "running"}) <= Cardinality(Claims)
          /\ Cardinality({t \in Turns : child[t] = "running"}) \in Nat
          /\ Cardinality(Claims) \in Nat
      BY <2>1, ClaimsFinite, FS_Subset, FS_CardinalityType DEF Inv
    <2> QED BY <2>2 DEF Inv, SlotsInv, ChildrenBounded
  <1> QED BY <1>1, InvAlways, PTL

\* No process outlives its worker.
THEOREM NoStray == Spec => []ChildEndsWithWorker
  <1>1. Inv => ChildEndsWithWorker
    BY DEF Inv, StageInv, ChildEndsWithWorker
  <1> QED BY <1>1, InvAlways, PTL

\* A running agent that nobody has closed has its files, and none is left when
\* the process exits.
THEOREM Files == Spec => [](RunsWithPatches /\ PatchesRemoved)
  <1>1. Inv => RunsWithPatches /\ PatchesRemoved
    BY DEF Inv, TypeOK, StageInv, ChildInv, FilesInv, RunsWithPatches, Early
  <1> QED BY <1>1, InvAlways, PTL

\* What the manager promises at every moment (manager.go): no more agents than
\* CHAT_MAX_CONCURRENT, none without a worker that ends it, and the patch files
\* there for as long as an agent may read them and not longer.
THEOREM RuntimeIsSound == Spec => []RuntimeSound
  BY TypeCorrect, Bounded, NoStray, Files, PTL DEF RuntimeSound
=============================================================================
