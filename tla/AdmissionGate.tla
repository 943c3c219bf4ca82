---------------------------- MODULE AdmissionGate ----------------------------
(***************************************************************************)
(* What an admission gate promises the chat handler, whichever way it is   *)
(* built: requests come, perhaps wait, are let through while fewer than    *)
(* MaxExecuting of them execute, and leave, at the end of their work or    *)
(* without it.  The limiters of backend-go/internal/admission implement    *)
(* it: DistributedLimiter over Redis, LocalLimiter inside one process.     *)
(***************************************************************************)
EXTENDS Naturals, FiniteSets

CONSTANTS Requests, MaxExecuting

VARIABLE place

Outside == "outside"
Waiting == "waiting"
Running == "executing"
Left == "left"

At(p) == {r \in Requests : place[r] = p}

Init == place = [r \in Requests |-> Outside]

\* Wrap calls Enter.
Approach(r) ==
  /\ place[r] = Outside
  /\ place' = [place EXCEPT ![r] = Waiting]

\* Enter or Wait let the request through.
Admit(r) ==
  /\ place[r] = Waiting
  /\ Cardinality(At(Running)) < MaxExecuting
  /\ place' = [place EXCEPT ![r] = Running]

\* Rejected, cancelled, finished, or lost with the process that served them.
Leave(S) ==
  /\ \A r \in S : place[r] \in {Waiting, Running}
  /\ place' = [r \in Requests |-> IF r \in S THEN Left ELSE place[r]]

Next ==
  \/ \E r \in Requests : Approach(r) \/ Admit(r)
  \/ \E S \in SUBSET Requests : Leave(S)

Spec == Init /\ [][Next]_place
=============================================================================
