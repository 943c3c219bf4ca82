------------------------------ MODULE ChatTurn ------------------------------
(***************************************************************************)
(* A chat turn on the backend, below the admission gate: the stream that   *)
(* carries its reply to the response, and the harness client that runs     *)
(* the agent for it.  The client hands the stream one event after another  *)
(* and an error, which ChatStream lets happen at any time; so the two are  *)
(* exercised one at a time, and "part" names which.                        *)
(***************************************************************************)
EXTENDS ChatStream, HarnessClient

VARIABLE part

turnAll == <<part, vars, clientVars>>

\* What the child says: an idle status from before the prompt, an event of a
\* subagent nobody has heard of, the receipt, the start of the subagent, an
\* event of it, and the idle status that ends the turn.
ChildScripts == {<<"idle", "nested", "receipt", "started", "nested", "idle">>}

\* What is not exercised begins in one way.
TurnInit ==
  /\ part \in {"stream", "client"}
  /\ Init /\ ClientInit
  /\ part = "client" => progressive

TurnNext ==
  \/ part = "stream" /\ Next /\ UNCHANGED <<part, clientVars>>
  \/ part = "client" /\ ClientNext /\ UNCHANGED <<part, vars>>

\* Goroutines run and timers fire, for the part that is exercised.  The agent, the
\* client of the response and the network owe the stream nothing; what is asked
\* of the child is in Goes.
Streams(step) == part = "stream" /\ step /\ UNCHANGED clientVars

TurnFairness ==
  /\ WF_vars(Streams(WorkerStep)) /\ WF_vars(Streams(HandlerStep))
  /\ WF_vars(Streams(RunExpires)) /\ WF_vars(Streams(DeadlinePasses))
  /\ \A who \in {"worker", "handler"} : WF_vars(Streams(Signal(who)))
  /\ WF_clientVars(part = "client" /\ Goes /\ UNCHANGED vars)

TurnSpec == TurnInit /\ [][TurnNext]_turnAll /\ TurnFairness

-----------------------------------------------------------------------------
\* Every turn comes to rest, on either side of its notifications: the stream and
\* its worker end, and so do the client, its process and Close, unless a child
\* that reads no more holds a write for good.
TurnSettles ==
  <>[](IF part = "stream" THEN handler = "end" /\ worker = "done" ELSE ClientOver)
=============================================================================
