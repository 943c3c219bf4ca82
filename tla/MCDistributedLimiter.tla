------------------------ MODULE MCDistributedLimiter ------------------------
(***************************************************************************)
(* Instances of DistributedLimiter for TLC: three requests, the first two  *)
(* of one visitor, served by two backend processes.                        *)
(***************************************************************************)
EXTENDS DistributedLimiter

CONSTANTS alice, bob, east, west

MCRequests == 1..3
MCSources == {alice, bob}
MCInstances == {east, west}

\* Requests 1 and 2 share a source and reach different instances.
MCSource == [r \in MCRequests |-> IF r <= 2 THEN alice ELSE bob]
MCInstance == [r \in MCRequests |-> IF r = 2 THEN west ELSE east]

\* All arrive early, or the second when keys and slots of the first have expired.
MCEarly == [r \in MCRequests |-> 2]
MCReturns == [r \in MCRequests |-> CASE r = 1 -> 1 [] r = 2 -> 5 [] r = 3 -> 2]

\* A fourth request: three of one source behind another visitor's.
MCFourRequests == 1..4
MCCrowd == [r \in MCFourRequests |-> IF r = 1 THEN bob ELSE alice]
MCCrowdInstance == [r \in MCFourRequests |-> IF r = 3 THEN west ELSE east]
MCCrowdEarly == [r \in MCFourRequests |-> 2]
=============================================================================
