------------------------------- MODULE MCQuota -------------------------------
(***************************************************************************)
(* The instance of Quota for TLC.  Five requests reach the process, four   *)
(* of them of one source; four reach Redis, three of one source.  The cfg  *)
(* gives the windows and the buckets.                                      *)
(***************************************************************************)
EXTENDS Quota, TLC

CONSTANTS alice, bob, a1, a2, a3, a4, b1

MCSources == {alice, bob}
MCLocalRequests == {a1, a2, a3, a4, b1}
MCLocalSource == [r \in MCLocalRequests |-> IF r = b1 THEN bob ELSE alice]
MCSharedRequests == {a1, a2, a3, b1}
MCSharedSource == [r \in MCSharedRequests |-> IF r = b1 THEN bob ELSE alice]

\* The requests of one source are interchangeable.
MCSymmetry == Permutations({a1, a2, a3, a4})
=============================================================================
