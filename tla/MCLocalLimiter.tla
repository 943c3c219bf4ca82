--------------------------- MODULE MCLocalLimiter ---------------------------
(***************************************************************************)
(* Instances of LocalLimiter for TLC: one request of each of four          *)
(* visitors, or three requests, the first two of one visitor.              *)
(***************************************************************************)
EXTENDS LocalLimiter, TLC

CONSTANTS r1, r2, r3, r4, alice, bob, carol, dave

MCSources == {alice, bob, carol, dave}
MCRequests == {r1, r2, r3, r4}
MCVisitors == r1 :> alice @@ r2 :> bob @@ r3 :> carol @@ r4 :> dave

\* Visitors are interchangeable, each with the request that is theirs.
MCSymmetry ==
  {p @@ [s \in MCSources |->
           MCVisitors[p[CHOOSE r \in MCRequests : MCVisitors[r] = s]]] :
     p \in Permutations(MCRequests)}

MCThreeRequests == {r1, r2, r3}
MCTwoSources == {alice, bob}
MCSameSource == r1 :> alice @@ r2 :> alice @@ r3 :> bob
=============================================================================
