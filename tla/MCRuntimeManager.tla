--------------------------- MODULE MCRuntimeManager ---------------------------
(***************************************************************************)
(* Instances of RuntimeManager for TLC.                                    *)
(***************************************************************************)
EXTENDS RuntimeManager, TLC

CONSTANTS s1, s2, s3, d1

MCStreamed == {s1, s2, s3}
MCTurns == MCStreamed \cup {d1}
MCSymmetry == Permutations(MCStreamed)

\* Without symmetry, for liveness.
MCFewStreamed == {s1, s2}
MCFewTurns == MCFewStreamed \cup {d1}
=============================================================================
