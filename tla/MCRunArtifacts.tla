--------------------------- MODULE MCRunArtifacts ---------------------------
(* Model values for checking the run folders with TLC. *)
EXTENDS RunArtifacts, TLC

JobSymmetry == Permutations(Jobs)
=============================================================================
