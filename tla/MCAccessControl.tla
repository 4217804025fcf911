-------------------------- MODULE MCAccessControl --------------------------
(* Model values for checking sessions and access with TLC. *)
EXTENDS AccessControl, TLC

RequestSymmetry == Permutations(Tokens) \cup Permutations(Tasks)
=============================================================================
