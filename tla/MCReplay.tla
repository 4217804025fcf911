------------------------------ MODULE MCReplay ------------------------------
(* Model values for checking event logs and their replay with TLC. *)
EXTENDS Replay, TLC

IdSymmetry == Permutations(OrderIds)
=============================================================================
