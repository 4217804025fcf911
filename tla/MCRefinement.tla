---------------------------- MODULE MCRefinement ----------------------------
(* Model values for checking the engine's refinements with TLC. *)
EXTENDS OrderBookRefinement, TLC

IdSymmetry == Permutations(OrderIds)
=============================================================================
