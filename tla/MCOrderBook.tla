---------------------------- MODULE MCOrderBook ----------------------------
(* Model values for checking the engine with TLC. *)
EXTENDS OrderBookProperties, TLC

IdSymmetry == Permutations(OrderIds)
=============================================================================
