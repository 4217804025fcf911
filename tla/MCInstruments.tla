--------------------------- MODULE MCInstruments ---------------------------
(* The instrument handlers, instantiated for TLC.  Liveness is checked, so   *)
(* there is no symmetry set.                                                 *)
EXTENDS Instruments
=============================================================================
