--------------------------- MODULE MCUserAccounts ---------------------------
(* The creation of users, for checking with TLC. *)
EXTENDS UserAccounts, TLC
=============================================================================
