--------------------------- MODULE MCRateLimiter ---------------------------
(* Model values for checking the rate limiter with TLC. *)
EXTENDS RateLimiter, TLC

RequestSymmetry == Permutations(Clients) \cup Permutations(Tasks)
=============================================================================
