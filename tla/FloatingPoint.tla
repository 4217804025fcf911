---------------------------- MODULE FloatingPoint ----------------------------
(***************************************************************************)
(* The f64 arithmetic that src/metrics/ uses: conversion from an unsigned  *)
(* integer, sum, half and quotient of numbers that are not negative.  Each *)
(* result is the exact one rounded to the nearest f64, a tie to the one    *)
(* with the even significand.                                              *)
(*                                                                         *)
(* Every f64 is a multiple of the smallest positive one and is written as  *)
(* that multiple: f stands for f / Fine.                                   *)
(***************************************************************************)
EXTENDS Integers, FiniteSetsExt

CONSTANTS
    Floats,  \* the finite f64 that are not negative
    Fine,    \* 1.0 (2^1074 times the smallest)
    Exact    \* every integer up to this one, and its half, is an f64 (2^53)

ASSUME FloatAssumption ==
    /\ Floats \subseteq Nat /\ IsFiniteSet(Floats)
    /\ Fine \in Nat \ {0} /\ Fine % 2 = 0
    /\ Exact \in Nat \ {0}
    /\ \A n \in 0 .. Exact : {n * Fine, n * (Fine \div 2)} \subseteq Floats

\* Of two neighbours, below has the even significand.
IsEven(below, above) == below % (2 * (above - below)) = 0

\* The f64 that n / d is rounded to.
Nearest(n, d) ==
    LET below == Max({f \in Floats : f * d <= n})
        above == Min({f \in Floats : f * d >= n})
        middle == (below + above) * d
    IN  IF \/ below = above
           \/ 2 * n < middle
           \/ 2 * n = middle /\ IsEven(below, above)
          THEN below ELSE above

AsFloat(n) == Nearest(n * Fine, 1)
FloatSum(x, y) == Nearest(x + y, 1)
FloatHalf(x) == Nearest(x, 2)
FloatQuotient(x, y) == Nearest(x * Fine, y)
=============================================================================
