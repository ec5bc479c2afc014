--------------------------- MODULE RateLimiterMC ---------------------------
(* A small instance of RateLimiter for TLC.                                 *)
EXTENDS RateLimiter, TLC

CallerSymmetry == Permutations(Callers)
=============================================================================
