-------------------------- MODULE CircuitBreakerMC --------------------------
(* A small instance of CircuitBreaker for TLC.                              *)
EXTENDS CircuitBreaker, TLC

WorkerSymmetry == Permutations(Workers)
=============================================================================
