-------------------------- MODULE MCCircuitBreaker --------------------------
(* TLC instances of CircuitBreaker: one breaker, few callers, a short clock. *)
EXTENDS CircuitBreaker, TLC

CallerSymmetry == Permutations(Threads)
=============================================================================
