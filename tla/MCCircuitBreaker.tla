-------------------------- MODULE MCCircuitBreaker --------------------------
(* CircuitBreaker for the model checker.                                   *)
EXTENDS CircuitBreaker, TLC

Symmetry == Permutations(Calls)

=============================================================================
