---------------------------- MODULE MCSupervisor ----------------------------
(* Supervisor for the model checker.                                       *)
EXTENDS Supervisor, TLC

Symmetry == Permutations(Calls)

=============================================================================
