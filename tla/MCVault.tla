------------------------------ MODULE MCVault ------------------------------
(* Vault for the model checker: interchangeable protected calls.           *)
EXTENDS Vault, TLC

Symmetry == Permutations(Protected)

=============================================================================
