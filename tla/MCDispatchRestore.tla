-------------------------- MODULE MCDispatchRestore --------------------------
(* DispatchRestore for TLC. *)
EXTENDS DispatchRestore, TLC

Symmetry == Permutations(Requests) \cup Permutations(Controllers)
==============================================================================
