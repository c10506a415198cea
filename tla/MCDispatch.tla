----------------------------- MODULE MCDispatch ------------------------------
(* Dispatch for TLC. *)
EXTENDS Dispatch, TLC

Symmetry == Permutations(Handlers) \cup Permutations(Digests)
              \cup Permutations(Requests) \cup Permutations(Controllers)
==============================================================================
