---------------------------- MODULE MCRunnerSlots ----------------------------
(* RunnerSlots for TLC. *)
EXTENDS RunnerSlots, TLC

Symmetry == Permutations(Instances) \cup Permutations(Operators)
==============================================================================
