----------------------------- MODULE MCProbeBatch -----------------------------
(* Model values for TLC. *)
EXTENDS ProbeBatch

Symmetry == Permutations(Batches) \cup Permutations(Plugins)
=============================================================================
