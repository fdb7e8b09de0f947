------------------------------- MODULE MCProbeUi -------------------------------
(* Model values for TLC. *)
EXTENDS ProbeUi

Symmetry == Permutations(Batches)
=============================================================================
