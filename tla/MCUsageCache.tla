----------------------------- MODULE MCUsageCache -----------------------------
(* The usage cache on a small instance: two plugins, three worker identities, *)
(* a history of two points.                                                   *)
EXTENDS UsageCache, TLC

Symmetry == Permutations(Workers) \cup Permutations(Plugins)
=============================================================================
