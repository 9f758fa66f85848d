------------------------------ MODULE VfsAggMC ------------------------------
(* Small instances of VfsAgg for the model checker.                        *)
EXTENDS VfsAgg, TLC

Symmetry == Permutations(Ops) \cup Permutations(Elems)
=============================================================================
