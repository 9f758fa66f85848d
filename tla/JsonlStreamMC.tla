---------------------------- MODULE JsonlStreamMC ----------------------------
(***************************************************************************)
(* A disk and a logical device, which may be replaced.                     *)
(***************************************************************************)
EXTENDS JsonlStream, TLC

Symmetry == Permutations(Facts) \cup Permutations(Stacks)
===============================================================================
