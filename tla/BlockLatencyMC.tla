--------------------------- MODULE BlockLatencyMC ---------------------------
(***************************************************************************)
(* Small instances of BlockLatency: I/Os that reuse requests.              *)
(***************************************************************************)
EXTENDS BlockLatency, TLC

(* Sound for the safety properties alone: it speeds up a run without       *)
(* CountedIsReported.                                                      *)
Symmetry == Permutations(Ios) \cup Permutations(Reqs) \cup Permutations(Elems)
=============================================================================
