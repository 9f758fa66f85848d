------------------------------- MODULE Tally -------------------------------
(***************************************************************************)
(* Sums of natural numbers.  A sum over a family is the number of its      *)
(* units: for each index one unit per number up to its value.  So what is  *)
(* known of finite sets is known of sums, without recursion.               *)
(***************************************************************************)
EXTENDS Integers, FiniteSets

Units(f) == UNION {{x} \X (1..f[x]) : x \in DOMAIN f}

Tally(f) == Cardinality(Units(f))
=============================================================================
