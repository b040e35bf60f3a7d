-------------------------------- MODULE Ranks --------------------------------
(***************************************************************************)
(* Sorting, as the place of every element: list.sort and sorted of the     *)
(* rules, and of the names that a glob returns.                            *)
(***************************************************************************)
EXTENDS Integers, FiniteSets

\* The element of a set that n - 1 others come before.
AtRank(set, before, n) ==
  CHOOSE x \in set : Cardinality({y \in set : <<y, x>> \in before}) + 1 = n
=============================================================================
