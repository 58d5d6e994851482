------------------------------- MODULE Sorting -------------------------------
(***************************************************************************)
(* The elements of a finite set of numbers in increasing order, as the     *)
(* sorts of src/sort.go leave them: the nth one has n - 1 below it.        *)
(***************************************************************************)
EXTENDS Naturals, FiniteSets

Below(S, x) == {y \in S : y < x}
Ascending(S) == [n \in 1..Cardinality(S) |-> CHOOSE x \in S : Cardinality(Below(S, x)) = n - 1]
=============================================================================
