------------------------------ MODULE Numbers -------------------------------
(***************************************************************************)
(* Powers of two and sorted sequences of numbers, which the schemes of     *)
(* range search and the join have in common.                               *)
(***************************************************************************)
EXTENDS Integers, Sequences, FiniteSets

Pow2[k \in Nat] == IF k = 0 THEN 1 ELSE 2 * Pow2[k - 1]

(* The numbers of a finite set in ascending order. *)
Ascending(S) ==
  [i \in 1 .. Cardinality(S) |->
     CHOOSE x \in S : Cardinality({y \in S : y < x}) = i - 1]
=============================================================================
