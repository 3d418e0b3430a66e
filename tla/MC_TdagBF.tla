----------------------------- MODULE MC_TdagBF -----------------------------
(* Values for checking TdagBF: two keywords whose hashes overlap in a bit, *)
(* so that filters differ by 0, 2 or 3 bits.                               *)
EXTENDS TdagBF, TLC

CONSTANTS k1, k2

MCNode == 1 .. 2 ^ (Height + 1) - 1
MCObj == {0} \cup MCNode
MCHash == (k1 :> {1, 2}) @@ (k2 :> {2, 3})
RecordSymmetry == Permutations(Record)
=============================================================================
