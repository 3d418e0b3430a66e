--------------------------- MODULE MC_SegmentTree ---------------------------
(* Values for checking SegmentTree: a tree of N slots laid out by build(), *)
(* two keywords whose hashes overlap in one bit.                           *)
EXTENDS SegmentTree, TLC

CONSTANTS N, k1, k2

RECURSIVE Build(_, _, _)
Build(node, start, end) ==
  LET mid == (start + end) \div 2
  IN IF start = end
     THEN {<<node, start, end>>}
     ELSE {<<node, start, end>>} \cup Build(2 * node, start, mid)
                                 \cup Build(2 * node + 1, mid + 1, end)

MCBuilt == Build(1, 0, N - 1)
MCNode == {t[1] : t \in MCBuilt}
MCSpan == [v \in MCNode |-> LET t == CHOOSE t \in MCBuilt : t[1] = v
                            IN <<t[2], t[3]>>]
MCObj == MCNode \cup {0}
MCHash == (k1 :> {1, 2}) @@ (k2 :> {2, 3})
RecordSymmetry == Permutations(Record)
=============================================================================
