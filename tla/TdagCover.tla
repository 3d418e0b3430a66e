------------------------------ MODULE TdagCover -----------------------------
(***************************************************************************)
(* Tdag (TDAG/src/tdag.cpp): a binary tree over 0 .. 2^h - 1 whose nodes   *)
(* own, besides their range, a middle range across their children.  A      *)
(* value is filed under every range on its path (descend_tree), a query    *)
(* asks for a single range (get_single_range_cover).  The tree never       *)
(* changes once it is built, so it is given by its ranges: a range is a    *)
(* pair <<first, last>>, both ends included.                               *)
(***************************************************************************)
EXTENDS Numbers

Encloses(outer, inner) == outer[1] <= inner[1] /\ outer[2] >= inner[2]

Midpoint(r) == r[1] + (r[2] - r[1]) \div 2
LeftHalf(r) == <<r[1], Midpoint(r)>>
RightHalf(r) == <<Midpoint(r) + 1, r[2]>>

(* The constructor's middle range, for nodes wider than two values. *)
Middles(r) ==
  LET width == r[2] - r[1]
      quarter == width \div 4
  IN IF width <= 1 THEN {}
     ELSE {<<Midpoint(r) - quarter,
             Midpoint(r) + quarter + (IF width % 4 > 0 THEN 1 ELSE 0)>>}

(* heightForDomain: the lowest tree with a leaf for each of n values. *)
HeightForDomain(n) == CHOOSE h \in 0 .. n : Pow2[h] >= n /\ \A g \in 0 .. h - 1 : Pow2[g] < n
FullRange(n) == <<0, Pow2[HeightForDomain(n)] - 1>>

(* All ranges of the tree over the range `full`. *)
TreeRanges(full) ==
  LET Below[r \in Nat \X Nat] ==
        {r} \cup Middles(r)
          \cup (IF r[1] = r[2] THEN {} ELSE Below[LeftHalf(r)] \cup Below[RightHalf(r)])
  IN Below[full]

(* Mutant of DescendTree: the halves only. *)
DescendHalves(val, full) ==
  LET Path[r \in Nat \X Nat] ==
        {r} \cup (IF r[1] = r[2] THEN {}
                  ELSE Path[IF val <= Midpoint(r) THEN LeftHalf(r) ELSE RightHalf(r)])
  IN Path[full]

(* descend_tree: the halves that contain the value, down to its leaf, and  *)
(* those of their middle ranges that do.                                   *)
DescendTree(val, full) ==
  LET Path[r \in Nat \X Nat] ==
        {r} \cup {m \in Middles(r) : Encloses(m, <<val, val>>)}
          \cup (IF r[1] = r[2] THEN {}
                ELSE Path[IF val <= Midpoint(r) THEN LeftHalf(r) ELSE RightHalf(r)])
  IN Path[full]

(* Mutant of SingleRangeCover: a middle range is preferred to a child. *)
MiddleFirstCover(full, q) ==
  LET Cover[r \in Nat \X Nat] ==
        IF \E m \in Middles(r) : Encloses(m, q) THEN CHOOSE m \in Middles(r) : TRUE
        ELSE IF r[1] < r[2] /\ Encloses(LeftHalf(r), q) THEN Cover[LeftHalf(r)]
        ELSE IF r[1] < r[2] /\ Encloses(RightHalf(r), q) THEN Cover[RightHalf(r)]
        ELSE r
  IN Cover[full]

(* get_single_range_cover of a query inside the tree: a middle range if no *)
(* child contains the query, else the child's answer, else the node.  Of a *)
(* query that leaves the tree the code throws: see CoverExists.            *)
CoverExists(full, q) == Encloses(full, q)
SingleRangeCover(full, q) ==
  LET Fits(r) == Encloses(r, q)
      Cover[r \in Nat \X Nat] ==
        IF r[1] < r[2] /\ Fits(LeftHalf(r)) THEN Cover[LeftHalf(r)]
        ELSE IF r[1] < r[2] /\ Fits(RightHalf(r)) THEN Cover[RightHalf(r)]
        ELSE IF \E m \in Middles(r) : Fits(m) THEN CHOOSE m \in Middles(r) : TRUE
        ELSE r
  IN Cover[full]
=============================================================================
