------------------------ MODULE LogarithmicSrcI1Index -----------------------
(***************************************************************************)
(* LogarithmicSrcI1Index (TDAG/include): a two-round range index.  The     *)
(* records are sorted by their attribute; a first Tdag over the attribute  *)
(* leads to the ids of position ranges, one for each value that occurs, a  *)
(* second one over the positions leads to the records.                     *)
(*                                                                         *)
(* `attr` maps the ids of the indexed records to their attributes.         *)
(***************************************************************************)
EXTENDS TdagCover

(* Position of a record after the sort by attribute, then id. *)
PositionOf(attr, r) ==
  Cardinality({s \in DOMAIN attr :
                 attr[s] < attr[r] \/ (attr[s] = attr[r] /\ s < r)})

ValuesOf(attr) == Ascending({attr[r] : r \in DOMAIN attr})

(* range_table_: for each value, in order, the positions that have it; the *)
(* id of a range is its place in the table.                                *)
RangeTable(attr) ==
  [i \in DOMAIN ValuesOf(attr) |->
     LET v == ValuesOf(attr)[i]
         before == Cardinality({r \in DOMAIN attr : attr[r] < v})
         having == Cardinality({r \in DOMAIN attr : attr[r] = v})
     IN [attr |-> v, positions |-> <<before, before + having - 1>>]]

AttrRange(attr) ==
  FullRange(1 + (CHOOSE m \in {attr[r] : r \in DOMAIN attr} :
                   \A r \in DOMAIN attr : attr[r] <= m))
PosRange(attr) == FullRange(Cardinality(DOMAIN attr))

(* build: under each attribute range the ids of the position ranges in it, *)
(* under each range of positions the records in it.                        *)
I1Postings(attr) ==
  LET table == RangeTable(attr)
      ranges == UNION {{<<r, i>> : r \in DescendTree(table[i].attr, AttrRange(attr))} :
                         i \in DOMAIN table}
      places == UNION {{<<p, r>> : p \in DescendTree(PositionOf(attr, r), PosRange(attr))} :
                         r \in DOMAIN attr}
      labels == {<<"i1", x[1]>> : x \in ranges} \cup {<<"i2", x[1]>> : x \in places}
  IN IF DOMAIN attr = {} THEN <<>>
     ELSE [l \in labels |->
             Ascending({x[2] : x \in {y \in IF l[1] = "i1" THEN ranges ELSE places :
                                        y[1] = l[2]}})]

(* getI1QueryLabels: one range of the attribute tree. *)
I1QueryLabels(attr, first, last) ==
  IF DOMAIN attr = {} THEN {}
  ELSE LET full == AttrRange(attr)
           q == <<IF first < full[1] THEN full[1] ELSE first,
                  IF last > full[2] THEN full[2] ELSE last>>
       IN IF q[1] > q[2] THEN {} ELSE {<<"i1", SingleRangeCover(full, q)>>}

(* Mutant of MergedRanges: the last value asked for is left out. *)
MergedEarlyRanges(attr, ids, first, last) ==
  LET table == RangeTable(attr)
      chosen == {i \in ids : i \in DOMAIN table /\ table[i].attr >= first /\ table[i].attr < last}
  IN {table[i].positions : i \in chosen}

(* filterAndMergePositionRanges: the positions of the wanted values, as    *)
(* ranges that neither touch nor overlap.                                  *)
MergedRanges(attr, ids, first, last) ==
  LET table == RangeTable(attr)
      wanted == {i \in ids : i \in DOMAIN table /\ first <= table[i].attr /\ table[i].attr <= last}
      covered == UNION {table[i].positions[1] .. table[i].positions[2] : i \in wanted}
  IN {r \in covered \X covered :
        /\ r[1] .. r[2] \subseteq covered /\ r[1] <= r[2]
        /\ r[1] - 1 \notin covered /\ r[2] + 1 \notin covered}

(* getI2QueryLabels: one range of the position tree for each. *)
I2QueryLabels(attr, ranges) ==
  {<<"i2", SingleRangeCover(PosRange(attr), r)>> : r \in ranges}
=============================================================================
