-------------------------- MODULE EncryptedSpatialDB ------------------------
(***************************************************************************)
(* Range search over encrypted records (TDAG): the client maps records to  *)
(* labels with a spatial scheme, the server keeps the multimap from labels *)
(* to records, and a query asks for the label of one range that covers it. *)
(* Three schemes: a Tdag for each axis (TdagSRC3D), one tree of cubes      *)
(* (QdagSRC3D), and the two-round index over one attribute                 *)
(* (LogarithmicSrcI1Index).                                                *)
(*                                                                         *)
(* Records have real-valued coordinates that a CoordinateTransformer maps  *)
(* to grid cells.  The model takes them from 0 .. range on every axis, and *)
(* query boxes that may reach past both ends.  The arithmetic is exact     *)
(* where the code's is in doubles.                                         *)
(***************************************************************************)
EXTENDS LogarithmicSrcI1Index, QuadTreeCover, StandardEMM

CONSTANTS
  Record,    \* record ids
  Ranges,    \* how long the coordinates' range may be on each axis
  MaxAttr,   \* largest attribute of the two-round index
  Schemes    \* the schemes that are used

ASSUME SpatialAssumption ==
  /\ IsFiniteSet(Axis) /\ Axis # {} /\ GridBits \in Nat
  /\ Record \subseteq Nat /\ IsFiniteSet(Record) /\ Ranges \subseteq [Axis -> Nat]
  /\ MaxAttr \in Nat /\ Schemes \subseteq {"tdag", "qdag", "i1"}

VARIABLES
  scheme,   \* the scheme in use
  range,    \* axis -> length of the coordinates' range
  values,   \* record -> its coordinates, or its attribute
  indexed,  \* the records the index was last built from
  tset,     \* the server's multimap
  round,    \* the two-round query that is under way
  answer    \* the last answer and its query

vars == <<scheme, range, values, indexed, tset, round, answer>>

NoQuery == [kind |-> "none"]

Init ==
  /\ scheme \in Schemes /\ range \in Ranges
  /\ values = <<>> /\ indexed = {} /\ tset = <<>>
  /\ round = NoQuery /\ answer = NoQuery
-----------------------------------------------------------------------------
(* CoordinateTransformer *)

GridSize == Pow2[GridBits]
GridMax == GridSize - 1

(* transform: rounded down into 0 .. GridMax. *)
Cell(a, v) ==
  IF range[a] = 0 \/ v < 0 THEN 0
  ELSE ClampTo(0, GridMax, (v * GridMax) \div range[a])

(* Mutant of EndCell: rounded down, as the start is. *)
EndCellDown(a, v) == Cell(a, v)

(* transform_end: rounded up into 0 .. GridSize; GridSize if all records   *)
(* have the same coordinate.                                               *)
EndCell(a, v) ==
  IF range[a] = 0 THEN GridSize
  ELSE IF v < 0 THEN 0 ELSE ClampTo(0, GridSize, CeilDiv(v * GridMax, range[a]))

GridPoint(r) == [a \in Axis |-> Cell(a, values[r][a])]
GridRect(box) == [a \in Axis |-> <<Cell(a, box[a][1]), EndCell(a, box[a][2])>>]
-----------------------------------------------------------------------------
(* The labels of the two grid schemes *)

AxisFull == FullRange(GridSize)

(* mapPointsToLabels: a point is filed under every combination of the      *)
(* ranges on its axes, or under every cube around it.                      *)
LabelsOf(r) ==
  IF scheme = "tdag"
  THEN LET paths == [a \in Axis |-> DescendTree(GridPoint(r)[a], AxisFull)]
       IN {l \in [Axis -> UNION {paths[a] : a \in Axis}] : \A a \in Axis : l[a] \in paths[a]}
  ELSE ContainingCubes(GridPoint(r))

Postings ==
  [l \in UNION {LabelsOf(r) : r \in DOMAIN values} |->
     Ascending({r \in DOMAIN values : l \in LabelsOf(r)})]

(* getQueryLabels of TdagSRC3D throws if an axis has no cover: the end of  *)
(* a rectangle is a cell to it, and GridSize is none.                      *)
Throws(rect) == scheme = "tdag" /\ \E a \in Axis : ~CoverExists(AxisFull, rect[a])
QueryLabel(rect) ==
  IF scheme = "tdag" THEN [a \in Axis |-> SingleRangeCover(AxisFull, rect[a])]
  ELSE SingleCubeCover(rect)
-----------------------------------------------------------------------------
Idle == round = NoQuery /\ answer = NoQuery

(* A record is loaded from the data set; the ids count up. *)
Load(r, v) ==
  /\ r \notin DOMAIN values /\ \A s \in Record : s < r => s \in DOMAIN values
  /\ values' = [s \in DOMAIN values \cup {r} |-> IF s = r THEN v ELSE values[s]]
  /\ UNCHANGED <<scheme, range, indexed, tset, round, answer>>

(* build: the index is made anew from all records. *)
Build ==
  /\ Idle /\ indexed # DOMAIN values
  /\ tset' = BuildEMM(IF scheme = "i1" THEN I1Postings(values) ELSE Postings)
  /\ indexed' = DOMAIN values
  /\ UNCHANGED <<scheme, range, values, round, answer>>

(* query of EncryptedSpatialDB. *)
RangeQuery(box) ==
  /\ scheme # "i1"
  /\ LET rect == GridRect(box) IN
       answer' = IF Throws(rect) THEN [kind |-> "thrown", box |-> box]
                 ELSE [kind |-> "found", box |-> box,
                       ids |-> Search(tset, {QueryLabel(rect)})]
  /\ UNCHANGED <<scheme, range, values, indexed, tset, round>>

(* I1RunQuery: the ids of position ranges, *)
FirstRound(first, last) ==
  /\ scheme = "i1" /\ indexed = DOMAIN values
  /\ round' = [kind |-> "i1", box |-> <<first, last>>,
               ids |-> Search(tset, I1QueryLabels(values, first, last))]
  /\ UNCHANGED <<scheme, range, values, indexed, tset, answer>>

(* then the records at those positions. *)
SecondRound ==
  /\ round # NoQuery
  /\ LET ranges == MergedRanges(values, round.ids, round.box[1], round.box[2]) IN
       answer' = [kind |-> "found", box |-> round.box,
                  ids |-> Search(tset, I2QueryLabels(values, ranges))]
  /\ round' = NoQuery
  /\ UNCHANGED <<scheme, range, values, indexed, tset>>

TakeAnswer ==
  /\ answer # NoQuery
  /\ answer' = NoQuery
  /\ UNCHANGED <<scheme, range, values, indexed, tset, round>>

MaxRange == CHOOSE m \in {range[a] : a \in Axis} : \A a \in Axis : range[a] <= m
Points == IF scheme = "i1" THEN 0 .. MaxAttr
          ELSE {v \in [Axis -> 0 .. MaxRange] : \A a \in Axis : v[a] <= range[a]}
Sides(n) == {q \in (-1 .. n + 1) \X (-1 .. n + 1) : q[1] <= q[2]}
Boxes == {b \in [Axis -> Sides(MaxRange)] : \A a \in Axis : b[a][2] <= range[a] + 1}

Next ==
  \/ Idle /\ \E r \in Record : \E v \in Points : Load(r, v)
  \/ Build
  \/ Idle /\ \E box \in Boxes : RangeQuery(box)
  \/ Idle /\ \E side \in Sides(MaxAttr) : FirstRound(side[1], side[2])
  \/ SecondRound
  \/ TakeAnswer

Spec == Init /\ [][Next]_vars
-----------------------------------------------------------------------------
Within(side, v) == side[1] <= v /\ v <= side[2]

(* The records of the index that lie in the box of the query. *)
Wanted ==
  {r \in indexed :
     IF scheme = "i1" THEN Within(answer.box, values[r])
     ELSE \A a \in Axis : Within(answer.box[a], values[r][a])}

(* QdagSRC3D takes the rectangle as half open.  A record at the upper end  *)
(* of the box is in its last cell unless the end falls between two cells.  *)
OnUpperFace(r) ==
  scheme = "qdag" /\ \E a \in Axis :
    /\ range[a] # 0 /\ values[r][a] = answer.box[a][2]
    /\ (values[r][a] * GridMax) % range[a] = 0

(* An answer may hold too many records but misses none that is in the box: *)
(* through the rounding of points and boxes, the choice of one covering    *)
(* range or cube, the counting of the multimap and the two rounds.  Cubes  *)
(* may miss those on the upper faces of the rectangle, see the finding.    *)
(* There is no answer only if the box reaches beyond the data (or all      *)
(* records agree on an axis): the end of its rectangle is then no cell.    *)
QueryMissesNothing ==
  /\ answer.kind = "found" =>
       \A r \in Wanted : r \in answer.ids \/ OnUpperFace(r)
  /\ answer.kind = "thrown" =>
       \E a \in Axis : range[a] = 0 \/ answer.box[a][2] > range[a]

(* What the tests assert of the answer: it includes the ground truth.      *)
AnswerIncludesTruth ==
  answer.kind = "found" => Wanted \subseteq answer.ids

(* The range asked for on each axis is a smallest one of its tree around   *)
(* the rectangle, and the answer holds the records of those ranges, each   *)
(* of them: a query returns as few strangers as one label allows.          *)
CoverIsSmallest ==
  answer.kind = "found" /\ scheme = "tdag" =>
    LET rect == GridRect(answer.box)
        label == QueryLabel(rect)
    IN /\ \A a \in Axis : \A b \in TreeRanges(AxisFull) :
            Encloses(b, rect[a]) => label[a][2] - label[a][1] <= b[2] - b[1]
       /\ answer.ids = {r \in indexed : \A a \in Axis : Within(label[a], GridPoint(r)[a])}
=============================================================================
