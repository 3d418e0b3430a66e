---------------------------- MODULE QuadTreeCover ---------------------------
(***************************************************************************)
(* QuadTree3DSRC (TDAG/src/quad_tree_3d_src.cpp): the cubes of a grid that *)
(* are halved again and again, overlapping in half steps while they are at *)
(* least two cells wide.  A point is filed under every cube that contains  *)
(* it, a query asks for a single cube.  A cube is given by its start on    *)
(* each axis and its width; rectangles are half open, <<start, end>> on    *)
(* each axis.  The code treats its three axes alike, so the set of axes is *)
(* a parameter.  Its only caller sets is_src_, the mode without overlaps   *)
(* is left out.                                                            *)
(***************************************************************************)
EXTENDS Numbers

CONSTANTS
  Axis,     \* the axes of the grid
  GridBits  \* the grid has 2^GridBits cells along each axis

MaxDomain == Pow2[GridBits]
Root == [start |-> [a \in Axis |-> 0], width |-> MaxDomain]

CubeHasPoint(cube, p) ==
  \A a \in Axis : cube.start[a] <= p[a] /\ p[a] < cube.start[a] + cube.width

(* Mutant of ChildrenOf: the cubes never overlap. *)
ChildrenApart(cube) ==
  LET half == cube.width \div 2
  IN IF cube.width <= 1 THEN {}
     ELSE {[start |-> [a \in Axis |-> cube.start[a] + d[a] * half], width |-> half] :
             d \in [Axis -> {0, 1}]}

(* getChildren: three starts along each axis, half a child apart, or two.  *)
ChildrenOf(cube) ==
  LET half == cube.width \div 2
      step == IF half >= 2 THEN half \div 2 ELSE half
      places == IF half >= 2 THEN 0 .. 2 ELSE {0, 1}
  IN IF cube.width <= 1 THEN {}
     ELSE {[start |-> [a \in Axis |-> cube.start[a] + d[a] * step], width |-> half] :
             d \in [Axis -> places]}

(* buildQuadTreeIterative: all cubes, a generation at a time. *)
Cubes ==
  LET Generation[g \in 0 .. GridBits] ==
        IF g = 0 THEN {Root} ELSE UNION {ChildrenOf(c) : c \in Generation[g - 1]}
  IN UNION {Generation[g] : g \in 0 .. GridBits}

(* findContainingRangeCovers: down from the root, through the children     *)
(* that contain the point.                                                 *)
ContainingCubes(p) ==
  LET Generation[g \in 0 .. GridBits] ==
        IF g = 0 THEN {c \in {Root} : CubeHasPoint(c, p)}
        ELSE {c \in UNION {ChildrenOf(d) : d \in Generation[g - 1]} : CubeHasPoint(c, p)}
  IN UNION {Generation[g] : g \in 0 .. GridBits}
-----------------------------------------------------------------------------
ClampTo(low, high, x) == IF x < low THEN low ELSE IF x > high THEN high ELSE x

(* The query as the search uses it: inside the grid, and not empty unless  *)
(* it lies on the grid's upper end.                                        *)
Adjusted(rect) ==
  [a \in Axis |->
     LET lo == ClampTo(0, MaxDomain, rect[a][1])
         hi == ClampTo(0, MaxDomain, rect[a][2])
     IN <<lo, IF hi = lo /\ hi < MaxDomain THEN hi + 1 ELSE hi>>]

CeilDiv(x, y) == (x + y - 1) \div y

(* The two starts tried on one axis, the left one first; the right one is  *)
(* computed from the query's last cell.                                    *)
Starts(side, power) ==
  LET offset == power \div 2
  IN <<(side[1] \div offset) * offset, CeilDiv(side[2] - 1, offset) * offset - power>>

Usable(start, side, power) ==
  /\ start >= 0 /\ start + power <= MaxDomain
  /\ start <= side[1] /\ side[2] <= start + power

(* The first of the start combinations that is inside the grid and has the *)
(* query inside: axis by axis, the left start if it will do.  A cube of    *)
(* one cell is taken at the start of the query.                            *)
CubesOfPower(query, power) ==
  IF power = 1
  THEN {[start |-> [a \in Axis |-> ClampTo(0, MaxDomain - 1, query[a][1])], width |-> 1]}
  ELSE IF \A a \in Axis : \E i \in {1, 2} : Usable(Starts(query[a], power)[i], query[a], power)
  THEN {[start |-> [a \in Axis |->
           LET s == Starts(query[a], power)
           IN IF Usable(s[1], query[a], power) THEN s[1] ELSE s[2]],
         width |-> power]}
  ELSE {}

(* getSingleRangeCover: the smallest power of two that is as long as the   *)
(* longest side and for which a cube is found, else the root.              *)
SingleCubeCover(rect) ==
  LET query == Adjusted(rect)
      longest == {1} \cup {query[a][2] - query[a][1] : a \in Axis}
      powers == {p \in {Pow2[k] : k \in 0 .. GridBits} :
                   (\A l \in longest : l <= p) /\ CubesOfPower(query, p) # {}}
  IN IF powers = {} THEN Root
     ELSE CHOOSE c \in CubesOfPower(query, CHOOSE p \in powers : \A q \in powers : p <= q) : TRUE
=============================================================================
