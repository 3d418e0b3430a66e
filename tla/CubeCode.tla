------------------------------ MODULE CubeCode ------------------------------
(***************************************************************************)
(* CubeCode (test/serverdb/cube_code.cpp): the data space is halved Levels *)
(* times along every axis.  A point is named by the cubes it lies in, one  *)
(* for each level, and a query box by the cubes that make it up, so that a *)
(* box becomes a few keywords.  The code names a cube by its centre and    *)
(* level, the model by its place and level.                                *)
(*                                                                         *)
(* Coordinates are integers from 0 to Width, two for each cube of the last *)
(* level: even ones lie on the border of two cubes, odd ones inside.       *)
(* Points and boxes may lie beyond the domain.                             *)
(***************************************************************************)
EXTENDS Numbers

CONSTANTS
  Coord,  \* the coordinates: latitude and longitude
  Levels  \* k, at least 1

Width == Pow2[Levels + 1]

(* The cubes of a level and the sides of a cube. *)
CubesOf(level) == [level : {level}, place : [Coord -> 0 .. Pow2[level] - 1]]
Side(level) == Width \div Pow2[level]
Low(cube, a) == cube.place[a] * Side(cube.level)
High(cube, a) == Low(cube, a) + Side(cube.level)

Parent(cube, level) ==
  [level |-> level,
   place |-> [a \in Coord |-> cube.place[a] \div Pow2[cube.level - level]]]

(* Mutant of CubeAt: a point outside the domain gets a cube outside. *)
CubeAtUnclamped(level, point) ==
  [level |-> level, place |-> [a \in Coord |-> point[a] \div Side(level)]]

(* The cube of a level that a point lies in; points outside the domain are *)
(* counted to the cubes at its border.                                     *)
CubeAt(level, point) ==
  [level |-> level,
   place |-> [a \in Coord |->
     LET i == point[a] \div Side(level)
     IN IF i < 0 THEN 0 ELSE IF i >= Pow2[level] THEN Pow2[level] - 1 ELSE i]]

IsCorner(point) == \A a \in Coord : point[a] \in {0, Width}

(* generateDataCubeCodes: a corner of the domain gets its cube of level 1  *)
(* only.                                                                   *)
DataCubeCodes(point) ==
  IF IsCorner(point) THEN {CubeAt(1, point)} ELSE {CubeAt(l, point) : l \in 1 .. Levels}

(* A box is <<low, high>> on each axis. *)
Inside(cube, box) ==
  \A a \in Coord : box[a][1] <= Low(cube, a) /\ High(cube, a) <= box[a][2]
Meets(cube, box) ==
  \A a \in Coord : box[a][1] < High(cube, a) /\ Low(cube, a) < box[a][2]

(* collectCubeCodes: the largest cubes inside the box, from level 0 on,    *)
(* and the cubes of the last level that meet it.                           *)
QueryCubeCodes(box) ==
  {c \in UNION {CubesOf(l) : l \in 0 .. Levels} :
     /\ Inside(c, box) \/ (c.level = Levels /\ Meets(c, box))
     /\ \A l \in 0 .. c.level - 1 : ~Inside(Parent(c, l), box)}
=============================================================================
