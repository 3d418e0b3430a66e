------------------------- MODULE MC_EncryptedSearch -------------------------
(* The two encrypted searches of the code over one set of axes: a          *)
(* behaviour uses either the range search over labels or the JXT+ join.    *)
(*                                                                         *)
(* Ranges: a coordinate that is rounded at most of its values beside one   *)
(* that falls on both ends of the grid, an axis on which all records       *)
(* agree, and in MCExactRanges an axis that needs no rounding.             *)
(* Rows: one inside a cube for each user, a corner of the domain, and one  *)
(* on the border of two cubes and beyond the domain.  Boxes: one that has  *)
(* the corner but not its quarter, one that ends where the row on a border *)
(* begins, one that holds the domain, and one with rows in two cubes.      *)
EXTENDS EncryptedSpatialDB, JoinSearch

CONSTANT Searches  \* "labels", "join"

VARIABLE search

MCRanges == {[x |-> 5, y |-> 1], [x |-> 2, y |-> 0]}
MCExactRanges == {[x |-> 3, y |-> 1]}

Row(user, slot, x, y) == [user |-> user, slot |-> slot, point |-> [x |-> x, y |-> y]]
MCRow1 == {Row("u", 1, 3, 1), Row("v", 1, 3, 1), Row("u", 0, 0, 0), Row("u", 2, 4, 9)}
MCRow2 == {Row("u", 1, 3, 1), Row("v", 1, 7, 7)}
MCMaxRows == <<3, 2>>
MCBox == {[x |-> <<-1, 5>>, y |-> <<0, 3>>], [x |-> <<0, 4>>, y |-> <<0, 10>>],
          [x |-> <<-1, 9>>, y |-> <<-1, 9>>], [x |-> <<2, 8>>, y |-> <<0, 10>>]}
\* Two slots a day: from late on one day to early on the next, and a day's start.
MCTimes == {<<1, 2>>, <<0, 0>>}

NoLabels ==
  /\ scheme = "none" /\ range = <<>> /\ values = <<>> /\ indexed = {} /\ tset = <<>>
  /\ round = NoQuery /\ answer = NoQuery

MCInit ==
  /\ search \in Searches /\ JoinInit
  /\ IF search = "labels" THEN Init ELSE NoLabels

MCNext ==
  \/ search = "labels" /\ Next /\ UNCHANGED <<search, joinVars>>
  \/ search = "join" /\ JoinNext /\ UNCHANGED <<search, vars>>

MCSpec == MCInit /\ [][MCNext]_<<search, vars, joinVars>>
=============================================================================
