------------------------ MODULE MC_PeaDramDayIndex --------------------------
(* Values for checking PeaDramDayIndex: days on either side of 1970, and a *)
(* hash table that may refuse any of them.                                 *)
EXTENDS PeaDramDayIndex

CONSTANTS r1, r2

MCDay == -2 .. 1
=============================================================================
