----------------------- MODULE MC_AdaptiveTimeBucket -----------------------
(* Values for checking AdaptiveTimeBucket.  A day has 6 seconds and the    *)
(* table 3 rows; the slot lengths divide a day evenly (2), leave the end   *)
(* of the day without a row of its own (1) or do not divide it (4).        *)
EXTENDS AdaptiveTimeBucket

CONSTANT Records

Times == {-1, 0, 2, 5, 7, 8}
MCQueryTime == {-2, 1, 2, 3, 5, 7, 9}

Setting(s, t, m, n) == [slotSeconds |-> s, target |-> t, max |-> m, maxSlots |-> n]

(* The last one is repaired by the constructor. *)
MCConfig == {Setting(1, 2, 3, 2), Setting(2, 2, 3, 3), Setting(4, 1, 2, 2),
             Setting(2, 3, 4, 1), Setting(4, 3, 0, 0)}

(* Records whose ids run with the time, and two records in reverse.        *)
MCInput ==
  {times \in UNION {[1 .. n -> Times] : n \in 0 .. Records} :
     \/ \A i, j \in DOMAIN times : i < j => times[i] <= times[j]
     \/ Len(times) = 2}
=============================================================================
