------------------------------ MODULE DayIndex ------------------------------
(***************************************************************************)
(* What the indexes of days promise (BPlusTree, PeaDramDayIndex): a map    *)
(* from days to the trees that hold the records of a day.  A lookup gives  *)
(* the tree that was last put under the day, a range search the days of    *)
(* the range with their trees, in order and each once.                     *)
(***************************************************************************)
EXTENDS Integers, Sequences, FiniteSets

CONSTANTS Day, Tree, NULL

VARIABLES
  days,   \* day -> its tree, for the days that are stored
  answer  \* {} or the last answer

dvars == <<days, answer>>

Lookup(d) == IF d \in DOMAIN days THEN days[d] ELSE NULL

(* The days of a range with their trees, in ascending order. *)
IsRange(found, lo, hi) ==
  LET inside == {d \in DOMAIN days : lo <= d /\ d <= hi}
  IN /\ Len(found) = Cardinality(inside)
     /\ \A i \in DOMAIN found : found[i][1] \in inside /\ found[i][2] = days[found[i][1]]
     /\ \A i, j \in DOMAIN found : i < j => found[i][1] < found[j][1]

Init == days = [d \in {} |-> NULL] /\ answer = {}

Put(d, t) ==
  /\ days' = [x \in DOMAIN days \cup {d} |-> IF x = d THEN t ELSE days[x]]
  /\ answer' = {}

Delete(d) ==
  /\ days' = [x \in DOMAIN days \ {d} |-> days[x]]
  /\ answer' = {}

Forget == days' = days /\ answer' = {}

AskDay(d) ==
  /\ days' = days
  /\ answer' = {[day |-> d, found |-> Lookup(d)]}

AskRange ==
  /\ days' = days
  /\ \E a \in answer' : answer' = {a} /\ IsRange(a.found, a.lo, a.hi)

Next ==
  \/ \E d \in Day, t \in Tree : Put(d, t)
  \/ \E d \in Day : Delete(d)
  \/ Forget
  \/ \E d \in Day : AskDay(d)
  \/ AskRange

Spec == Init /\ [][Next]_dvars
=============================================================================
