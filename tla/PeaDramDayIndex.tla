-------------------------- MODULE PeaDramDayIndex ---------------------------
(***************************************************************************)
(* PeaDramDayIndex (TDAG/src/pea_dram_day_index.cpp): days in three        *)
(* structures at once: an ordered map of buckets, a link from each bucket  *)
(* to the next day's, and a hash table for lookups.  insert() updates the  *)
(* map and the links first and the hash table last; when the hash table    *)
(* refuses the key, it throws and leaves the other two as they are.        *)
(*                                                                         *)
(* The hash table (PeaHash) is vendored: it stores a key, or returns an    *)
(* error.  The walk over the days of a range is the loop that              *)
(* intersectingDays and the query programs share, one round per step.      *)
(***************************************************************************)
EXTENDS Integers, Sequences, FiniteSets

CONSTANTS
  Day,     \* timestamps of days
  Tree,    \* what a bucket's root can point to
  NULL,
  HashCan  \* the outcomes of a hash insert: subset of {"store", "fail"}

ASSUME DayAssumption ==
  /\ Day \subseteq Int /\ NULL \notin Int
  /\ HashCan \subseteq {"store", "fail"}

VARIABLES
  buckets, \* day -> its bucket [root, next]: the map and the links
  hashed,  \* days the hash table has
  query,   \* {} or the range being walked
  cursor,  \* the bucket the walk visits next, or NULL
  found,   \* the days of the walk so far, with their roots
  failed   \* history: days for which insert has thrown

vars == <<buckets, hashed, query, cursor, found, failed>>
walking == <<query, cursor, found>>

Stored == DOMAIN buckets
Least(S) == IF S = {} THEN NULL ELSE CHOOSE d \in S : \A e \in S : d <= e
After(d) == {e \in Stored : d < e}
Before(d) == {e \in Stored : e < d}

Init ==
  /\ buckets = [d \in {} |-> NULL] /\ hashed = {} /\ failed = {}
  /\ query = {} /\ cursor = NULL /\ found = <<>>
-----------------------------------------------------------------------------
(* The bucket before d, if there is one, is the one whose next day is d's. *)
IsPrevious(p, d) == p \in Before(d) /\ \A e \in Before(d) : e <= p

(* Mutant of Linked: the bucket before the new one is not told. *)
LinkedForward(d, r) ==
  [x \in Stored \cup {d} |->
     IF x = d THEN [root |-> r, next |-> Least(After(d))] ELSE buckets[x]]

(* Mutant of Linked: the bucket before is told first, and the new one then *)
(* takes its next day from there.                                          *)
LinkedTooLate(d, r) ==
  [x \in Stored \cup {d} |->
     IF x = d THEN [root |-> r,
                    next |-> IF Before(d) = {} THEN Least(After(d)) ELSE d]
     ELSE IF IsPrevious(x, d) THEN [buckets[x] EXCEPT !.next = d]
     ELSE buckets[x]]

(* emplace, and the links of the new bucket and of the one before it. *)
Linked(d, r) ==
  [x \in Stored \cup {d} |->
     IF x = d THEN [root |-> r, next |-> Least(After(d))]
     ELSE IF IsPrevious(x, d) THEN [buckets[x] EXCEPT !.next = d]
     ELSE buckets[x]]

HashInsert(d) ==
  \/ "store" \in HashCan /\ hashed' = hashed \cup {d} /\ UNCHANGED failed
  \/ "fail" \in HashCan /\ failed' = failed \cup {d} /\ UNCHANGED hashed

(* Mutant of InsertNew: the new bucket is in the map, not in the hash table. *)
InsertNewUnhashed(d, r) ==
  /\ d \notin Stored
  /\ buckets' = Linked(d, r)
  /\ UNCHANGED <<hashed, failed>>

InsertNew(d, r) ==
  /\ d \notin Stored
  /\ buckets' = Linked(d, r)
  /\ HashInsert(d)

(* A day that is in the map gets the new root, whatever the hash table has. *)
InsertAgain(d, r) ==
  /\ d \in Stored
  /\ buckets' = [buckets EXCEPT ![d].root = r]
  /\ UNCHANGED <<hashed, failed>>

Insert(d, r) ==
  /\ query = {}
  /\ InsertNew(d, r) \/ InsertAgain(d, r)
  /\ UNCHANGED walking

(* getBucket and get *)
GetBucket(d) == IF d \in hashed THEN d ELSE NULL
Get(d) == IF GetBucket(d) = NULL THEN NULL ELSE buckets[d].root

(* Mutant of FirstIntersectingDay: a range must start at a stored day. *)
FirstIntersectingDayExact(lo) == GetBucket(lo)

(* Mutant of FirstIntersectingDay: the walk starts at the day asked for. *)
FirstIntersectingDayAsked(lo) == lo

FirstIntersectingDay(lo) ==
  IF GetBucket(lo) # NULL THEN lo ELSE Least({d \in Stored : lo <= d})

StartWalk(lo, hi) ==
  /\ query = {}
  /\ query' = {[lo |-> lo, hi |-> hi]}
  /\ cursor' = FirstIntersectingDay(lo)
  /\ found' = <<>>
  /\ UNCHANGED <<buckets, hashed, failed>>

WalkEnded(q) == cursor # NULL => cursor > q.hi

VisitDay ==
  \E q \in query :
    /\ ~WalkEnded(q)
    /\ found' = Append(found, <<cursor, buckets[cursor].root>>)
    /\ cursor' = buckets[cursor].next
    /\ UNCHANGED <<buckets, hashed, query, failed>>

EndWalk ==
  \E q \in query :
    /\ WalkEnded(q)
    /\ query' = {} /\ cursor' = NULL /\ found' = <<>>
    /\ UNCHANGED <<buckets, hashed, failed>>

Next ==
  \/ \E d \in Day, r \in Tree : Insert(d, r)
  \/ \E lo, hi \in Day : StartWalk(lo, hi)
  \/ VisitDay
  \/ EndWalk

Spec == Init /\ [][Next]_vars
-----------------------------------------------------------------------------
TypeOK ==
  /\ Stored \subseteq Day
  /\ buckets \in [Stored -> [root : Tree, next : Day \cup {NULL}]]
  /\ hashed \subseteq Stored /\ failed \subseteq Day
  /\ query \subseteq [lo : Day, hi : Day]
  /\ cursor \in Stored \cup {NULL}
  /\ found \in Seq(Day \X Tree)

(* The links are the order of the map, after inserts in any order. *)
LinksFollowMap == \A d \in Stored : buckets[d].next = Least(After(d))

(* A lookup finds every day, with its last root, unless an insert of the   *)
(* day has thrown; and no insert that returns mends that.                  *)
LookupMissesOnlyFailedDays ==
  \A d \in Day : Get(d) = IF d \in Stored \ failed THEN buckets[d].root ELSE NULL

(* A walk finds the days of its range, in order, each once and with its    *)
(* root; also those the hash table has refused.                            *)
WalkFindsRange ==
  \A q \in query : WalkEnded(q) =>
    /\ {found[i][1] : i \in DOMAIN found} = {d \in Stored : q.lo <= d /\ d <= q.hi}
    /\ \A i \in DOMAIN found : found[i][2] = buckets[found[i][1]].root
    /\ \A i, j \in DOMAIN found : i < j => found[i][1] < found[j][1]

(* Every round of a walk goes on to a later day or to the end, so that the *)
(* loop ends after as many rounds as there are days.                       *)
WalkMovesOn ==
  [][query # {} /\ query' = query => cursor' = NULL \/ cursor < cursor']_vars
=============================================================================
