------------------------- MODULE AdaptiveTimeBucket -------------------------
(***************************************************************************)
(* AdaptiveTimeBucketBuilder (TDAG/src/adaptive_time_bucket.cpp) and the   *)
(* query loop that walks its buckets.  build() sorts the records by time,  *)
(* cuts the sorted sequence into buckets of bounded size, links them and   *)
(* fills a table (day, slot of the day) -> first bucket worth looking at.  *)
(* A query asks the table where to start and follows the links, probing    *)
(* in each bucket the local slots that its time range selects.             *)
(*                                                                         *)
(* Times are whole seconds, and may be negative.  Bucket ids start at 1    *)
(* here and at 0 in the code; None is the code's -1.                       *)
(***************************************************************************)
EXTENDS Integers, Sequences, FiniteSets

CONSTANTS
  SecondsPerDay, \* kSecondsPerDay
  LocatorSlots,  \* kLocatorSlotsPerDay
  Config,        \* settings a builder can be given, before its clamping
  Input,         \* record sets build() can be called with: record -> time
  QueryTime      \* start and end times of the queries

ASSUME TimeAssumption ==
  /\ SecondsPerDay \in Nat \ {0} /\ LocatorSlots \in Nat \ {0}
  /\ Config \subseteq [slotSeconds : Int, target : Int, max : Int, maxSlots : Int]
  /\ QueryTime \subseteq Int

ASSUME InputAssumption ==
  \A ts \in Input : /\ IsFiniteSet(DOMAIN ts)
                    /\ \A r \in DOMAIN ts : r \in Int /\ ts[r] \in Int

None == 0
AtLeast(low, x) == IF x < low THEN low ELSE x
AtMost(high, x) == IF x > high THEN high ELSE x

(* Division rounding down, for either sign of the dividend. *)
FloorDiv(value, divisor) ==
  IF value >= 0 THEN value \div divisor ELSE -((-value + divisor - 1) \div divisor)

VARIABLES
  config,         \* the builder's settings
  ts,             \* the records of the last build(): record -> timestamp
  phase,          \* "idle", "fill" (the loop over the records) or "link"
  points,         \* the records in the order the loop takes them
  taken,          \* records taken so far
  first,          \* position of the first record of the current bucket
  slots,          \* absolute slots the current bucket occupies
  buckets,        \* buckets closed so far
  recordToBucket, \* record -> bucket, for the records of closed buckets
  forcedSplits,   \* forced_split_same_abs_slot_
  locator,        \* day -> slot of the day -> bucket
  query,          \* {} or the time range of the query being answered
  cursor,         \* bucket the query visits next, or None
  probed          \* bucket -> local slots the query has asked it for

building == <<ts, phase, points, taken, first, slots, buckets, recordToBucket,
              forcedSplits, locator>>
asking == <<query, cursor, probed>>
vars == <<config, building, asking>>

AbsSlot(t) == FloorDiv(t, config.slotSeconds)
Day(t) == FloorDiv(t, SecondsPerDay)
SlotInDay(t) ==
  AtMost(LocatorSlots - 1,
         AtLeast(0, AtLeast(0, t - Day(t) * SecondsPerDay) \div config.slotSeconds))

(* The constructor and configFromEnv repair settings that make no sense.   *)
Clamped(raw) ==
  [slotSeconds |-> AtLeast(1, raw.slotSeconds),
   target |-> AtLeast(1, raw.target),
   max |-> AtLeast(AtLeast(1, raw.target), raw.max),
   maxSlots |-> AtLeast(1, raw.maxSlots)]

Init ==
  /\ \E raw \in Config : config = Clamped(raw)
  /\ ts = <<>> /\ points = <<>> /\ phase = "idle"
  /\ taken = 0 /\ first = 1 /\ slots = {}
  /\ buckets = <<>> /\ recordToBucket = <<>>
  /\ forcedSplits = 0 /\ locator = <<>>
  /\ query = {} /\ cursor = None /\ probed = <<>>

-----------------------------------------------------------------------------
(* build()                                                                 *)

(* Time order, equal times by record id. *)
Before(times, r, s) ==
  \/ times[r] < times[s]
  \/ times[r] = times[s] /\ r < s

(* Mutant of IsSorted: the records keep the order of their ids. *)
IsSortedById(order, times) ==
  \A i, j \in DOMAIN order : i < j => order[i] < order[j]

IsSorted(order, times) ==
  \A i, j \in DOMAIN order : i < j => Before(times, order[i], order[j])

Orders(times) == [1 .. Cardinality(DOMAIN times) -> DOMAIN times]

(* Everything of an earlier build is dropped, and the records are sorted.  *)
Build(times) ==
  /\ phase = "idle" /\ query = {}
  /\ ts' = times
  /\ points' \in {order \in Orders(times) : IsSorted(order, times)}
  /\ phase' = IF DOMAIN times = {} THEN "idle" ELSE "fill"
  /\ taken' = 0 /\ first' = 1 /\ slots' = {}
  /\ buckets' = <<>> /\ recordToBucket' = <<>>
  /\ forcedSplits' = 0 /\ locator' = <<>>
  /\ UNCHANGED <<config, asking>>

(* Mutant of ClosesBucket: the target size splits a slot. *)
ClosesInsideSlot(count, occupied, nextSlotDiffers) ==
  \/ count >= config.target
  \/ nextSlotDiffers /\ Cardinality(occupied) >= config.maxSlots

(* Whether the bucket is closed after a record: at its size limit at once, *)
(* at its slot limit or its target size only between two slots.            *)
ClosesBucket(count, occupied, nextSlotDiffers) ==
  \/ count >= config.max
  \/ nextSlotDiffers /\ Cardinality(occupied) >= config.maxSlots
  \/ nextSlotDiffers /\ count >= config.target

(* finalizeCurrentBucket, for the records at positions first .. last.      *)
ClosedBucket(last, occupied) ==
  [startTs |-> ts[points[first]], endTs |-> ts[points[last]],
   count |-> last - first + 1, slots |-> occupied, next |-> None]

Close(last, occupied) ==
  LET id == Len(buckets) + 1
      members == {points[i] : i \in first .. last}
  IN /\ buckets' = Append(buckets, ClosedBucket(last, occupied))
     /\ recordToBucket' = [r \in DOMAIN recordToBucket \cup members |->
                             IF r \in members THEN id ELSE recordToBucket[r]]
     /\ first' = last + 1
     /\ slots' = {}

(* One round of the loop: the next record joins the current bucket.        *)
TakePoint ==
  LET i == taken + 1
      isLast == i = Len(points)
      abs == AbsSlot(ts[points[i]])
      occupied == slots \cup {abs}
      nextSlotDiffers == ~isLast => AbsSlot(ts[points[i + 1]]) # abs
      count == i - first + 1
  IN /\ phase = "fill"
     /\ taken' = i
     /\ \/ /\ ClosesBucket(count, occupied, nextSlotDiffers) \/ isLast
           /\ Close(i, occupied)
        \/ /\ ~ClosesBucket(count, occupied, nextSlotDiffers) /\ ~isLast
           /\ slots' = occupied
           /\ UNCHANGED <<first, buckets, recordToBucket>>
     /\ forcedSplits' = IF count >= config.max /\ ~nextSlotDiffers
                        THEN forcedSplits + 1 ELSE forcedSplits
     /\ phase' = IF isLast THEN "link" ELSE "fill"
     /\ UNCHANGED <<config, ts, points, locator, asking>>

(* Mutant of NextBucketId: the last bucket is linked to itself. *)
NextBucketIdSelf(b) == IF b < Len(buckets) THEN b + 1 ELSE b

NextBucketId(b) == IF b < Len(buckets) THEN b + 1 ELSE None

(* lower_bound on the end times. *)
FirstBucketWithEndAtLeast(t) ==
  IF \E b \in DOMAIN buckets : buckets[b].endTs >= t
  THEN CHOOSE b \in DOMAIN buckets :
         /\ buckets[b].endTs >= t
         /\ \A c \in 1 .. b - 1 : buckets[c].endTs < t
  ELSE None

(* Mutant of LocatorRow: a row starts at the time its slot ends. *)
LocatorRowAtSlotEnd(day) ==
  [s \in 0 .. LocatorSlots - 1 |->
     FirstBucketWithEndAtLeast(day * SecondsPerDay + (s + 1) * config.slotSeconds)]

(* A row of the table starts at the time the slot starts. *)
LocatorRow(day) ==
  [s \in 0 .. LocatorSlots - 1 |->
     FirstBucketWithEndAtLeast(day * SecondsPerDay + s * config.slotSeconds)]

(* The links, and buildDayLocator over the days the buckets span.          *)
LinkAndLocate ==
  /\ phase = "link"
  /\ phase' = "idle"
  /\ buckets' = [b \in DOMAIN buckets |->
                   [buckets[b] EXCEPT !.next = NextBucketId(b)]]
  /\ locator' = [day \in Day(buckets[1].startTs) .. Day(buckets[Len(buckets)].endTs)
                   |-> LocatorRow(day)]
  /\ UNCHANGED <<config, ts, points, taken, first, slots, recordToBucket,
                 forcedSplits, asking>>

-----------------------------------------------------------------------------
(* Answering a query                                                       *)

LocateFirstBucketForQuery(t) ==
  LET row == locator[Day(t)]
  IN IF buckets = <<>> THEN None
     ELSE IF t <= buckets[1].endTs THEN 1
     ELSE IF t > buckets[Len(buckets)].endTs THEN None
     ELSE IF Day(t) \in DOMAIN locator /\ row[SlotInDay(t)] # None
          THEN row[SlotInDay(t)]
     ELSE FirstBucketWithEndAtLeast(t)

(* Position of an absolute slot in the bucket's sorted list of slots.      *)
LocalSlot(b, abs) == Cardinality({s \in buckets[b].slots : s < abs})

(* Mutants of LocalRange: the slot of the query's end is left out; no slot *)
(* is left out.                                                            *)
LocalRangeHalfOpen(b, lo, hi) ==
  LocalSlot(b, AbsSlot(AtLeast(buckets[b].startTs, lo)))
    .. LocalSlot(b, AbsSlot(AtMost(buckets[b].endTs, hi))) - 1

(* localRangeForQuery: lower_bound and upper_bound in the list of slots,   *)
(* for the part of the query inside the bucket.                            *)
LocalRange(b, lo, hi) ==
  LET from == AbsSlot(AtLeast(buckets[b].startTs, lo))
      to == AbsSlot(AtMost(buckets[b].endTs, hi))
  IN IF lo > hi \/ AtLeast(buckets[b].startTs, lo) > AtMost(buckets[b].endTs, hi)
     THEN {}
     ELSE LocalSlot(b, from) .. LocalSlot(b, to + 1) - 1

StartQuery(lo, hi) ==
  /\ phase = "idle" /\ query = {}
  /\ query' = {[lo |-> lo, hi |-> hi]}
  /\ cursor' = LocateFirstBucketForQuery(lo)
  /\ probed' = [b \in DOMAIN buckets |-> {}]
  /\ UNCHANGED <<config, building>>

(* The loop condition and its break. *)
WalkEnded(q) == cursor \in DOMAIN buckets => buckets[cursor].startTs > q.hi

(* One round: a bucket that ends before the query is passed over.          *)
VisitBucket ==
  \E q \in query :
    /\ ~WalkEnded(q)
    /\ probed' = IF buckets[cursor].endTs >= q.lo
                 THEN [probed EXCEPT ![cursor] = LocalRange(cursor, q.lo, q.hi)]
                 ELSE probed
    /\ cursor' = buckets[cursor].next
    /\ UNCHANGED <<config, building, query>>

EndQuery ==
  \E q \in query :
    /\ WalkEnded(q)
    /\ query' = {} /\ cursor' = None /\ probed' = <<>>
    /\ UNCHANGED <<config, building>>

Next ==
  \/ \E times \in Input : Build(times)
  \/ TakePoint
  \/ LinkAndLocate
  \/ \E lo, hi \in QueryTime : StartQuery(lo, hi)
  \/ VisitBucket
  \/ EndQuery

Spec == Init /\ [][Next]_vars

(* The loops run to their end once started: the code is sequential. *)
FairSpec == Spec /\ WF_vars(TakePoint \/ LinkAndLocate \/ VisitBucket \/ EndQuery)
-----------------------------------------------------------------------------
Built == phase = "idle"

(* Whatever the input and the settings, after build() every record is in   *)
(* a bucket that spans its time and has a local slot for it (the lookups   *)
(* the index construction asserts), and buckets follow each other in time. *)
BucketsHoldEveryRecord ==
  Built =>
    /\ \A r \in DOMAIN ts :
         /\ r \in DOMAIN recordToBucket
         /\ LET b == buckets[recordToBucket[r]]
            IN b.startTs <= ts[r] /\ ts[r] <= b.endTs /\ AbsSlot(ts[r]) \in b.slots
    /\ \A b, c \in DOMAIN buckets : b < c => buckets[b].endTs <= buckets[c].startTs

(* A bucket respects its limits, and two buckets share a slot only where   *)
(* the size limit forced a split, which is what the counter counts.        *)
SlotsAreSplitOnlyWhenForced ==
  LET splits == {b \in DOMAIN buckets :
                   /\ b + 1 \in DOMAIN buckets
                   /\ buckets[b].slots \cap buckets[b + 1].slots # {}}
  IN /\ \A b \in DOMAIN buckets :
          /\ buckets[b].count <= config.max
          /\ Cardinality(buckets[b].slots) <= config.maxSlots
     /\ \A b \in splits : buckets[b].count = config.max
     /\ Built => forcedSplits = Cardinality(splits)

(* The table may start a query too early, never too late: all buckets      *)
(* before the one it returns end before the query starts.  This is so for  *)
(* slot lengths that do not divide a day or leave the last rows late.      *)
LocatorNeverSkips ==
  Built =>
    \A t \in QueryTime :
      LET b == LocateFirstBucketForQuery(t)
      IN \A c \in DOMAIN buckets : (b = None \/ c < b) => buckets[c].endTs < t

(* When the walk ends, each record in the query's time range was probed    *)
(* for, in the bucket and the local slot it is indexed under.  On the way  *)
(* no record outside the slots that the query's ends fall into is probed   *)
(* for, and each local slot that is probed for exists in the bucket's tree.*)
WalkIsExact ==
  \A q \in query :
    /\ WalkEnded(q) =>
         \A r \in DOMAIN ts :
           (q.lo <= ts[r] /\ ts[r] <= q.hi) =>
             LET b == recordToBucket[r] IN LocalSlot(b, AbsSlot(ts[r])) \in probed[b]
    /\ \A b \in DOMAIN probed :
         /\ \A i \in probed[b] : i \in 0 .. Cardinality(buckets[b].slots) - 1
         /\ \A r \in DOMAIN ts :
              (recordToBucket[r] = b /\ LocalSlot(b, AbsSlot(ts[r])) \in probed[b]) =>
                AbsSlot(q.lo) <= AbsSlot(ts[r]) /\ AbsSlot(ts[r]) <= AbsSlot(q.hi)

(* A query is answered: the links lead out of the list of buckets.         *)
WalkTerminates == query # {} ~> query = {}
=============================================================================
