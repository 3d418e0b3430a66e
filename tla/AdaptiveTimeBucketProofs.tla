---------------------- MODULE AdaptiveTimeBucketProofs ----------------------
(***************************************************************************)
(* Proofs about AdaptiveTimeBucket for any records, settings, table and    *)
(* query times, negative ones included.                                    *)
(***************************************************************************)
EXTENDS AdaptiveTimeBucket, SumTheorems

-----------------------------------------------------------------------------
(* Arithmetic                                                              *)

LEMMA TimesMonotone ==
  ASSUME NEW a \in Int, NEW b \in Int, NEW d \in Nat, a <= b
  PROVE  a * d <= b * d
<1>1. (b - a) * d >= 0
  OBVIOUS
<1>2. QED
  BY <1>1

(* The quotient of naturals, by what it is between. *)
LEMMA DivBounds ==
  ASSUME NEW a \in Nat, NEW d \in Nat \ {0}
  PROVE  /\ a \div d \in Nat
         /\ (a \div d) * d <= a
         /\ a < (a \div d + 1) * d
OBVIOUS

(* FloorDiv rounds down, whatever the sign of the dividend. *)
LEMMA FloorDivBounds ==
  ASSUME NEW a \in Int, NEW d \in Nat \ {0}
  PROVE  /\ FloorDiv(a, d) \in Int
         /\ FloorDiv(a, d) * d <= a
         /\ a < (FloorDiv(a, d) + 1) * d
<1>1. CASE a >= 0
  BY <1>1, DivBounds DEF FloorDiv
<1>2. CASE a < 0
  <2> DEFINE n == -a + d - 1
             q == n \div d
  <2>1. n \in Nat
    BY <1>2
  <2>2. q \in Nat /\ q * d <= n /\ n < (q + 1) * d
    BY <2>1, DivBounds
  <2>3. FloorDiv(a, d) = -q
    BY <1>2 DEF FloorDiv
  <2> HIDE DEF q
  <2>4. (q + 1) * d = q * d + d /\ (-q) * d = -(q * d) /\ (-q + 1) * d = -(q * d) + d
    BY <2>2
  <2>5. QED
    BY <2>2, <2>3, <2>4
<1>3. QED
  BY <1>1, <1>2

LEMMA FloorDivMonotone ==
  ASSUME NEW a \in Int, NEW b \in Int, NEW d \in Nat \ {0}, a <= b
  PROVE  FloorDiv(a, d) <= FloorDiv(b, d)
<1> DEFINE p == FloorDiv(a, d)
           q == FloorDiv(b, d)
<1>1. p \in Int /\ q \in Int /\ p * d <= a /\ b < (q + 1) * d
  BY FloorDivBounds
<1> HIDE DEF p, q
<1>2. CASE p >= q + 1
  <2>1. (q + 1) * d <= p * d
    BY <1>1, <1>2, TimesMonotone
  <2>2. QED
    BY <1>1, <2>1
<1>3. QED
  BY <1>1, <1>2 DEF p, q

-----------------------------------------------------------------------------
(* The inductive invariant                                                 *)

N == Cardinality(DOMAIN ts)

(* Time and absolute slot of the record at a position of the sorted order. *)
At(i) == ts[points[i]]
Abs(i) == AbsSlot(At(i))

SettingInv == config \in [slotSeconds : Nat \ {0}, target : Nat \ {0}, max : Nat \ {0}, maxSlots : Nat \ {0}]

(* All records are in the order, and the order is by time. *)
OrderInv ==
  /\ IsFiniteSet(DOMAIN ts) /\ \A r \in DOMAIN ts : r \in Int /\ ts[r] \in Int
  /\ points \in Orders(ts) /\ IsSorted(points, ts)

(* The current bucket has the positions first .. taken and is within its   *)
(* limits, so that it still is when the next record has joined it.         *)
LoopInv ==
  /\ phase \in {"idle", "fill", "link"}
  /\ taken \in 0 .. N /\ first \in 1 .. taken + 1
  /\ IF phase = "fill" THEN taken < N ELSE taken = N /\ first = N + 1
  /\ slots = {Abs(i) : i \in first .. taken}
  /\ taken - first + 1 < config.max
  /\ IsFiniteSet(slots) /\ Cardinality(slots) <= config.maxSlots
  /\ first <= taken /\ taken < N /\ Abs(taken + 1) # Abs(taken) =>
       Cardinality(slots) < config.maxSlots

(* The closed buckets cut the positions before first into intervals; e     *)
(* says where each one ends.                                               *)
IsSplit(e, b) == e[b] < N /\ Abs(e[b] + 1) = Abs(e[b])

IsCut(e, b) ==
  /\ buckets[b].startTs = At(e[b - 1] + 1) /\ buckets[b].endTs = At(e[b])
  /\ buckets[b].count = e[b] - e[b - 1]
  /\ buckets[b].slots = {Abs(i) : i \in e[b - 1] + 1 .. e[b]}
  /\ IsFiniteSet(buckets[b].slots)
  /\ buckets[b].count <= config.max /\ Cardinality(buckets[b].slots) <= config.maxSlots
  /\ IsSplit(e, b) => buckets[b].count = config.max

Cuts(e) ==
  /\ e[0] = 0 /\ e[Len(buckets)] = first - 1
  /\ \A b, c \in 0 .. Len(buckets) : b < c => e[b] < e[c]
  /\ \A b \in 1 .. Len(buckets) : IsCut(e, b)
  /\ \A i \in 1 .. first - 1 :
       /\ recordToBucket[points[i]] \in 1 .. Len(buckets)
       /\ e[recordToBucket[points[i]] - 1] < i /\ i <= e[recordToBucket[points[i]]]
  /\ forcedSplits = Cardinality({b \in 1 .. Len(buckets) : IsSplit(e, b)})

CutInv ==
  /\ buckets \in Seq([startTs : Int, endTs : Int, count : Int, slots : SUBSET Int, next : Int])
  /\ DOMAIN recordToBucket = {points[i] : i \in 1 .. first - 1}
  /\ \E e \in [0 .. Len(buckets) -> 0 .. taken] : Cuts(e)

(* The links, and a table whose rows are not too late: the buckets before  *)
(* an entry end before the entry's slot starts.                            *)
NotLate(v, t) ==
  /\ v \in 0 .. Len(buckets)
  /\ \A c \in DOMAIN buckets : (v = None \/ c < v) => buckets[c].endTs < t

LinkInv ==
  phase = "idle" =>
    /\ \A b \in DOMAIN buckets : buckets[b].next = NextBucketId(b)
    /\ DOMAIN locator \subseteq Int
    /\ \A day \in DOMAIN locator, s \in 0 .. LocatorSlots - 1 :
         NotLate(locator[day][s], day * SecondsPerDay + s * config.slotSeconds)

(* The walk has probed the buckets before its cursor as far as they reach  *)
(* into the query's range, and no other.                                   *)
Reached(b) == cursor = None \/ b < cursor

WalkInv ==
  \A q \in query :
    /\ phase = "idle" /\ q.lo \in Int /\ q.hi \in Int /\ query = {q}
    /\ DOMAIN probed = DOMAIN buckets /\ cursor \in 0 .. Len(buckets)
    /\ \A b \in DOMAIN buckets :
         /\ probed[b] \in {{}, LocalRange(b, q.lo, q.hi)}
         /\ Reached(b) /\ q.lo <= buckets[b].endTs => probed[b] = LocalRange(b, q.lo, q.hi)

BucketInv == SettingInv /\ OrderInv /\ LoopInv /\ CutInv /\ LinkInv /\ WalkInv

-----------------------------------------------------------------------------
(* The order of the records                                                *)

LEMMA OrderFacts ==
  ASSUME SettingInv, OrderInv
  PROVE  /\ N \in Nat /\ points \in Seq(DOMAIN ts) /\ Len(points) = N /\ DOMAIN points = 1 .. N
         /\ \A i \in 1 .. N : points[i] \in DOMAIN ts /\ At(i) \in Int /\ Abs(i) \in Int
         /\ \A i, j \in 1 .. N : i <= j => At(i) <= At(j) /\ Abs(i) <= Abs(j)
         /\ \A i, j \in 1 .. N : points[i] = points[j] => i = j
         /\ \A r \in DOMAIN ts : \E i \in 1 .. N : points[i] = r
<1>0. config.slotSeconds \in Nat \ {0}
  BY DEF SettingInv
<1>1. N \in Nat
  BY FS_CardinalityType DEF OrderInv, N
<1>2. points \in [1 .. N -> DOMAIN ts]
  BY DEF OrderInv, Orders, N
<1>3. points \in Seq(DOMAIN ts) /\ Len(points) = N /\ DOMAIN points = 1 .. N
  BY <1>1, <1>2
<1>4. \A i \in 1 .. N : points[i] \in DOMAIN ts /\ points[i] \in Int /\ At(i) \in Int
  BY <1>2 DEF OrderInv, At
<1>5. \A i \in 1 .. N : Abs(i) \in Int
  BY <1>0, <1>4, FloorDivBounds DEF Abs, AbsSlot
<1>6. \A i, j \in 1 .. N : i < j => At(i) < At(j) \/ (At(i) = At(j) /\ points[i] < points[j])
  BY <1>3 DEF OrderInv, IsSorted, Before, At
<1>7. \A i, j \in 1 .. N : i <= j => At(i) <= At(j)
  BY <1>4, <1>6
<1>8. \A i, j \in 1 .. N : i <= j => Abs(i) <= Abs(j)
  BY <1>0, <1>4, <1>7, FloorDivMonotone DEF Abs, AbsSlot
<1>9. \A i, j \in 1 .. N : points[i] = points[j] => i = j
  <2>1. \A i, j \in 1 .. N : i < j => points[i] # points[j]
    BY <1>4, <1>6 DEF At
  <2>2. QED
    BY <1>1, <2>1
<1>10. \A r \in DOMAIN ts : \E i \in 1 .. N : points[i] = r
  <2>1. points \in Injection(1 .. N, DOMAIN ts)
    BY <1>2, <1>9 DEF Injection, IsInjective
  <2>2. IsFiniteSet(DOMAIN ts) /\ Cardinality(1 .. N) = N
    BY <1>1, FS_Interval DEF OrderInv
  <2>3. points \in Surjection(1 .. N, DOMAIN ts)
    BY <2>1, <2>2, FS_Injection DEF N
  <2>4. QED
    BY <2>3 DEF Surjection
<1>11. QED
  BY <1>1, <1>3, <1>4, <1>5, <1>7, <1>8, <1>9, <1>10

(* What follows for the buckets: each spans its records, and they follow   *)
(* each other in time.                                                     *)
LEMMA CutFacts ==
  ASSUME SettingInv, OrderInv, LoopInv, CutInv,
         NEW e \in [0 .. Len(buckets) -> 0 .. taken], Cuts(e)
  PROVE  /\ Len(buckets) \in Nat /\ DOMAIN buckets = 1 .. Len(buckets)
         /\ \A b \in 1 .. Len(buckets) :
              /\ e[b] \in 1 .. N /\ e[b - 1] + 1 \in 1 .. N /\ e[b - 1] + 1 <= e[b]
              /\ b - 1 \in 0 .. Len(buckets) /\ e[b - 1] \in 0 .. N
              /\ buckets[b].startTs = At(e[b - 1] + 1) /\ buckets[b].endTs = At(e[b])
              /\ buckets[b].startTs \in Int /\ buckets[b].endTs \in Int
              /\ buckets[b].startTs <= buckets[b].endTs
         /\ \A b, c \in 1 .. Len(buckets) : b < c =>
              /\ e[b] <= e[c - 1] /\ buckets[b].endTs <= buckets[c].startTs
<1>1. Len(buckets) \in Nat /\ DOMAIN buckets = 1 .. Len(buckets)
  BY DEF CutInv
<1>2. N \in Nat /\ taken \in 0 .. N
  BY OrderFacts DEF LoopInv
<1>3. ASSUME NEW b \in 1 .. Len(buckets)
      PROVE  /\ e[b] \in 1 .. N /\ e[b - 1] + 1 \in 1 .. N /\ e[b - 1] + 1 <= e[b]
             /\ b - 1 \in 0 .. Len(buckets) /\ e[b - 1] \in 0 .. N
  <2>1. b \in 0 .. Len(buckets) /\ b - 1 \in 0 .. Len(buckets) /\ b - 1 < b
    BY <1>1
  <2>2. e[b] \in 0 .. taken /\ e[b - 1] \in 0 .. taken /\ e[b - 1] < e[b]
    BY <2>1 DEF Cuts
  <2>3. QED
    BY <1>2, <2>1, <2>2
<1>4. ASSUME NEW b \in 1 .. Len(buckets)
      PROVE  /\ buckets[b].startTs = At(e[b - 1] + 1) /\ buckets[b].endTs = At(e[b])
             /\ buckets[b].startTs \in Int /\ buckets[b].endTs \in Int
             /\ buckets[b].startTs <= buckets[b].endTs
  <2>1. buckets[b].startTs = At(e[b - 1] + 1) /\ buckets[b].endTs = At(e[b])
    BY DEF Cuts, IsCut
  <2>2. /\ At(e[b - 1] + 1) \in Int /\ At(e[b]) \in Int
        /\ At(e[b - 1] + 1) <= At(e[b])
    BY <1>3, OrderFacts
  <2>3. QED
    BY <2>1, <2>2
<1>5. ASSUME NEW b \in 1 .. Len(buckets), NEW c \in 1 .. Len(buckets), b < c
      PROVE  e[b] <= e[c - 1] /\ buckets[b].endTs <= buckets[c].startTs
  <2>1. b <= c - 1 /\ b \in 0 .. Len(buckets) /\ c - 1 \in 0 .. Len(buckets)
    BY <1>1, <1>5
  <2>2. e[b] <= e[c - 1]
    <3>1. b = c - 1 \/ b < c - 1
      BY <2>1
    <3>2. e[b] \in 0 .. N /\ e[c - 1] \in 0 .. N
      BY <1>3
    <3>3. \A x, y \in 0 .. Len(buckets) : x < y => e[x] < e[y]
      BY DEF Cuts
    <3>4. QED
      BY <2>1, <3>1, <3>2, <3>3
  <2>3. e[b] <= e[c - 1] + 1
    BY <1>3, <2>2
  <2>4. At(e[b]) <= At(e[c - 1] + 1)
    BY <1>3, <2>3, OrderFacts
  <2>5. QED
    BY <1>4, <2>2, <2>4
<1>6. QED
  BY <1>1, <1>3, <1>4, <1>5

-----------------------------------------------------------------------------
(* Beginning a build                                                       *)

Bucket == [startTs : Int, endTs : Int, count : Int, slots : SUBSET Int, next : Int]

(* No buckets are a cut of no positions. *)
NothingTaken ==
  buckets = <<>> /\ recordToBucket = <<>> /\ first = 1 /\ taken = 0 /\ forcedSplits = 0

LEMMA NothingCut == NothingTaken => CutInv
<1> SUFFICES ASSUME NothingTaken PROVE CutInv
  OBVIOUS
<1> USE DEF NothingTaken
<1> DEFINE e == [b \in 0 .. 0 |-> 0]
<1>1. Len(buckets) = 0 /\ DOMAIN recordToBucket = {} /\ 0 .. Len(buckets) = {0} /\ 1 .. Len(buckets) = {}
  OBVIOUS
<1>2. e \in [0 .. Len(buckets) -> 0 .. taken] /\ e[0] = 0
  BY <1>1
<1>3. Cardinality({b \in 1 .. Len(buckets) : IsSplit(e, b)}) = 0
  BY <1>1, FS_EmptySet
<1>4. 1 .. first - 1 = {}
  OBVIOUS
<1>5. Cuts(e)
  <2> HIDE DEF e
  <2>1. QED
    BY <1>1, <1>2, <1>3, <1>4 DEF Cuts
<1>6. buckets \in Seq([startTs : Int, endTs : Int, count : Int, slots : SUBSET Int, next : Int])
  OBVIOUS
<1>7. QED
  BY <1>1, <1>2, <1>4, <1>5, <1>6 DEF CutInv

LEMMA InitBucketInv == Init => BucketInv
<1> SUFFICES ASSUME Init PROVE BucketInv
  OBVIOUS
<1>1. SettingInv
  BY TimeAssumption DEF Init, Clamped, AtLeast, SettingInv
<1>2. DOMAIN ts = {} /\ N = 0
  BY FS_EmptySet DEF Init, N
<1>3. OrderInv
  BY <1>2, FS_EmptySet DEF Init, OrderInv, Orders, IsSorted, N
<1>4. LoopInv
  BY <1>1, <1>2, FS_EmptySet DEF Init, LoopInv, SettingInv
<1>5. CutInv
  BY NothingCut DEF Init, NothingTaken
<1>6. LinkInv /\ WalkInv
  BY DEF Init, LinkInv, WalkInv
<1>7. QED
  BY <1>1, <1>3, <1>4, <1>5, <1>6 DEF BucketInv

LEMMA BuildKeepsBucketInv ==
  ASSUME BucketInv, NEW times \in Input, Build(times)
  PROVE  BucketInv'
<1>1. /\ ts' = times /\ points' \in Orders(times) /\ IsSorted(points', times)
      /\ phase' = (IF DOMAIN times = {} THEN "idle" ELSE "fill")
      /\ taken' = 0 /\ first' = 1 /\ slots' = {} /\ buckets' = <<>> /\ recordToBucket' = <<>>
      /\ forcedSplits' = 0 /\ locator' = <<>> /\ config' = config
      /\ query' = query /\ query = {}
  BY DEF Build, asking
<1>2. SettingInv'
  BY <1>1 DEF BucketInv, SettingInv
<1>3. IsFiniteSet(DOMAIN times) /\ \A r \in DOMAIN times : r \in Int /\ times[r] \in Int
  BY InputAssumption
<1>4. OrderInv'
  BY <1>1, <1>3 DEF OrderInv, Orders
<1>5. N' = Cardinality(DOMAIN times) /\ N' \in Nat /\ (N' = 0 <=> DOMAIN times = {})
  BY <1>1, <1>3, FS_CardinalityType, FS_EmptySet DEF N
<1>6. LoopInv'
  <2>1. phase' = (IF N' = 0 THEN "idle" ELSE "fill")
    BY <1>1, <1>5
  <2>2. QED
    BY <1>1, <1>2, <1>5, <2>1, FS_EmptySet DEF LoopInv, SettingInv
<1>7. CutInv'
  <2>1. NothingTaken'
    BY <1>1 DEF NothingTaken
  <2>2. QED
    BY <2>1, NothingCut, PTL
<1>8. LinkInv' /\ WalkInv'
  BY <1>1 DEF LinkInv, WalkInv
<1>9. QED
  BY <1>2, <1>4, <1>6, <1>7, <1>8 DEF BucketInv

-----------------------------------------------------------------------------
(* Taking a record                                                         *)

Occupied == slots \cup {Abs(taken + 1)}
Count == (taken + 1) - first + 1
NextSlotDiffers == taken + 1 # N => Abs(taken + 2) # Abs(taken + 1)

(* The definitions of TakePoint, in the terms of the invariant. *)
LEMMA TakePointIs ==
  ASSUME BucketInv, TakePoint
  PROVE  /\ phase = "fill" /\ taken' = taken + 1 /\ UNCHANGED <<config, ts, points, locator, asking>>
         /\ \/ /\ ClosesBucket(Count, Occupied, NextSlotDiffers) \/ taken + 1 = N
               /\ Close(taken + 1, Occupied)
            \/ /\ ~ClosesBucket(Count, Occupied, NextSlotDiffers) /\ taken + 1 # N
               /\ slots' = Occupied /\ UNCHANGED <<first, buckets, recordToBucket>>
         /\ forcedSplits' = IF Count >= config.max /\ ~NextSlotDiffers
                            THEN forcedSplits + 1 ELSE forcedSplits
         /\ phase' = IF taken + 1 = N THEN "link" ELSE "fill"
<1> DEFINE i == taken + 1
           abs == AbsSlot(ts[points[i]])
           occ == slots \cup {abs}
           nsd == ~(i = Len(points)) => AbsSlot(ts[points[i + 1]]) # abs
           cnt == i - first + 1
<1>1. Len(points) = N
  BY OrderFacts DEF BucketInv
<1>2. abs = Abs(taken + 1) /\ occ = Occupied /\ cnt = Count
  <2>1. abs = Abs(taken + 1)
    BY DEF Abs, At
  <2> HIDE DEF abs
  <2>2. occ = Occupied
    BY <2>1, Zenon DEF Occupied
  <2>3. cnt = Count
    BY DEF Count
  <2>4. QED
    BY <2>1, <2>2, <2>3
<1>3. nsd <=> NextSlotDiffers
  <2>1. (taken + 1) + 1 = taken + 2
    BY DEF BucketInv, LoopInv
  <2>2. QED
    BY <1>1, <2>1 DEF NextSlotDiffers, Abs, At
<1>4. /\ phase = "fill" /\ taken' = taken + 1 /\ UNCHANGED <<config, ts, points, locator, asking>>
      /\ phase' = IF i = Len(points) THEN "link" ELSE "fill"
  BY DEF TakePoint
<1>5. \/ (ClosesBucket(cnt, occ, nsd) \/ i = Len(points)) /\ Close(i, occ)
      \/ /\ ~ClosesBucket(cnt, occ, nsd) /\ ~(i = Len(points))
         /\ slots' = occ /\ UNCHANGED <<first, buckets, recordToBucket>>
  BY DEF TakePoint
<1>6. forcedSplits' = IF cnt >= config.max /\ ~nsd THEN forcedSplits + 1 ELSE forcedSplits
  BY DEF TakePoint
<1>7. ClosesBucket(cnt, occ, nsd) <=> ClosesBucket(Count, Occupied, NextSlotDiffers)
  <2> HIDE DEF nsd, occ, cnt
  <2>1. QED
    BY <1>2, <1>3 DEF ClosesBucket
<1>8. forcedSplits' = IF Count >= config.max /\ ~NextSlotDiffers THEN forcedSplits + 1 ELSE forcedSplits
  <2> HIDE DEF nsd, cnt
  <2>1. QED
    BY <1>2, <1>3, <1>6
<1>9. QED
  <2> HIDE DEF nsd, occ, cnt
  <2>1. QED
    BY <1>1, <1>2, <1>4, <1>5, <1>7, <1>8

(* The record fits into the current bucket. *)
LEMMA RecordFits ==
  ASSUME BucketInv, phase = "fill"
  PROVE  /\ N \in Nat /\ taken \in 0 .. N - 1 /\ first \in 1 .. taken + 1
         /\ Occupied = {Abs(i) : i \in first .. taken + 1}
         /\ IsFiniteSet(Occupied) /\ Cardinality(Occupied) <= config.maxSlots
         /\ Cardinality(Occupied) \in Nat
         /\ Count <= config.max /\ Count \in Nat
         /\ config.max \in Nat \ {0} /\ config.maxSlots \in Nat \ {0} /\ Occupied \subseteq Int
<1>0. SettingInv /\ OrderInv /\ LoopInv
  BY DEF BucketInv
<1>1. /\ N \in Nat /\ taken \in 0 .. N - 1 /\ first \in 1 .. taken + 1
      /\ config.max \in Nat \ {0} /\ config.maxSlots \in Nat \ {0}
  BY <1>0, OrderFacts DEF LoopInv, SettingInv
<1>2. slots = {Abs(i) : i \in first .. taken} /\ IsFiniteSet(slots) /\ Cardinality(slots) \in Nat
  BY <1>0, FS_CardinalityType DEF LoopInv
<1>3. Occupied = {Abs(i) : i \in first .. taken + 1}
  <2>1. first .. taken + 1 = (first .. taken) \cup {taken + 1}
    BY <1>1
  <2>2. QED
    BY <1>2, <2>1 DEF Occupied
<1>4. IsFiniteSet(Occupied) /\ Cardinality(Occupied) \in Nat
  BY <1>2, FS_AddElement, FS_CardinalityType DEF Occupied
<1>5. Cardinality(Occupied) <= config.maxSlots
  <2>1. CASE first = taken + 1
    <3>1. slots = {}
      BY <1>1, <1>2, <2>1
    <3>2. Cardinality(Occupied) = 1
      BY <3>1, FS_Singleton DEF Occupied
    <3>3. QED
      BY <1>1, <3>2
  <2>2. CASE first <= taken /\ Abs(taken + 1) = Abs(taken)
    <3>1. Abs(taken) \in slots
      BY <1>1, <1>2, <2>2
    <3>2. Occupied = slots
      BY <2>2, <3>1 DEF Occupied
    <3>3. QED
      BY <1>0, <3>2 DEF LoopInv
  <2>3. CASE first <= taken /\ Abs(taken + 1) # Abs(taken)
    <3>1. Cardinality(slots) < config.maxSlots
      BY <1>0, <1>1, <2>3 DEF LoopInv
    <3>2. Cardinality(Occupied) <= Cardinality(slots) + 1
      BY <1>2, FS_AddElement DEF Occupied
    <3>3. QED
      BY <1>1, <1>2, <1>4, <3>1, <3>2
  <2>4. QED
    BY <1>1, <2>1, <2>2, <2>3
<1>6. Count <= config.max /\ Count \in Nat
  BY <1>0, <1>1 DEF LoopInv, Count
<1>7. Occupied \subseteq Int
  <2>1. \A i \in first .. taken + 1 : i \in 1 .. N
    BY <1>1
  <2>2. \A i \in first .. taken + 1 : Abs(i) \in Int
    BY <1>0, <2>1, OrderFacts
  <2>3. QED
    BY <1>3, <2>2
<1>8. QED
  BY <1>1, <1>3, <1>4, <1>5, <1>6, <1>7

(* Positions keep their times and slots as long as nothing is built anew. *)
LEMMA PositionsRest ==
  ASSUME UNCHANGED <<config, ts, points>>
  PROVE  /\ N' = N /\ (SettingInv => SettingInv') /\ (OrderInv => OrderInv')
         /\ \A i : At(i)' = At(i) /\ Abs(i)' = Abs(i)
<1>1. N' = N
  BY DEF N
<1>2. \A i : At(i)' = At(i)
  BY DEF At
<1>3. \A i : Abs(i)' = Abs(i)
  BY <1>2 DEF Abs, AbsSlot
<1>4. (SettingInv => SettingInv') /\ (OrderInv => OrderInv')
  BY DEF SettingInv, OrderInv, Orders
<1>5. QED
  BY <1>1, <1>2, <1>3, <1>4

(* The bucket stays open: the next record will fit as well, by its size    *)
(* and, where a new slot begins, by its slots.                             *)
LEMMA KeepsOpen ==
  ASSUME BucketInv, phase = "fill", taken' = taken + 1,
         UNCHANGED <<config, ts, points, locator, asking>>,
         ~ClosesBucket(Count, Occupied, NextSlotDiffers), taken + 1 # N,
         slots' = Occupied, UNCHANGED <<first, buckets, recordToBucket, forcedSplits>>,
         phase' = "fill"
  PROVE  LoopInv' /\ CutInv'
<1>0. SettingInv /\ OrderInv /\ LoopInv /\ CutInv
  BY DEF BucketInv
<1>1. /\ N \in Nat /\ taken \in 0 .. N - 1 /\ first \in 1 .. taken + 1
      /\ Occupied = {Abs(i) : i \in first .. taken + 1}
      /\ IsFiniteSet(Occupied) /\ Cardinality(Occupied) <= config.maxSlots
      /\ Cardinality(Occupied) \in Nat /\ Count \in Nat
      /\ config.max \in Nat \ {0} /\ config.maxSlots \in Nat \ {0}
  BY RecordFits
<1>2. N' = N /\ \A i : At(i)' = At(i) /\ Abs(i)' = Abs(i)
  BY PositionsRest
<1>3. LoopInv'
  <2>1. slots' = {Abs(i)' : i \in first' .. taken'}
    BY <1>1, <1>2
  <2>2. taken' - first' + 1 < config'.max
    BY <1>1 DEF ClosesBucket, Count
  <2>3. Abs(taken + 1)' = Abs(taken + 2) /\ Abs(taken)' = Abs(taken + 1)
    <3>1. taken' + 1 = taken + 2 /\ taken' = taken + 1
      BY <1>1
    <3>2. QED
      BY <3>1 DEF Abs, At, AbsSlot
  <2>4. Abs(taken + 2) # Abs(taken + 1) => Cardinality(slots') < config'.maxSlots
    <3>1. NextSlotDiffers => ~(Cardinality(Occupied) >= config.maxSlots)
      BY DEF ClosesBucket
    <3>2. QED
      BY <1>1, <3>1 DEF NextSlotDiffers
  <2>5. taken' \in 0 .. N' /\ first' \in 1 .. taken' + 1 /\ taken' < N'
    BY <1>1, <1>2
  <2>6. IsFiniteSet(slots') /\ Cardinality(slots') <= config'.maxSlots
    BY <1>1
  <2>7. QED
    BY <2>1, <2>2, <2>3, <2>4, <2>5, <2>6 DEF LoopInv
<1>4. CutInv'
  <2>1. PICK e \in [0 .. Len(buckets) -> 0 .. taken] : Cuts(e)
    BY <1>0 DEF CutInv
  <2>2. e \in [0 .. Len(buckets') -> 0 .. taken']
    BY <1>1, <2>1
  <2>3. Cuts(e)'
    BY <1>2, <2>1 DEF Cuts, IsCut, IsSplit
  <2>4. DOMAIN recordToBucket' = {points'[i] : i \in 1 .. first' - 1}
    BY <1>0 DEF CutInv
  <2>5. QED
    BY <1>0, <2>2, <2>3, <2>4 DEF CutInv
<1>5. QED
  BY <1>3, <1>4

(* The bucket is closed: the cut gets one more end, and the counter counts *)
(* it if the size limit has closed it inside a slot.                       *)
LEMMA Closes ==
  ASSUME BucketInv, phase = "fill", taken' = taken + 1,
         UNCHANGED <<config, ts, points, locator, asking>>,
         ClosesBucket(Count, Occupied, NextSlotDiffers) \/ taken + 1 = N,
         Close(taken + 1, Occupied),
         forcedSplits' = IF Count >= config.max /\ ~NextSlotDiffers
                         THEN forcedSplits + 1 ELSE forcedSplits,
         phase' = IF taken + 1 = N THEN "link" ELSE "fill"
  PROVE  LoopInv' /\ CutInv'
<1>0. SettingInv /\ OrderInv /\ LoopInv /\ CutInv
  BY DEF BucketInv
<1>k. PICK K, n : K = Len(buckets) /\ n = taken + 1
  OBVIOUS
<1> USE <1>k
<1>1. /\ N \in Nat /\ taken \in 0 .. N - 1 /\ first \in 1 .. n
      /\ Occupied = {Abs(i) : i \in first .. n}
      /\ IsFiniteSet(Occupied) /\ Cardinality(Occupied) <= config.maxSlots
      /\ Count <= config.max /\ Count \in Nat
      /\ config.max \in Nat \ {0} /\ config.maxSlots \in Nat \ {0} /\ Occupied \subseteq Int
  BY RecordFits
<1>2. N' = N /\ \A i : At(i)' = At(i) /\ Abs(i)' = Abs(i)
  BY PositionsRest
<1>3. n \in 1 .. N /\ first \in 1 .. N
  BY <1>1
<1>4. LoopInv'
  <2>1. first' = n + 1 /\ slots' = {} /\ Cardinality({}) = 0 /\ IsFiniteSet({})
    BY FS_EmptySet DEF Close
  <2>2. slots' = {Abs(i)' : i \in first' .. taken'}
    BY <1>1, <2>1
  <2>3. QED
    BY <1>1, <1>2, <2>1, <2>2 DEF LoopInv
<1>5. PICK e \in [0 .. K -> 0 .. taken] : Cuts(e)
  BY <1>0 DEF CutInv
<1>6. K \in Nat /\ buckets \in Seq(Bucket) /\ DOMAIN buckets = 1 .. K
  BY <1>0 DEF CutInv, Bucket
<1> DEFINE new == ClosedBucket(n, Occupied)
<1>7. /\ new \in Bucket /\ new.startTs = At(first) /\ new.endTs = At(n)
      /\ new.count = n - first + 1 /\ new.slots = Occupied
  <2>1. ts[points[first]] \in Int /\ ts[points[n]] \in Int
    BY <1>0, <1>3, OrderFacts DEF At
  <2>2. n - first + 1 \in Int
    BY <1>1
  <2>3. new = [startTs |-> ts[points[first]], endTs |-> ts[points[n]],
               count |-> n - first + 1, slots |-> Occupied, next |-> None]
    BY DEF ClosedBucket
  <2> HIDE DEF new
  <2>4. QED
    BY <1>1, <2>1, <2>2, <2>3 DEF At, Bucket, None
<1> HIDE DEF new
<1>8. /\ buckets' = Append(buckets, new) /\ first' = n + 1
      /\ recordToBucket' = [r \in DOMAIN recordToBucket \cup {points[i] : i \in first .. n} |->
                              IF r \in {points[i] : i \in first .. n} THEN K + 1
                              ELSE recordToBucket[r]]
  BY DEF Close, new
<1>9. /\ buckets' \in Seq(Bucket) /\ Len(buckets') = K + 1
      /\ buckets'[K + 1] = new /\ \A b \in 1 .. K : buckets'[b] = buckets[b]
  BY <1>6, <1>7, <1>8
<1>10. /\ e[0] = 0 /\ e[K] = first - 1 /\ \A b, c \in 0 .. K : b < c => e[b] < e[c]
       /\ \A b \in 0 .. K : e[b] \in 0 .. taken
  BY <1>5 DEF Cuts
<1>11. PICK d \in [0 .. K + 1 -> 0 .. n] :
         d[0] = 0 /\ d[K + 1] = n /\ \A b \in 0 .. K : d[b] = e[b]
  <2> DEFINE f == [b \in 0 .. K + 1 |-> IF b = K + 1 THEN n ELSE e[b]]
  <2>1. \A b \in 0 .. K : e[b] \in 0 .. n
    BY <1>1, <1>10
  <2>2. n \in 0 .. n /\ 0 \in 0 .. K /\ 0 # K + 1
    BY <1>1, <1>6
  <2>3. /\ f \in [0 .. K + 1 -> 0 .. n] /\ f[0] = 0 /\ f[K + 1] = n
        /\ \A b \in 0 .. K : f[b] = e[b]
    BY <1>6, <1>10, <2>1, <2>2
  <2> HIDE DEF f
  <2>4. QED
    BY <2>3
<1>12. \A b, c \in 0 .. K + 1 : b < c => d[b] < d[c]
  <2>1. SUFFICES ASSUME NEW b \in 0 .. K + 1, NEW c \in 0 .. K + 1, b < c PROVE d[b] < d[c]
    OBVIOUS
  <2>2. b \in 0 .. K
    BY <1>6, <2>1
  <2>3. CASE c = K + 1
    BY <1>1, <1>10, <1>11, <2>2, <2>3
  <2>4. CASE c \in 0 .. K
    BY <1>10, <1>11, <2>1, <2>2, <2>4
  <2>5. QED
    BY <1>6, <2>3, <2>4
<1>13. \A b \in 1 .. K : IsCut(e, b) /\ (IsSplit(d, b) <=> IsSplit(e, b))
                       /\ b \in 0 .. K /\ b - 1 \in 0 .. K
  <2>1. \A b \in 1 .. K : b \in 0 .. K /\ b - 1 \in 0 .. K
    BY <1>6
  <2>2. \A b \in 1 .. K : IsCut(e, b)
    BY <1>5 DEF Cuts
  <2>3. QED
    BY <1>11, <2>1, <2>2 DEF IsSplit
<1>14. IsSplit(d, K + 1) <=> ~NextSlotDiffers
  <2>1. n + 1 = taken + 2 /\ (n < N <=> n # N)
    BY <1>1
  <2>2. QED
    BY <1>11, <2>1 DEF IsSplit, NextSlotDiffers
<1>15. ~NextSlotDiffers => Count >= config.max
  BY DEF ClosesBucket, NextSlotDiffers
<1>16. \A b \in 1 .. K + 1 : IsSplit(d, b)' <=> IsSplit(d, b)
  BY <1>2 DEF IsSplit
<1>17. \A b \in 1 .. K + 1 : IsCut(d, b)'
  <2>1. ASSUME NEW b \in 1 .. K PROVE IsCut(d, b)'
    <3>1. d[b] = e[b] /\ d[b - 1] = e[b - 1] /\ buckets'[b] = buckets[b]
      BY <1>9, <1>11, <1>13
    <3>2. IsCut(e, b)
      BY <1>13
    <3>3. IsSplit(d, b)' <=> IsSplit(e, b)
      BY <1>6, <1>13, <1>16
    <3>4. QED
      BY <1>2, <3>1, <3>2, <3>3 DEF IsCut
  <2>2. IsCut(d, K + 1)'
    <3>1. d[K + 1] = n /\ d[(K + 1) - 1] = first - 1 /\ (first - 1) + 1 = first
      BY <1>1, <1>6, <1>10, <1>11
    <3>2. buckets'[K + 1] = new /\ new.count = n - (first - 1) /\ new.count = Count
      BY <1>1, <1>7, <1>9 DEF Count
    <3>3. IsSplit(d, K + 1)' => Count = config.max
      BY <1>1, <1>6, <1>14, <1>15, <1>16
    <3>4. QED
      BY <1>1, <1>2, <1>7, <3>1, <3>2, <3>3 DEF IsCut
  <2>3. QED
    BY <1>6, <2>1, <2>2
<1>18. forcedSplits' = Cardinality({b \in 1 .. K + 1 : IsSplit(d, b)})
  <2> DEFINE S == {b \in 1 .. K : IsSplit(e, b)}
  <2>1. forcedSplits = Cardinality(S) /\ IsFiniteSet(S) /\ Cardinality(S) \in Nat
    <3>1. IsFiniteSet(1 .. K)
      BY <1>6, FS_Interval
    <3>2. IsFiniteSet(S)
      BY <3>1, FS_Subset
    <3>3. QED
      BY <1>5, <3>2, FS_CardinalityType DEF Cuts
  <2>2. K + 1 \notin S
    BY <1>6
  <2>3. {b \in 1 .. K + 1 : IsSplit(d, b)} = IF NextSlotDiffers THEN S ELSE S \cup {K + 1}
    <3>1. 1 .. K + 1 = (1 .. K) \cup {K + 1}
      BY <1>6
    <3>2. QED
      BY <1>13, <1>14, <3>1
  <2>4. Cardinality(S \cup {K + 1}) = Cardinality(S) + 1
    BY <2>1, <2>2, FS_AddElement
  <2> HIDE DEF S
  <2>5. QED
    BY <1>15, <2>1, <2>3, <2>4
<1>19. \A i \in 1 .. n : LET b == recordToBucket'[points[i]] IN
         b \in 1 .. K + 1 /\ d[b - 1] < i /\ i <= d[b]
  <2> DEFINE members == {points[i] : i \in first .. n}
  <2>0. DOMAIN recordToBucket = {points[i] : i \in 1 .. first - 1}
    BY <1>0 DEF CutInv
  <2>1. ASSUME NEW i \in 1 .. first - 1
        PROVE  recordToBucket'[points[i]] = recordToBucket[points[i]]
    <3>1. points[i] \notin members
      <4>1. i \in 1 .. N /\ \A j \in first .. n : j \in 1 .. N /\ j # i
        BY <1>1
      <4>2. QED
        BY <1>0, <4>1, OrderFacts
    <3>2. points[i] \in DOMAIN recordToBucket
      BY <2>0
    <3>3. QED
      BY <1>8, <3>1, <3>2
  <2>2. ASSUME NEW i \in first .. n PROVE recordToBucket'[points[i]] = K + 1
    BY <1>8
  <2>3. ASSUME NEW i \in 1 .. first - 1
        PROVE  LET b == recordToBucket[points[i]] IN
               b \in 1 .. K + 1 /\ d[b - 1] < i /\ i <= d[b]
    <3> DEFINE b == recordToBucket[points[i]]
    <3>1. b \in 1 .. K /\ e[b - 1] < i /\ i <= e[b]
      BY <1>5 DEF Cuts
    <3>2. b \in 1 .. K + 1 /\ d[b - 1] = e[b - 1] /\ d[b] = e[b]
      BY <1>6, <1>11, <1>13, <3>1
    <3>3. QED
      BY <3>1, <3>2
  <2>4. ASSUME NEW i \in first .. n
        PROVE  K + 1 \in 1 .. K + 1 /\ d[(K + 1) - 1] < i /\ i <= d[K + 1]
    <3>1. (K + 1) - 1 = K /\ K \in 0 .. K /\ d[K] = first - 1 /\ d[K + 1] = n
      BY <1>6, <1>10, <1>11
    <3>2. QED
      BY <1>1, <1>6, <3>1
  <2>5. \A i \in 1 .. n : i \in 1 .. first - 1 \/ i \in first .. n
    BY <1>1
  <2>6. QED
    BY <2>1, <2>2, <2>3, <2>4, <2>5
<1>20. Cuts(d)'
  <2>1. first' - 1 = n
    BY <1>1, <1>8
  <2>2. forcedSplits' = Cardinality({b \in 1 .. Len(buckets') : IsSplit(d, b)'})
    BY <1>9, <1>16, <1>18
  <2>3. QED
    BY <1>9, <1>11, <1>12, <1>17, <1>19, <2>1, <2>2 DEF Cuts
<1>21. DOMAIN recordToBucket' = {points'[i] : i \in 1 .. first' - 1}
  <2>1. 1 .. n = (1 .. first - 1) \cup (first .. n) /\ first' - 1 = n
    BY <1>1, <1>8
  <2>2. DOMAIN recordToBucket = {points[i] : i \in 1 .. first - 1}
    BY <1>0 DEF CutInv
  <2>3. DOMAIN recordToBucket' = DOMAIN recordToBucket \cup {points[i] : i \in first .. n}
    BY <1>8
  <2>4. QED
    BY <2>1, <2>2, <2>3
<1>22. CutInv'
  <2>1. d \in [0 .. Len(buckets') -> 0 .. taken']
    BY <1>9, <1>11
  <2>2. QED
    BY <1>9, <1>20, <1>21, <2>1 DEF CutInv, Bucket
<1>23. QED
  BY <1>4, <1>22

LEMMA TakePointKeepsBucketInv ==
  ASSUME BucketInv, TakePoint
  PROVE  BucketInv'
<1>1. /\ phase = "fill" /\ taken' = taken + 1 /\ UNCHANGED <<config, ts, points, locator, asking>>
      /\ \/ /\ ClosesBucket(Count, Occupied, NextSlotDiffers) \/ taken + 1 = N
            /\ Close(taken + 1, Occupied)
         \/ /\ ~ClosesBucket(Count, Occupied, NextSlotDiffers) /\ taken + 1 # N
            /\ slots' = Occupied /\ UNCHANGED <<first, buckets, recordToBucket>>
      /\ forcedSplits' = IF Count >= config.max /\ ~NextSlotDiffers
                         THEN forcedSplits + 1 ELSE forcedSplits
      /\ phase' = IF taken + 1 = N THEN "link" ELSE "fill"
  BY TakePointIs
<1>2. SettingInv' /\ OrderInv'
  BY <1>1, PositionsRest DEF BucketInv
<1>3. LoopInv' /\ CutInv'
  <2>1. CASE ClosesBucket(Count, Occupied, NextSlotDiffers) \/ taken + 1 = N
    BY <1>1, <2>1, Closes
  <2>2. CASE ~ClosesBucket(Count, Occupied, NextSlotDiffers) /\ taken + 1 # N
    <3>1. UNCHANGED forcedSplits
      BY <1>1, <2>2 DEF ClosesBucket
    <3>2. QED
      BY <1>1, <2>2, <3>1, KeepsOpen
  <2>3. QED
    BY <2>1, <2>2
<1>4. LinkInv' /\ WalkInv'
  BY <1>1 DEF BucketInv, LinkInv, WalkInv, asking
<1>5. QED
  BY <1>2, <1>3, <1>4 DEF BucketInv

-----------------------------------------------------------------------------
(* The links and the table                                                 *)

(* lower_bound passes over buckets that end too early, and no other. *)
LEMMA FirstBucketIsNotLate ==
  ASSUME SettingInv, OrderInv, LoopInv, CutInv, NEW t \in Int
  PROVE  NotLate(FirstBucketWithEndAtLeast(t), t)
<1> DEFINE v == FirstBucketWithEndAtLeast(t)
           Late == {b \in DOMAIN buckets : buckets[b].endTs >= t}
<1>1. Len(buckets) \in Nat /\ DOMAIN buckets = 1 .. Len(buckets)
  BY DEF CutInv
<1>2. \A b \in 1 .. Len(buckets) : buckets[b].endTs \in Int
  <2>1. PICK e \in [0 .. Len(buckets) -> 0 .. taken] : Cuts(e)
    BY DEF CutInv
  <2>2. QED
    BY <2>1, CutFacts
<1>3. CASE Late = {}
  BY <1>1, <1>2, <1>3 DEF FirstBucketWithEndAtLeast, NotLate, None
<1>4. CASE Late # {}
  <2>1. PICK b \in Late : \A c \in Late : b <= c
    <3>1. Late \in SUBSET Nat
      BY <1>1
    <3> HIDE DEF Late
    <3>2. QED
      BY <1>4, <3>1, NatHasLeast
  <2>2. \A c \in 1 .. b - 1 : buckets[c].endTs < t
    BY <1>1, <1>2, <2>1
  <2>3. b \in DOMAIN buckets /\ buckets[b].endTs >= t
    BY <2>1
  <2>4. v \in DOMAIN buckets /\ \A c \in 1 .. v - 1 : buckets[c].endTs < t
    BY <2>2, <2>3 DEF FirstBucketWithEndAtLeast
  <2> HIDE DEF v
  <2>5. NotLate(v, t)
    BY <1>1, <2>4 DEF NotLate, None
  <2>6. QED
    BY <2>5 DEF v
<1>5. QED
  BY <1>3, <1>4

LEMMA LinkAndLocateKeepsBucketInv ==
  ASSUME BucketInv, LinkAndLocate
  PROVE  BucketInv'
<1>0. SettingInv /\ OrderInv /\ LoopInv /\ CutInv /\ WalkInv
  BY DEF BucketInv
<1>1. /\ phase = "link" /\ phase' = "idle"
      /\ UNCHANGED <<config, ts, points, taken, first, slots, recordToBucket,
                     forcedSplits, asking>>
      /\ buckets' = [b \in DOMAIN buckets |-> [buckets[b] EXCEPT !.next = NextBucketId(b)]]
      /\ locator' = [day \in Day(buckets[1].startTs) .. Day(buckets[Len(buckets)].endTs)
                        |-> LocatorRow(day)]
  BY DEF LinkAndLocate
<1>2. SettingInv' /\ OrderInv' /\ N' = N /\ \A i : At(i)' = At(i) /\ Abs(i)' = Abs(i)
  BY <1>0, <1>1, PositionsRest
<1>3. LoopInv'
  BY <1>0, <1>1, <1>2 DEF LoopInv
<1>4. Len(buckets) \in Nat /\ DOMAIN buckets = 1 .. Len(buckets) /\ buckets \in Seq(Bucket)
  BY <1>0 DEF CutInv, Bucket
<1>5. /\ buckets' \in Seq(Bucket) /\ Len(buckets') = Len(buckets)
      /\ \A b \in 1 .. Len(buckets) :
           /\ buckets'[b].startTs = buckets[b].startTs /\ buckets'[b].endTs = buckets[b].endTs
           /\ buckets'[b].count = buckets[b].count /\ buckets'[b].slots = buckets[b].slots
           /\ buckets'[b].next = NextBucketId(b)
  <2>1. ASSUME NEW b \in 1 .. Len(buckets)
        PROVE  buckets[b] \in Bucket /\ NextBucketId(b) \in Int
    BY <1>4 DEF NextBucketId, None
  <2>2. buckets' \in [1 .. Len(buckets) -> Bucket]
    BY <1>1, <1>4, <2>1 DEF Bucket
  <2>3. buckets' \in Seq(Bucket) /\ Len(buckets') = Len(buckets)
    BY <1>4, <2>2
  <2>4. QED
    BY <1>1, <1>4, <2>1, <2>3 DEF Bucket
<1>6. CutInv'
  <2>1. PICK e \in [0 .. Len(buckets) -> 0 .. taken] : Cuts(e)
    BY <1>0 DEF CutInv
  <2>2. \A b : IsSplit(e, b)' <=> IsSplit(e, b)
    BY <1>2 DEF IsSplit
  <2>3. \A b \in 1 .. Len(buckets) : IsCut(e, b)'
    BY <1>1, <1>2, <1>5, <2>1, <2>2 DEF Cuts, IsCut
  <2>4. Cuts(e)'
    BY <1>1, <1>5, <2>1, <2>2, <2>3 DEF Cuts
  <2>5. DOMAIN recordToBucket' = {points'[i] : i \in 1 .. first' - 1}
    BY <1>0, <1>1 DEF CutInv
  <2>6. e \in [0 .. Len(buckets') -> 0 .. taken']
    BY <1>1, <1>5
  <2>7. QED
    BY <1>5, <2>4, <2>5, <2>6 DEF CutInv, Bucket
<1>7. DOMAIN locator' \subseteq Int
  BY <1>1
<1>8. ASSUME NEW day \in DOMAIN locator', NEW s \in 0 .. LocatorSlots - 1
      PROVE  NotLate(locator[day][s], day * SecondsPerDay + s * config.slotSeconds)'
  <2>1. day * SecondsPerDay + s * config.slotSeconds \in Int
    BY <1>0, <1>7, TimeAssumption DEF SettingInv
  <2>2. locator'[day][s] = FirstBucketWithEndAtLeast(day * SecondsPerDay + s * config.slotSeconds)
    BY <1>1 DEF LocatorRow
  <2>3. NotLate(locator'[day][s], day * SecondsPerDay + s * config.slotSeconds)
    BY <1>0, <2>1, <2>2, FirstBucketIsNotLate
  <2>4. QED
    BY <1>1, <1>4, <1>5, <2>3 DEF NotLate
<1>9. LinkInv'
  <2>1. \A b \in DOMAIN buckets' : buckets'[b].next = NextBucketId(b)'
    BY <1>4, <1>5 DEF NextBucketId
  <2>2. QED
    BY <1>7, <1>8, <2>1 DEF LinkInv
<1>10. WalkInv'
  BY <1>0, <1>1 DEF WalkInv, asking
<1>11. QED
  BY <1>2, <1>3, <1>6, <1>9, <1>10 DEF BucketInv

-----------------------------------------------------------------------------
(* Asking                                                                  *)

(* The slot of the day begins no later than the time it is the slot of:    *)
(* the clamping can only move it to an earlier row.                        *)
LEMMA SlotBeginsBefore ==
  ASSUME SettingInv, NEW t \in Int
  PROVE  /\ Day(t) \in Int /\ SlotInDay(t) \in 0 .. LocatorSlots - 1
         /\ Day(t) * SecondsPerDay + SlotInDay(t) * config.slotSeconds <= t
<1>0. config.slotSeconds \in Nat \ {0} /\ SecondsPerDay \in Nat \ {0} /\ LocatorSlots \in Nat \ {0}
  BY TimeAssumption DEF SettingInv
<1>1. PICK l, x, q :
        /\ l = config.slotSeconds /\ x = t - Day(t) * SecondsPerDay
        /\ q = AtLeast(0, t - Day(t) * SecondsPerDay) \div config.slotSeconds
  OBVIOUS
<1>2. Day(t) \in Int /\ Day(t) * SecondsPerDay \in Int /\ x \in Nat
  <2>1. Day(t) \in Int /\ Day(t) * SecondsPerDay <= t
    BY <1>0, FloorDivBounds DEF Day
  <2>2. Day(t) * SecondsPerDay \in Int
    BY <1>0, <2>1
  <2>3. QED
    BY <1>1, <2>1, <2>2
<1>3. q = x \div l
  BY <1>1, <1>2 DEF AtLeast
<1>4. q \in Nat /\ q * l <= x
  BY <1>0, <1>1, <1>2, <1>3, DivBounds
<1>5. SlotInDay(t) \in 0 .. LocatorSlots - 1 /\ SlotInDay(t) <= q
  <2>1. SlotInDay(t) = AtMost(LocatorSlots - 1, AtLeast(0, q))
    BY <1>1 DEF SlotInDay
  <2>2. QED
    BY <1>0, <1>4, <2>1 DEF AtMost, AtLeast
<1>6. SlotInDay(t) * l <= q * l /\ SlotInDay(t) * l \in Int /\ q * l \in Int
  BY <1>0, <1>1, <1>4, <1>5, TimesMonotone
<1>7. Day(t) * SecondsPerDay + SlotInDay(t) * l <= t
  BY <1>1, <1>2, <1>4, <1>6
<1>8. QED
  BY <1>1, <1>2, <1>5, <1>7

LEMMA LocateIsNotLate ==
  ASSUME BucketInv, phase = "idle", NEW t \in Int
  PROVE  NotLate(LocateFirstBucketForQuery(t), t)
<1>0. SettingInv /\ OrderInv /\ LoopInv /\ CutInv /\ LinkInv
  BY DEF BucketInv
<1>1. PICK e \in [0 .. Len(buckets) -> 0 .. taken] : Cuts(e)
  BY <1>0 DEF CutInv
<1>2. /\ Len(buckets) \in Nat /\ DOMAIN buckets = 1 .. Len(buckets)
      /\ \A b \in 1 .. Len(buckets) : buckets[b].endTs \in Int
      /\ \A b, c \in 1 .. Len(buckets) : b < c => buckets[b].endTs <= buckets[c].endTs
  <2>1. /\ Len(buckets) \in Nat /\ DOMAIN buckets = 1 .. Len(buckets)
        /\ \A b \in 1 .. Len(buckets) :
             /\ buckets[b].startTs \in Int /\ buckets[b].endTs \in Int
             /\ buckets[b].startTs <= buckets[b].endTs
    BY <1>0, <1>1, CutFacts
  <2>2. ASSUME NEW b \in 1 .. Len(buckets), NEW c \in 1 .. Len(buckets), b < c
        PROVE  buckets[b].endTs <= buckets[c].endTs
    <3>1. buckets[b].endTs <= buckets[c].startTs
      BY <1>0, <1>1, <2>2, CutFacts
    <3>2. QED
      BY <2>1, <3>1
  <2>3. QED
    BY <2>1, <2>2
<1>3. CASE buckets = <<>>
  BY <1>3 DEF LocateFirstBucketForQuery, NotLate, None
<1>4. CASE buckets # <<>> /\ t <= buckets[1].endTs
  <2>1. Len(buckets) > 0
    BY <1>0, <1>2, <1>4 DEF CutInv
  <2>2. LocateFirstBucketForQuery(t) = 1
    BY <1>4 DEF LocateFirstBucketForQuery
  <2>3. QED
    BY <1>2, <2>1, <2>2 DEF NotLate, None
<1>5. CASE buckets # <<>> /\ ~(t <= buckets[1].endTs) /\ t > buckets[Len(buckets)].endTs
  <2>1. LocateFirstBucketForQuery(t) = None
    BY <1>5 DEF LocateFirstBucketForQuery
  <2>2. ASSUME NEW c \in 1 .. Len(buckets) PROVE buckets[c].endTs < t
    <3>1. PICK k \in Nat : k = Len(buckets)
      BY <1>2
    <3>2. k \in 1 .. Len(buckets) /\ (c < k \/ c = k)
      BY ONLY <3>1, c \in 1 .. Len(buckets)
    <3>3. buckets[c].endTs <= buckets[k].endTs /\ buckets[k].endTs \in Int /\ buckets[c].endTs \in Int
      BY <1>2, <3>2
    <3>4. QED
      BY <1>5, <3>1, <3>3
  <2>3. QED
    BY <1>2, <2>1, <2>2 DEF NotLate, None
<1>6. CASE /\ buckets # <<>> /\ ~(t <= buckets[1].endTs) /\ ~(t > buckets[Len(buckets)].endTs)
           /\ Day(t) \in DOMAIN locator /\ locator[Day(t)][SlotInDay(t)] # None
  <2>1. LocateFirstBucketForQuery(t) = locator[Day(t)][SlotInDay(t)]
    BY <1>6 DEF LocateFirstBucketForQuery
  <2>2. PICK u : u = Day(t) * SecondsPerDay + SlotInDay(t) * config.slotSeconds
    OBVIOUS
  <2>3. u \in Int /\ u <= t
    <3>1. /\ Day(t) \in Int /\ SlotInDay(t) \in 0 .. LocatorSlots - 1
          /\ Day(t) * SecondsPerDay + SlotInDay(t) * config.slotSeconds <= t
      BY <1>0, SlotBeginsBefore
    <3>2. Day(t) * SecondsPerDay \in Int /\ SlotInDay(t) * config.slotSeconds \in Int
      BY <1>0, <3>1, TimeAssumption DEF SettingInv
    <3>3. QED
      BY <2>2, <3>1, <3>2
  <2>4. NotLate(locator[Day(t)][SlotInDay(t)], u)
    BY <1>0, <1>6, <2>2, SlotBeginsBefore DEF LinkInv
  <2>5. QED
    BY <1>2, <2>1, <2>3, <2>4 DEF NotLate
<1>7. CASE /\ buckets # <<>> /\ ~(t <= buckets[1].endTs) /\ ~(t > buckets[Len(buckets)].endTs)
           /\ ~(Day(t) \in DOMAIN locator /\ locator[Day(t)][SlotInDay(t)] # None)
  <2>1. LocateFirstBucketForQuery(t) = FirstBucketWithEndAtLeast(t)
    BY <1>7 DEF LocateFirstBucketForQuery
  <2>2. QED
    BY <1>0, <2>1, FirstBucketIsNotLate
<1>8. QED
  BY <1>3, <1>4, <1>5, <1>6, <1>7

LEMMA BucketTypes ==
  ASSUME CutInv
  PROVE  /\ Len(buckets) \in Nat /\ DOMAIN buckets = 1 .. Len(buckets)
         /\ \A b \in DOMAIN buckets : buckets[b] \in Bucket /\ buckets[b].endTs \in Int
<1>1. buckets \in Seq(Bucket)
  BY DEF CutInv, Bucket
<1>2. Len(buckets) \in Nat /\ DOMAIN buckets = 1 .. Len(buckets)
  BY <1>1
<1>3. \A b \in DOMAIN buckets : buckets[b] \in Bucket
  BY <1>1
<1>4. \A k \in Bucket : k.endTs \in Int
  BY DEF Bucket
<1>5. QED
  BY <1>2, <1>3, <1>4

(* A query leaves the buckets as they are. *)
LEMMA QueriesBuildNothing ==
  ASSUME BucketInv, UNCHANGED <<config, building>>
  PROVE  /\ SettingInv' /\ OrderInv' /\ LoopInv' /\ CutInv' /\ LinkInv'
         /\ phase' = phase /\ buckets' = buckets
         /\ \A b, lo, hi : LocalRange(b, lo, hi)' = LocalRange(b, lo, hi)
<1>1. UNCHANGED <<config, ts, phase, points, taken, first, slots, buckets,
                  recordToBucket, forcedSplits, locator>>
  BY DEF building
<1>2. SettingInv' /\ OrderInv' /\ N' = N /\ \A i : At(i)' = At(i) /\ Abs(i)' = Abs(i)
  BY <1>1, PositionsRest DEF BucketInv
<1>3. LoopInv'
  BY <1>1, <1>2 DEF BucketInv, LoopInv
<1>4. CutInv'
  <2>1. PICK e \in [0 .. Len(buckets) -> 0 .. taken] : Cuts(e)
    BY DEF BucketInv, CutInv
  <2>2. Cuts(e)'
    BY <1>1, <1>2, <2>1 DEF Cuts, IsCut, IsSplit
  <2>3. QED
    BY <1>1, <2>2 DEF BucketInv, CutInv
<1>5. LinkInv'
  BY <1>1 DEF BucketInv, LinkInv, NotLate, NextBucketId
<1>6. \A b, lo, hi : LocalRange(b, lo, hi)' = LocalRange(b, lo, hi)
  <2>1. \A b, x : LocalSlot(b, x)' = LocalSlot(b, x)
    BY <1>1 DEF LocalSlot
  <2>2. QED
    BY <1>1 DEF LocalRange, LocalSlot, AbsSlot
<1>7. QED
  BY <1>1, <1>2, <1>3, <1>4, <1>5, <1>6

LEMMA StartQueryKeepsBucketInv ==
  ASSUME BucketInv, NEW lo \in QueryTime, NEW hi \in QueryTime, StartQuery(lo, hi)
  PROVE  BucketInv'
<1>1. /\ phase = "idle" /\ query' = {[lo |-> lo, hi |-> hi]}
      /\ cursor' = LocateFirstBucketForQuery(lo)
      /\ probed' = [b \in DOMAIN buckets |-> {}]
      /\ UNCHANGED <<config, building>>
  BY DEF StartQuery
<1>2. /\ SettingInv' /\ OrderInv' /\ LoopInv' /\ CutInv' /\ LinkInv'
      /\ phase' = phase /\ buckets' = buckets
      /\ \A b, l, h : LocalRange(b, l, h)' = LocalRange(b, l, h)
  BY <1>1, QueriesBuildNothing
<1>3. lo \in Int /\ hi \in Int
  BY TimeAssumption
<1>4. NotLate(cursor', lo)
  BY <1>1, <1>3, LocateIsNotLate
<1>5. \A b \in DOMAIN buckets : buckets[b].endTs \in Int
  BY BucketTypes DEF BucketInv
<1>6. \A b \in DOMAIN buckets : Reached(b)' => ~(lo <= buckets[b].endTs)
  BY <1>3, <1>4, <1>5 DEF Reached, NotLate
<1>7. PICK q : q = [lo |-> lo, hi |-> hi]
  OBVIOUS
<1>8. WalkInv'
  <2>1. q.lo = lo /\ q.hi = hi /\ query' = {q}
    BY <1>1, <1>7
  <2>2. DOMAIN probed' = DOMAIN buckets' /\ cursor' \in 0 .. Len(buckets')
    BY <1>1, <1>2, <1>4 DEF NotLate
  <2>3. \A b \in DOMAIN buckets' :
          /\ probed'[b] = {}
          /\ ~(Reached(b)' /\ lo <= buckets'[b].endTs)
    BY <1>1, <1>2, <1>6
  <2>4. QED
    BY <1>1, <1>2, <1>3, <2>1, <2>2, <2>3 DEF WalkInv
<1>9. QED
  BY <1>2, <1>8 DEF BucketInv

(* The cursor's bucket has been probed when the cursor has passed it. *)
LEMMA VisitBucketKeepsBucketInv ==
  ASSUME BucketInv, VisitBucket
  PROVE  BucketInv'
<1>1. PICK q \in query :
        /\ ~WalkEnded(q)
        /\ probed' = IF buckets[cursor].endTs >= q.lo
                     THEN [probed EXCEPT ![cursor] = LocalRange(cursor, q.lo, q.hi)]
                     ELSE probed
        /\ cursor' = buckets[cursor].next
        /\ UNCHANGED <<config, building, query>>
  BY DEF VisitBucket
<1>2. /\ SettingInv' /\ OrderInv' /\ LoopInv' /\ CutInv' /\ LinkInv'
      /\ phase' = phase /\ buckets' = buckets
      /\ \A b, l, h : LocalRange(b, l, h)' = LocalRange(b, l, h)
  BY <1>1, QueriesBuildNothing
<1>3. /\ phase = "idle" /\ q.lo \in Int /\ q.hi \in Int /\ query = {q}
      /\ DOMAIN probed = DOMAIN buckets /\ cursor \in 0 .. Len(buckets)
      /\ \A b \in DOMAIN buckets :
           /\ probed[b] \in {{}, LocalRange(b, q.lo, q.hi)}
           /\ Reached(b) /\ q.lo <= buckets[b].endTs => probed[b] = LocalRange(b, q.lo, q.hi)
  BY DEF BucketInv, WalkInv
<1>4. cursor \in DOMAIN buckets
  BY <1>1 DEF WalkEnded
<1>5. /\ Len(buckets) \in Nat /\ DOMAIN buckets = 1 .. Len(buckets)
      /\ \A b \in DOMAIN buckets : buckets[b].endTs \in Int
  BY BucketTypes DEF BucketInv
<1>6. cursor' = NextBucketId(cursor)
  BY <1>1, <1>3, <1>4 DEF BucketInv, LinkInv
<1>7. cursor' \in 0 .. Len(buckets')
  BY <1>2, <1>4, <1>5, <1>6 DEF NextBucketId, None
<1>8. \A b \in DOMAIN buckets : Reached(b)' => b = cursor \/ Reached(b)
  BY <1>4, <1>5, <1>6 DEF Reached, NextBucketId, None
<1>9. /\ DOMAIN probed' = DOMAIN buckets
      /\ \A b \in DOMAIN buckets : b # cursor => probed'[b] = probed[b]
      /\ buckets[cursor].endTs >= q.lo => probed'[cursor] = LocalRange(cursor, q.lo, q.hi)
      /\ ~(buckets[cursor].endTs >= q.lo) => probed'[cursor] = probed[cursor]
  BY <1>1, <1>3, <1>4
<1>10. ASSUME NEW b \in DOMAIN buckets
       PROVE  /\ probed'[b] \in {{}, LocalRange(b, q.lo, q.hi)}
              /\ Reached(b)' /\ q.lo <= buckets[b].endTs => probed'[b] = LocalRange(b, q.lo, q.hi)
  <2>1. CASE b = cursor
    <3>1. buckets[b].endTs >= q.lo <=> q.lo <= buckets[b].endTs
      BY <1>3, <1>5
    <3>2. QED
      BY <1>3, <1>9, <2>1, <3>1
  <2>2. CASE b # cursor
    BY <1>3, <1>8, <1>9, <2>2
  <2>3. QED
    BY <2>1, <2>2
<1>11. WalkInv'
  BY <1>1, <1>2, <1>3, <1>7, <1>9, <1>10 DEF WalkInv
<1>12. QED
  BY <1>2, <1>11 DEF BucketInv

LEMMA EndQueryKeepsBucketInv ==
  ASSUME BucketInv, EndQuery
  PROVE  BucketInv'
<1>1. query' = {} /\ UNCHANGED <<config, building>>
  BY DEF EndQuery
<1>2. QED
  BY <1>1, QueriesBuildNothing DEF BucketInv, WalkInv

LEMMA RestKeepsBucketInv ==
  ASSUME BucketInv, UNCHANGED vars
  PROVE  BucketInv'
<1>1. UNCHANGED <<config, building>> /\ UNCHANGED <<query, cursor, probed>>
  BY DEF vars, asking
<1>2. /\ SettingInv' /\ OrderInv' /\ LoopInv' /\ CutInv' /\ LinkInv'
      /\ phase' = phase /\ buckets' = buckets
      /\ \A b, l, h : LocalRange(b, l, h)' = LocalRange(b, l, h)
  BY <1>1, QueriesBuildNothing
<1>3. WalkInv'
  BY <1>1, <1>2 DEF BucketInv, WalkInv, Reached
<1>4. QED
  BY <1>2, <1>3 DEF BucketInv

LEMMA BucketInvHolds == Spec => []BucketInv
<1>1. Init => BucketInv
  BY InitBucketInv
<1>2. BucketInv /\ [Next]_vars => BucketInv'
  <2> SUFFICES ASSUME BucketInv, [Next]_vars PROVE BucketInv'
    OBVIOUS
  <2>1. CASE \E times \in Input : Build(times)
    BY <2>1, BuildKeepsBucketInv
  <2>2. CASE TakePoint
    BY <2>2, TakePointKeepsBucketInv
  <2>3. CASE LinkAndLocate
    BY <2>3, LinkAndLocateKeepsBucketInv
  <2>4. CASE \E lo, hi \in QueryTime : StartQuery(lo, hi)
    BY <2>4, StartQueryKeepsBucketInv
  <2>5. CASE VisitBucket
    BY <2>5, VisitBucketKeepsBucketInv
  <2>6. CASE EndQuery
    BY <2>6, EndQueryKeepsBucketInv
  <2>7. CASE UNCHANGED vars
    BY <2>7, RestKeepsBucketInv
  <2>8. QED
    BY <2>1, <2>2, <2>3, <2>4, <2>5, <2>6, <2>7 DEF Next
<1>3. QED
  BY <1>1, <1>2, PTL DEF Spec

-----------------------------------------------------------------------------
(* What the buckets promise                                                *)

(* After build() every record has a bucket that spans it. *)
LEMMA RecordFacts ==
  ASSUME BucketInv, phase = "idle", NEW r \in DOMAIN ts
  PROVE  /\ r \in DOMAIN recordToBucket /\ recordToBucket[r] \in DOMAIN buckets
         /\ ts[r] \in Int /\ AbsSlot(ts[r]) \in Int
         /\ buckets[recordToBucket[r]].startTs <= ts[r]
         /\ ts[r] <= buckets[recordToBucket[r]].endTs
         /\ AbsSlot(ts[r]) \in buckets[recordToBucket[r]].slots
<1>0. SettingInv /\ OrderInv /\ LoopInv /\ CutInv
  BY DEF BucketInv
<1>1. first = N + 1 /\ N \in Nat /\ taken = N
  BY <1>0, OrderFacts DEF LoopInv
<1>2. PICK e \in [0 .. Len(buckets) -> 0 .. taken] : Cuts(e)
  BY <1>0 DEF CutInv
<1>3. PICK i \in 1 .. N : points[i] = r
  BY <1>0, OrderFacts
<1>4. i \in 1 .. first - 1
  BY <1>1
<1>5. r \in DOMAIN recordToBucket
  BY <1>0, <1>3, <1>4 DEF CutInv
<1>6. PICK b : b = recordToBucket[r]
  OBVIOUS
<1>7. b \in 1 .. Len(buckets) /\ e[b - 1] < i /\ i <= e[b]
  BY <1>2, <1>3, <1>4, <1>6 DEF Cuts
<1>8. /\ DOMAIN buckets = 1 .. Len(buckets) /\ e[b] \in 1 .. N /\ e[b - 1] + 1 \in 1 .. N
      /\ e[b - 1] \in 0 .. N
      /\ buckets[b].startTs = At(e[b - 1] + 1) /\ buckets[b].endTs = At(e[b])
  BY <1>0, <1>2, <1>7, CutFacts
<1>9. e[b - 1] + 1 <= i
  BY <1>7, <1>8
<1>10. At(i) = ts[r] /\ Abs(i) = AbsSlot(ts[r]) /\ At(i) \in Int /\ Abs(i) \in Int
  BY <1>0, <1>3, OrderFacts DEF At, Abs
<1>11. At(e[b - 1] + 1) <= At(i) /\ At(i) <= At(e[b])
  BY <1>0, <1>7, <1>8, <1>9, OrderFacts
<1>12. Abs(i) \in buckets[b].slots
  <2>1. buckets[b].slots = {Abs(j) : j \in e[b - 1] + 1 .. e[b]}
    BY <1>2, <1>7 DEF Cuts, IsCut
  <2>2. i \in e[b - 1] + 1 .. e[b]
    BY <1>7, <1>8, <1>9
  <2>3. QED
    BY <2>1, <2>2
<1>13. QED
  BY <1>5, <1>6, <1>7, <1>8, <1>10, <1>11, <1>12

(* Whatever the records and the settings, build() leaves every record in a *)
(* bucket that spans its time and has a slot for it, and leaves the        *)
(* buckets in the order of time.                                           *)
THEOREM RecordsHaveBuckets == Spec => []BucketsHoldEveryRecord
<1>1. BucketInv => BucketsHoldEveryRecord
  <2> SUFFICES ASSUME BucketInv, Built PROVE BucketsHoldEveryRecord
    BY DEF BucketsHoldEveryRecord
  <2>0. phase = "idle" /\ SettingInv /\ OrderInv /\ LoopInv /\ CutInv
    BY DEF Built, BucketInv
  <2>1. PICK e \in [0 .. Len(buckets) -> 0 .. taken] : Cuts(e)
    BY <2>0 DEF CutInv
  <2>2. \A b, c \in DOMAIN buckets : b < c => buckets[b].endTs <= buckets[c].startTs
    BY <2>0, <2>1, CutFacts
  <2>3. QED
    BY <2>0, <2>2, RecordFacts DEF BucketsHoldEveryRecord
<1>2. QED
  BY <1>1, BucketInvHolds, PTL

(* Two buckets share a slot exactly where the cut is inside a slot. *)
LEMMA SplitsAreCuts ==
  ASSUME SettingInv, OrderInv, LoopInv, CutInv,
         NEW e \in [0 .. Len(buckets) -> 0 .. taken], Cuts(e),
         NEW b \in 1 .. Len(buckets), b + 1 \in 1 .. Len(buckets)
  PROVE  buckets[b].slots \cap buckets[b + 1].slots # {} <=> IsSplit(e, b)
<1>0. PICK c : c = b + 1
  OBVIOUS
<1>1. /\ e[b] \in 1 .. N /\ e[b - 1] + 1 \in 1 .. N /\ e[b - 1] + 1 <= e[b]
      /\ e[c] \in 1 .. N /\ e[b] + 1 \in 1 .. N /\ e[b] + 1 <= e[c]
      /\ e[b - 1] \in 0 .. N /\ e[c - 1] = e[b] /\ N \in Nat
  <2>1. c \in 1 .. Len(buckets) /\ c - 1 = b
    BY <1>0
  <2>2. QED
    BY <2>1, CutFacts, OrderFacts
<1>2. /\ buckets[b].slots = {Abs(i) : i \in e[b - 1] + 1 .. e[b]}
      /\ buckets[c].slots = {Abs(i) : i \in e[b] + 1 .. e[c]}
  BY <1>0, <1>1 DEF Cuts, IsCut
<1>3. Abs(e[b]) \in buckets[b].slots /\ Abs(e[b] + 1) \in buckets[c].slots
  BY <1>1, <1>2
<1>4. ASSUME NEW s \in buckets[b].slots, s \in buckets[c].slots
      PROVE  Abs(e[b]) = Abs(e[b] + 1)
  <2>1. PICK i \in e[b - 1] + 1 .. e[b] : s = Abs(i)
    BY <1>2
  <2>2. PICK j \in e[b] + 1 .. e[c] : s = Abs(j)
    BY <1>2, <1>4
  <2>3. i \in 1 .. N /\ j \in 1 .. N /\ i <= e[b] /\ e[b] <= e[b] + 1 /\ e[b] + 1 <= j
    BY <1>1
  <2>4. Abs(i) <= Abs(e[b]) /\ Abs(e[b]) <= Abs(e[b] + 1) /\ Abs(e[b] + 1) <= Abs(j)
    BY <1>1, <2>3, OrderFacts
  <2>5. Abs(e[b]) \in Int /\ Abs(e[b] + 1) \in Int /\ Abs(i) \in Int
    BY <1>1, <2>3, OrderFacts
  <2>6. QED
    BY <2>1, <2>2, <2>4, <2>5
<1>5. e[b] < N
  BY <1>1
<1>6. QED
  BY <1>0, <1>3, <1>4, <1>5 DEF IsSplit

(* The limits on a bucket's records and slots hold, a slot is split over   *)
(* two buckets only by a full bucket, and the builder's counter is the     *)
(* number of such splits.                                                  *)
THEOREM SplitsAreForced == Spec => []SlotsAreSplitOnlyWhenForced
<1>1. BucketInv => SlotsAreSplitOnlyWhenForced
  <2> SUFFICES ASSUME BucketInv PROVE SlotsAreSplitOnlyWhenForced
    OBVIOUS
  <2> DEFINE splits == {b \in DOMAIN buckets :
                          /\ b + 1 \in DOMAIN buckets
                          /\ buckets[b].slots \cap buckets[b + 1].slots # {}}
  <2>0. SettingInv /\ OrderInv /\ LoopInv /\ CutInv
    BY DEF BucketInv
  <2>1. PICK e \in [0 .. Len(buckets) -> 0 .. taken] : Cuts(e)
    BY <2>0 DEF CutInv
  <2>2. Len(buckets) \in Nat /\ DOMAIN buckets = 1 .. Len(buckets)
    BY <2>0, BucketTypes
  <2>3. \A b \in DOMAIN buckets :
          /\ buckets[b].count <= config.max
          /\ Cardinality(buckets[b].slots) <= config.maxSlots
          /\ IsSplit(e, b) => buckets[b].count = config.max
    BY <2>1, <2>2 DEF Cuts, IsCut
  <2>4. \A b \in DOMAIN buckets : b + 1 \in DOMAIN buckets =>
          (buckets[b].slots \cap buckets[b + 1].slots # {} <=> IsSplit(e, b))
    BY <2>0, <2>1, <2>2, SplitsAreCuts
  <2>5. \A b \in splits : buckets[b].count = config.max
    BY <2>3, <2>4
  <2>6. Built => forcedSplits = Cardinality(splits)
    <3> SUFFICES ASSUME Built PROVE forcedSplits = Cardinality(splits)
      OBVIOUS
    <3>1. e[Len(buckets)] = N
      BY <2>0, <2>1, OrderFacts DEF Built, LoopInv, Cuts
    <3>2. N \in Nat
      BY <2>0, OrderFacts
    <3>3. ASSUME NEW b \in 1 .. Len(buckets), IsSplit(e, b)
          PROVE  b + 1 \in 1 .. Len(buckets)
      <4>1. b # Len(buckets)
        BY <3>1, <3>2, <3>3 DEF IsSplit
      <4>2. PICK k \in Nat : k = Len(buckets)
        BY <2>2
      <4>3. b \in 1 .. k /\ b # k => b + 1 \in 1 .. k
        OBVIOUS
      <4>4. QED
        BY <4>1, <4>2, <4>3
    <3>4. splits = {b \in 1 .. Len(buckets) : IsSplit(e, b)}
      BY <2>2, <2>4, <3>3
    <3>5. forcedSplits = Cardinality({b \in 1 .. Len(buckets) : IsSplit(e, b)})
      BY <2>1 DEF Cuts
    <3>6. QED
      BY <3>4, <3>5
  <2>7. QED
    BY <2>3, <2>5, <2>6 DEF SlotsAreSplitOnlyWhenForced
<1>2. QED
  BY <1>1, BucketInvHolds, PTL

(* The table never starts a query too late, for slots of any length: all   *)
(* buckets before the one it returns end before the query starts.          *)
THEOREM LocatorIsNotLate == Spec => []LocatorNeverSkips
<1>1. BucketInv => LocatorNeverSkips
  <2> SUFFICES ASSUME BucketInv, Built, NEW t \in QueryTime,
                      NEW c \in DOMAIN buckets,
                      LocateFirstBucketForQuery(t) = None \/ c < LocateFirstBucketForQuery(t)
               PROVE  buckets[c].endTs < t
    BY DEF LocatorNeverSkips
  <2>1. t \in Int /\ phase = "idle"
    BY TimeAssumption DEF Built
  <2>2. NotLate(LocateFirstBucketForQuery(t), t)
    BY <2>1, LocateIsNotLate
  <2>3. QED
    BY <2>2 DEF NotLate
<1>2. QED
  BY <1>1, BucketInvHolds, PTL

-----------------------------------------------------------------------------
(* The local slots of a bucket                                             *)

(* The position of a slot in a sorted list grows with the slot, and past   *)
(* the slots in the list strictly.                                         *)
LEMMA LocalSlotFacts ==
  ASSUME NEW b, IsFiniteSet(buckets[b].slots), buckets[b].slots \subseteq Int,
         NEW x \in Int, NEW y \in Int
  PROVE  /\ LocalSlot(b, x) \in 0 .. Cardinality(buckets[b].slots)
         /\ Cardinality(buckets[b].slots) \in Nat
         /\ x <= y => LocalSlot(b, x) <= LocalSlot(b, y)
         /\ x < y /\ x \in buckets[b].slots => LocalSlot(b, x) + 1 <= LocalSlot(b, y)
<1> DEFINE S == buckets[b].slots
           Below(z) == {s \in S : s < z}
<1>1. ASSUME NEW z PROVE IsFiniteSet(Below(z)) /\ Cardinality(Below(z)) \in Nat
                         /\ Cardinality(Below(z)) <= Cardinality(S) /\ Cardinality(S) \in Nat
  BY FS_Subset, FS_CardinalityType
<1>2. LocalSlot(b, x) = Cardinality(Below(x)) /\ LocalSlot(b, y) = Cardinality(Below(y))
  BY DEF LocalSlot
<1>3. x <= y => Cardinality(Below(x)) <= Cardinality(Below(y))
  <2>1. x <= y => Below(x) \subseteq Below(y)
    OBVIOUS
  <2> HIDE DEF Below
  <2>2. QED
    BY <1>1, <2>1, FS_Subset
<1>4. x < y /\ x \in S => Cardinality(Below(x)) + 1 <= Cardinality(Below(y))
  <2> SUFFICES ASSUME x < y, x \in S PROVE Cardinality(Below(x)) + 1 <= Cardinality(Below(y))
    OBVIOUS
  <2>1. x \notin Below(x) /\ Below(x) \cup {x} \subseteq Below(y)
    OBVIOUS
  <2> HIDE DEF Below
  <2>2. Cardinality(Below(x) \cup {x}) = Cardinality(Below(x)) + 1
    BY <1>1, <2>1, FS_AddElement
  <2>3. Cardinality(Below(x) \cup {x}) <= Cardinality(Below(y))
    BY <1>1, <2>1, FS_Subset
  <2>4. QED
    BY <2>2, <2>3
<1>5. QED
  <2> HIDE DEF Below
  <2>1. QED
    BY <1>1, <1>2, <1>3, <1>4

(* What the walk has asked a bucket for is the local slots of the times    *)
(* that the bucket and the query have in common.                           *)
LEMMA LocalRangeIsExact ==
  ASSUME SettingInv, OrderInv, LoopInv, CutInv,
         NEW b \in DOMAIN buckets, NEW lo \in Int, NEW hi \in Int
  PROVE  /\ \A i \in LocalRange(b, lo, hi) : i \in 0 .. Cardinality(buckets[b].slots) - 1
         /\ \A t \in Int :
              AbsSlot(t) \in buckets[b].slots /\ LocalSlot(b, AbsSlot(t)) \in LocalRange(b, lo, hi)
                => AbsSlot(lo) <= AbsSlot(t) /\ AbsSlot(t) <= AbsSlot(hi)
         /\ \A t \in Int :
              /\ AbsSlot(t) \in buckets[b].slots
              /\ buckets[b].startTs <= t /\ t <= buckets[b].endTs /\ lo <= t /\ t <= hi
              => LocalSlot(b, AbsSlot(t)) \in LocalRange(b, lo, hi)
<1>1. PICK e \in [0 .. Len(buckets) -> 0 .. taken] : Cuts(e)
  BY DEF CutInv
<1>2. /\ buckets[b].startTs \in Int /\ buckets[b].endTs \in Int
      /\ IsFiniteSet(buckets[b].slots) /\ buckets[b].slots \subseteq Int
  <2>1. buckets[b] \in Bucket /\ b \in 1 .. Len(buckets)
    BY BucketTypes
  <2>2. QED
    BY <1>1, <2>1 DEF Cuts, IsCut, Bucket
<1>3. PICK u, v : u = AtLeast(buckets[b].startTs, lo) /\ v = AtMost(buckets[b].endTs, hi)
  OBVIOUS
<1>4. u \in Int /\ v \in Int /\ lo <= u /\ v <= hi
  BY <1>2, <1>3 DEF AtLeast, AtMost
<1>5. ASSUME NEW t \in Int, NEW z \in Int, t <= z
      PROVE  AbsSlot(t) \in Int /\ AbsSlot(t) <= AbsSlot(z)
  BY <1>5, FloorDivBounds, FloorDivMonotone DEF AbsSlot, SettingInv
<1>6. AbsSlot(lo) <= AbsSlot(u) /\ AbsSlot(v) <= AbsSlot(hi)
      /\ AbsSlot(lo) \in Int /\ AbsSlot(u) \in Int /\ AbsSlot(v) \in Int /\ AbsSlot(hi) \in Int
      /\ AbsSlot(v) + 1 \in Int
  <2>1. AbsSlot(lo) <= AbsSlot(u) /\ AbsSlot(lo) \in Int
    BY <1>4, <1>5
  <2>2. AbsSlot(v) <= AbsSlot(hi) /\ AbsSlot(v) \in Int
    BY <1>4, <1>5
  <2>3. AbsSlot(u) \in Int /\ AbsSlot(hi) \in Int
    <3>1. u <= u /\ hi <= hi
      BY <1>4
    <3>2. QED
      BY <1>4, <1>5, <3>1
  <2>4. QED
    BY <2>1, <2>2, <2>3
<1>7. LocalRange(b, lo, hi) = IF lo > hi \/ u > v THEN {}
                              ELSE LocalSlot(b, AbsSlot(u)) .. LocalSlot(b, AbsSlot(v) + 1) - 1
  BY <1>3 DEF LocalRange
<1>8. ASSUME NEW x \in Int
      PROVE  LocalSlot(b, x) \in 0 .. Cardinality(buckets[b].slots) /\ Cardinality(buckets[b].slots) \in Nat
  BY <1>2, LocalSlotFacts
<1>9. ASSUME NEW i \in LocalRange(b, lo, hi)
      PROVE  i \in 0 .. Cardinality(buckets[b].slots) - 1
  <2>1. i \in LocalSlot(b, AbsSlot(u)) .. LocalSlot(b, AbsSlot(v) + 1) - 1
    BY <1>7
  <2>2. /\ LocalSlot(b, AbsSlot(u)) \in 0 .. Cardinality(buckets[b].slots)
        /\ LocalSlot(b, AbsSlot(v) + 1) \in 0 .. Cardinality(buckets[b].slots)
        /\ Cardinality(buckets[b].slots) \in Nat
    BY <1>6, <1>8
  <2>3. QED
    BY <2>1, <2>2
<1>10. ASSUME NEW t \in Int, AbsSlot(t) \in buckets[b].slots,
              LocalSlot(b, AbsSlot(t)) \in LocalRange(b, lo, hi)
       PROVE  AbsSlot(lo) <= AbsSlot(t) /\ AbsSlot(t) <= AbsSlot(hi)
  <2>1. PICK a : a = AbsSlot(t)
    OBVIOUS
  <2>2. a \in Int /\ a \in buckets[b].slots
    BY <1>2, <1>10, <2>1
  <2>3. LocalSlot(b, a) \in LocalSlot(b, AbsSlot(u)) .. LocalSlot(b, AbsSlot(v) + 1) - 1
    BY <1>7, <1>10, <2>1
  <2>4. /\ LocalSlot(b, a) \in Int /\ LocalSlot(b, AbsSlot(u)) \in Int
        /\ LocalSlot(b, AbsSlot(v) + 1) \in Int
    BY <1>6, <1>8, <2>2
  <2>5. ~(a < AbsSlot(u))
    <3>1. a < AbsSlot(u) => LocalSlot(b, a) + 1 <= LocalSlot(b, AbsSlot(u))
      BY <1>2, <1>6, <2>2, LocalSlotFacts
    <3>2. QED
      BY <2>3, <2>4, <3>1
  <2>6. ~(AbsSlot(v) + 1 <= a)
    <3>1. AbsSlot(v) + 1 <= a => LocalSlot(b, AbsSlot(v) + 1) <= LocalSlot(b, a)
      BY <1>2, <1>6, <2>2, LocalSlotFacts
    <3>2. QED
      BY <2>3, <2>4, <3>1
  <2>7. QED
    BY <1>6, <2>1, <2>2, <2>5, <2>6
<1>11. ASSUME NEW t \in Int, AbsSlot(t) \in buckets[b].slots,
              buckets[b].startTs <= t, t <= buckets[b].endTs, lo <= t, t <= hi
       PROVE  LocalSlot(b, AbsSlot(t)) \in LocalRange(b, lo, hi)
  <2>1. u <= t /\ t <= v
    BY <1>2, <1>3, <1>11 DEF AtLeast, AtMost
  <2>2. PICK a : a = AbsSlot(t)
    OBVIOUS
  <2>3. a \in Int /\ a \in buckets[b].slots /\ AbsSlot(u) <= a /\ a <= AbsSlot(v)
    BY <1>4, <1>5, <1>11, <2>1, <2>2
  <2>4. a < AbsSlot(v) + 1
    BY <1>6, <2>3
  <2>5. /\ LocalSlot(b, AbsSlot(u)) <= LocalSlot(b, a)
        /\ LocalSlot(b, a) + 1 <= LocalSlot(b, AbsSlot(v) + 1)
    BY <1>2, <1>6, <2>3, <2>4, LocalSlotFacts
  <2>6. /\ LocalSlot(b, a) \in Int /\ LocalSlot(b, AbsSlot(u)) \in Int
        /\ LocalSlot(b, AbsSlot(v) + 1) \in Int
    BY <1>6, <1>8, <2>3
  <2>7. ~(lo > hi \/ u > v)
    BY <1>4, <1>11, <2>1
  <2>8. QED
    BY <1>7, <2>2, <2>5, <2>6, <2>7
<1>12. QED
  BY <1>9, <1>10, <1>11

(* When the walk ends, every record in the query's range has been probed   *)
(* for in its bucket; no record outside the slots of the query's ends has  *)
(* been, and no local slot the bucket's tree does not have.                *)
THEOREM TheWalkIsExact == Spec => []WalkIsExact
<1>1. BucketInv => WalkIsExact
  <2> SUFFICES ASSUME BucketInv, NEW q \in query
               PROVE  /\ WalkEnded(q) =>
                           \A r \in DOMAIN ts :
                             (q.lo <= ts[r] /\ ts[r] <= q.hi) =>
                               LET b == recordToBucket[r] IN LocalSlot(b, AbsSlot(ts[r])) \in probed[b]
                      /\ \A b \in DOMAIN probed :
                           /\ \A i \in probed[b] : i \in 0 .. Cardinality(buckets[b].slots) - 1
                           /\ \A r \in DOMAIN ts :
                                (recordToBucket[r] = b /\ LocalSlot(b, AbsSlot(ts[r])) \in probed[b]) =>
                                  AbsSlot(q.lo) <= AbsSlot(ts[r]) /\ AbsSlot(ts[r]) <= AbsSlot(q.hi)
    BY DEF WalkIsExact
  <2>0. SettingInv /\ OrderInv /\ LoopInv /\ CutInv
    BY DEF BucketInv
  <2>1. /\ phase = "idle" /\ q.lo \in Int /\ q.hi \in Int
        /\ DOMAIN probed = DOMAIN buckets /\ cursor \in 0 .. Len(buckets)
        /\ \A b \in DOMAIN buckets :
             /\ probed[b] \in {{}, LocalRange(b, q.lo, q.hi)}
             /\ Reached(b) /\ q.lo <= buckets[b].endTs => probed[b] = LocalRange(b, q.lo, q.hi)
    BY DEF BucketInv, WalkInv
  <2>2. ASSUME WalkEnded(q), NEW r \in DOMAIN ts, q.lo <= ts[r], ts[r] <= q.hi
        PROVE  LocalSlot(recordToBucket[r], AbsSlot(ts[r])) \in probed[recordToBucket[r]]
    <3>1. PICK b, t : b = recordToBucket[r] /\ t = ts[r]
      OBVIOUS
    <3>2. /\ b \in DOMAIN buckets /\ t \in Int /\ buckets[b].startTs <= t /\ t <= buckets[b].endTs
          /\ AbsSlot(t) \in buckets[b].slots
      BY <2>1, <3>1, RecordFacts
    <3>3. PICK e \in [0 .. Len(buckets) -> 0 .. taken] : Cuts(e)
      BY <2>0 DEF CutInv
    <3>4. /\ Len(buckets) \in Nat /\ DOMAIN buckets = 1 .. Len(buckets)
          /\ \A c \in DOMAIN buckets : buckets[c].startTs \in Int /\ buckets[c].endTs \in Int
                                      /\ buckets[c].startTs <= buckets[c].endTs
      BY <2>0, <3>3, CutFacts
    <3>5. Reached(b)
      <4>1. CASE cursor \in DOMAIN buckets
        <5>1. buckets[cursor].startTs > q.hi
          BY <2>2, <4>1 DEF WalkEnded
        <5>2. b # cursor
          BY <2>1, <2>2, <3>1, <3>2, <3>4, <5>1
        <5>3. cursor < b => buckets[cursor].endTs <= buckets[b].startTs
          BY <2>0, <3>2, <3>3, <3>4, <4>1, CutFacts
        <5>4. ~(cursor < b)
          BY <2>1, <2>2, <3>1, <3>2, <3>4, <4>1, <5>1, <5>3
        <5>5. QED
          BY <3>2, <3>4, <4>1, <5>2, <5>4 DEF Reached
      <4>2. CASE cursor \notin DOMAIN buckets
        BY <2>1, <3>4, <4>2 DEF Reached, None
      <4>3. QED
        BY <4>1, <4>2
    <3>6. q.lo <= buckets[b].endTs
      BY <2>1, <2>2, <3>1, <3>2, <3>4
    <3>7. probed[b] = LocalRange(b, q.lo, q.hi)
      BY <2>1, <3>2, <3>5, <3>6
    <3>8. LocalSlot(b, AbsSlot(t)) \in LocalRange(b, q.lo, q.hi)
      BY <2>0, <2>1, <2>2, <3>1, <3>2, LocalRangeIsExact
    <3>9. QED
      BY <3>1, <3>7, <3>8
  <2>3. ASSUME NEW b \in DOMAIN probed, NEW i \in probed[b]
        PROVE  i \in 0 .. Cardinality(buckets[b].slots) - 1
    <3>1. b \in DOMAIN buckets /\ i \in LocalRange(b, q.lo, q.hi)
      BY <2>1, <2>3
    <3>2. QED
      BY <2>0, <2>1, <3>1, LocalRangeIsExact
  <2>4. ASSUME NEW b \in DOMAIN probed, NEW r \in DOMAIN ts,
               recordToBucket[r] = b, LocalSlot(b, AbsSlot(ts[r])) \in probed[b]
        PROVE  AbsSlot(q.lo) <= AbsSlot(ts[r]) /\ AbsSlot(ts[r]) <= AbsSlot(q.hi)
    <3>1. ts[r] \in Int /\ AbsSlot(ts[r]) \in buckets[b].slots /\ b \in DOMAIN buckets
      BY <2>1, <2>4, RecordFacts
    <3>2. LocalSlot(b, AbsSlot(ts[r])) \in LocalRange(b, q.lo, q.hi)
      BY <2>1, <2>4, <3>1
    <3>3. QED
      BY <2>0, <2>1, <3>1, <3>2, LocalRangeIsExact
  <2>5. QED
    BY <2>2, <2>3, <2>4
<1>2. QED
  BY <1>1, BucketInvHolds, PTL
=============================================================================
