----------------------- MODULE PeaDramDayIndexProofs ------------------------
(***************************************************************************)
(* Proofs about PeaDramDayIndex for any days, roots and failures of the    *)
(* hash table.                                                             *)
(***************************************************************************)
EXTENDS PeaDramDayIndex, TLAPS, SequenceTheorems

IsLeast(d, S) == d \in S /\ \A e \in S : d <= e
IsGreatest(d, S) == d \in S /\ \A e \in S : e <= d

-----------------------------------------------------------------------------
(* The inductive invariant                                                 *)

(* The stored days are finitely many; what the proofs need of this is that *)
(* a set of stored days has a first and a last one.                        *)
EndsInv ==
  \A S \in SUBSET Stored :
    S # {} => (\E d \in S : IsLeast(d, S)) /\ (\E d \in S : IsGreatest(d, S))

(* The hash table lacks exactly the days whose insert has thrown. *)
HashInv == hashed = Stored \ failed /\ failed \subseteq Stored

(* The walk has found the days of its range that are before its cursor.    *)
Passed(q) == {d \in Stored : q.lo <= d /\ (cursor # NULL => d < cursor)}

WalkInv ==
  /\ \A p, q \in query : p = q
  /\ \A q \in query :
       /\ cursor # NULL => q.lo <= cursor
       /\ {found[i][1] : i \in DOMAIN found} = Passed(q)
       /\ \A i \in DOMAIN found :
            found[i][1] <= q.hi /\ found[i][2] = buckets[found[i][1]].root
       /\ \A i, j \in DOMAIN found : i < j => found[i][1] < found[j][1]

DayInv ==
  /\ TypeOK /\ LinksFollowMap /\ EndsInv /\ HashInv /\ WalkInv

(* Least is what its name says of any set of stored days. *)
LEMMA LeastIsLeast ==
  ASSUME EndsInv, NEW S \in SUBSET Stored
  PROVE  /\ S = {} => Least(S) = NULL
         /\ S # {} => IsLeast(Least(S), S)
<1>1. S = {} => Least(S) = NULL
  BY DEF Least
<1>2. ASSUME S # {} PROVE IsLeast(Least(S), S)
  <2>1. \E d \in S : \A e \in S : d <= e
    BY <1>2 DEF EndsInv, IsLeast
  <2>2. QED
    BY <1>2, <2>1 DEF Least, IsLeast
<1>3. QED
  BY <1>1, <1>2

(* A set has one least element. *)
LEMMA LeastIsUnique ==
  ASSUME NEW S \in SUBSET Int, NEW d, IsLeast(d, S)
  PROVE  Least(S) = d
<1>1. S # {} /\ \E x \in S : \A e \in S : x <= e
  BY DEF IsLeast
<1>2. IsLeast(Least(S), S)
  BY <1>1 DEF Least, IsLeast
<1>3. Least(S) <= d /\ d <= Least(S) /\ Least(S) \in Int /\ d \in Int
  BY <1>2 DEF IsLeast
<1>4. QED
  BY <1>3

LEMMA InitDayInv == Init => DayInv
<1> SUFFICES ASSUME Init PROVE DayInv
  OBVIOUS
<1>1. Stored = {}
  BY DEF Init, Stored
<1>2. TypeOK
  <2>1. <<>> \in Seq(Day \X Tree)
    OBVIOUS
  <2>2. buckets \in [Stored -> [root : Tree, next : Day \cup {NULL}]]
    BY <1>1 DEF Init, Stored
  <2>3. QED
    BY <1>1, <2>1, <2>2 DEF Init, TypeOK
<1>3. LinksFollowMap /\ EndsInv /\ HashInv /\ WalkInv
  BY <1>1 DEF Init, LinksFollowMap, EndsInv, HashInv, WalkInv
<1>4. QED
  BY <1>2, <1>3 DEF DayInv

-----------------------------------------------------------------------------
(* Inserting                                                               *)

(* One more day leaves sets of stored days with a first and a last one. *)
LEMMA EndsGrow ==
  ASSUME DayInv, NEW d \in Day, NEW U, U = Stored \cup {d}
  PROVE  \A S \in SUBSET U :
           S # {} => (\E x \in S : IsLeast(x, S)) /\ (\E x \in S : IsGreatest(x, S))
<1> SUFFICES ASSUME NEW S \in SUBSET U, S # {}
             PROVE  (\E x \in S : IsLeast(x, S)) /\ (\E x \in S : IsGreatest(x, S))
  OBVIOUS
<1> DEFINE R == S \ {d}
<1>1. R \in SUBSET Stored /\ S \subseteq Int /\ d \in Int
  BY DayAssumption DEF DayInv, TypeOK
<1>2. CASE R = {}
  <2>1. S = {d}
    BY <1>2
  <2>2. IsLeast(d, S) /\ IsGreatest(d, S)
    BY <2>1, <1>1 DEF IsLeast, IsGreatest
  <2>3. QED
    BY <2>1, <2>2
<1>3. CASE R # {}
  <2>1. PICK l \in R : IsLeast(l, R)
    BY <1>1, <1>3 DEF DayInv, EndsInv
  <2>2. PICK g \in R : IsGreatest(g, R)
    BY <1>1, <1>3 DEF DayInv, EndsInv
  <2>3. \E x \in S : IsLeast(x, S)
    <3>1. CASE d \notin S \/ l <= d
      <4>1. IsLeast(l, S)
        BY <1>1, <2>1, <3>1 DEF IsLeast
      <4>2. QED
        BY <4>1
    <3>2. CASE d \in S /\ d < l
      <4>1. IsLeast(d, S)
        BY <1>1, <2>1, <3>2 DEF IsLeast
      <4>2. QED
        BY <4>1, <3>2
    <3>3. QED
      BY <1>1, <3>1, <3>2
  <2>4. \E x \in S : IsGreatest(x, S)
    <3>1. CASE d \notin S \/ d <= g
      <4>1. IsGreatest(g, S)
        BY <1>1, <2>2, <3>1 DEF IsGreatest
      <4>2. QED
        BY <4>1
    <3>2. CASE d \in S /\ g < d
      <4>1. IsGreatest(d, S)
        BY <1>1, <2>2, <3>2 DEF IsGreatest
      <4>2. QED
        BY <4>1, <3>2
    <3>3. QED
      BY <1>1, <3>1, <3>2
  <2>5. QED
    BY <2>3, <2>4
<1>4. QED
  BY <1>2, <1>3

(* The next day of each stored day, when d joins them: d itself for the    *)
(* day before it, the first later day for d, the old one for the others.   *)
LEMMA LinkedFollows ==
  ASSUME DayInv, NEW d \in Day \ Stored, NEW r \in Tree
  PROVE  \A x \in Stored \cup {d} :
           Linked(d, r)[x].next = Least({e \in Stored \cup {d} : x < e})
<1> DEFINE U == Stored \cup {d}
<1>0. Stored \subseteq Int /\ d \in Int /\ Stored \subseteq Day
  BY DayAssumption DEF DayInv, TypeOK
<1>1. Linked(d, r)[d].next = Least({e \in U : d < e})
  <2>1. {e \in U : d < e} = After(d)
    BY <1>0 DEF After
  <2>2. QED
    BY <2>1 DEF Linked
<1>2. ASSUME NEW x \in Stored, IsPrevious(x, d)
      PROVE  Linked(d, r)[x].next = Least({e \in U : x < e})
  <2>1. Linked(d, r)[x].next = d
    BY <1>2 DEF Linked, DayInv, TypeOK
  <2>2. IsLeast(d, {e \in U : x < e})
    BY <1>0, <1>2 DEF IsPrevious, Before, IsLeast
  <2>3. d = Least({e \in U : x < e})
    BY <1>0, <2>2, LeastIsUnique
  <2>4. QED
    BY <2>1, <2>3
<1>3. ASSUME NEW x \in Stored, ~IsPrevious(x, d)
      PROVE  Linked(d, r)[x].next = Least({e \in U : x < e})
  <2>1. Linked(d, r)[x].next = Least(After(x))
    BY <1>3 DEF Linked, DayInv, LinksFollowMap
  <2>2. CASE d < x
    <3>1. {e \in U : x < e} = After(x)
      BY <1>0, <2>2 DEF After
    <3>2. QED
      BY <2>1, <3>1
  <2>3. CASE x < d
    <3>1. PICK e \in Before(d) : x < e
      BY <1>0, <1>3, <2>3 DEF IsPrevious, Before
    <3>2. e \in After(x) /\ e < d
      BY <3>1, <1>0 DEF After, Before
    <3>3. IsLeast(Least(After(x)), After(x))
      BY <3>2, LeastIsLeast DEF DayInv, After
    <3>4. IsLeast(Least(After(x)), {y \in U : x < y})
      <4> DEFINE m == Least(After(x))
      <4>1. m \in After(x) /\ m <= e /\ m \in Int
        BY <1>0, <3>2, <3>3 DEF IsLeast, After
      <4>2. m <= d
        BY <1>0, <3>2, <4>1 DEF After
      <4>3. \A y \in {z \in U : x < z} : m <= y
        BY <3>3, <4>2 DEF IsLeast, After
      <4>4. m \in {y \in U : x < y}
        BY <4>1 DEF After
      <4>5. QED
        BY <4>3, <4>4 DEF IsLeast
    <3>5. Least({y \in U : x < y}) = Least(After(x))
      BY <1>0, <3>4, LeastIsUnique
    <3>6. QED
      BY <2>1, <3>5
  <2>4. QED
    BY <1>0, <2>2, <2>3
<1>4. QED
  BY <1>1, <1>2, <1>3

LEMMA InsertNewKeepsDayInv ==
  ASSUME DayInv, NEW d \in Day, NEW r \in Tree, query = {},
         InsertNew(d, r), UNCHANGED walking
  PROVE  DayInv'
<1> DEFINE U == Stored \cup {d}
<1>0. /\ d \in Day \ Stored /\ buckets' = Linked(d, r)
      /\ Stored \subseteq Day /\ query' = {} /\ cursor' = cursor /\ found' = found
  BY DEF InsertNew, walking, DayInv, TypeOK
<1>1. Stored' = U
  BY <1>0 DEF Linked, Stored
<1>2. Least(After(d)) \in Day \cup {NULL}
  <2>1. After(d) \in SUBSET Stored
    BY DEF After
  <2>2. QED
    BY <1>0, <2>1, LeastIsLeast DEF DayInv, IsLeast
<1>3. buckets' \in [Stored' -> [root : Tree, next : Day \cup {NULL}]]
  <2>1. \A x \in U : Linked(d, r)[x] \in [root : Tree, next : Day \cup {NULL}]
    BY <1>0, <1>2 DEF Linked, DayInv, TypeOK
  <2>2. QED
    BY <1>0, <1>1, <2>1 DEF Linked
<1>4. /\ HashInv' /\ hashed' \subseteq Stored' /\ failed' \subseteq Day
  <2>1. HashInv /\ hashed \subseteq Stored /\ failed \subseteq Day
    BY DEF DayInv, TypeOK
  <2>2. CASE hashed' = hashed \cup {d} /\ UNCHANGED failed
    BY <1>0, <1>1, <2>1, <2>2 DEF HashInv
  <2>3. CASE failed' = failed \cup {d} /\ UNCHANGED hashed
    BY <1>0, <1>1, <2>1, <2>3 DEF HashInv
  <2>4. QED
    BY <2>2, <2>3 DEF InsertNew, HashInsert
<1>5. TypeOK'
  BY <1>0, <1>1, <1>3, <1>4 DEF TypeOK, DayInv
<1>6. LinksFollowMap'
  <2>1. \A x \in U : {e \in U : x < e} = After(x)'
    BY <1>1 DEF After
  <2>2. \A x \in U : buckets'[x].next = Least({e \in U : x < e})
    BY <1>0, LinkedFollows
  <2>3. QED
    BY <1>1, <2>1, <2>2 DEF LinksFollowMap, Least
<1>7. EndsInv'
  BY <1>1, EndsGrow DEF EndsInv
<1>8. WalkInv'
  BY <1>0 DEF WalkInv
<1>9. QED
  BY <1>4, <1>5, <1>6, <1>7, <1>8 DEF DayInv

LEMMA InsertAgainKeepsDayInv ==
  ASSUME DayInv, NEW d \in Day, NEW r \in Tree, query = {},
         InsertAgain(d, r), UNCHANGED walking
  PROVE  DayInv'
<1>1. /\ d \in Stored /\ buckets' = [buckets EXCEPT ![d].root = r]
      /\ hashed' = hashed /\ failed' = failed
      /\ query' = {} /\ cursor' = cursor /\ found' = found
  BY DEF InsertAgain, walking
<1>2. Stored' = Stored
  BY <1>1 DEF Stored
<1>3. buckets' \in [Stored -> [root : Tree, next : Day \cup {NULL}]]
  BY <1>1 DEF DayInv, TypeOK
<1>4. \A x \in Stored : buckets'[x].next = buckets[x].next
  BY <1>1 DEF DayInv, TypeOK
<1>5. TypeOK'
  BY <1>1, <1>2, <1>3 DEF DayInv, TypeOK
<1>6. LinksFollowMap'
  <2>1. \A x \in Stored : After(x)' = After(x)
    BY <1>2 DEF After
  <2>2. QED
    BY <1>2, <1>4, <2>1 DEF DayInv, LinksFollowMap, Least
<1>7. EndsInv' /\ HashInv'
  BY <1>1, <1>2 DEF DayInv, EndsInv, HashInv
<1>8. WalkInv'
  BY <1>1 DEF WalkInv
<1>9. QED
  BY <1>5, <1>6, <1>7, <1>8 DEF DayInv

-----------------------------------------------------------------------------
(* Walking                                                                 *)

LEMMA StartWalkKeepsDayInv ==
  ASSUME DayInv, NEW lo \in Day, NEW hi \in Day, StartWalk(lo, hi)
  PROVE  DayInv'
<1> DEFINE S == {d \in Stored : lo <= d}
<1>0. /\ query' = {[lo |-> lo, hi |-> hi]} /\ cursor' = FirstIntersectingDay(lo)
      /\ found' = <<>> /\ UNCHANGED <<buckets, hashed, failed>>
      /\ Stored \subseteq Day /\ Stored \subseteq Int /\ lo \in Int
  BY DayAssumption DEF StartWalk, DayInv, TypeOK
<1>1. Stored' = Stored
  BY <1>0 DEF Stored
<1>2. \/ S = {} /\ cursor' = NULL
      \/ cursor' \in S /\ \A d \in S : cursor' <= d
  <2>1. CASE lo \in hashed
    <3>1. cursor' = lo /\ lo \in S
      BY <1>0, <2>1, DayAssumption DEF FirstIntersectingDay, GetBucket, DayInv, TypeOK
    <3>2. QED
      BY <3>1
  <2>2. CASE lo \notin hashed
    <3>1. cursor' = Least(S)
      BY <1>0, <2>2 DEF FirstIntersectingDay, GetBucket
    <3>2. S \in SUBSET Stored
      OBVIOUS
    <3>3. QED
      BY <3>1, <3>2, LeastIsLeast DEF DayInv, IsLeast
  <2>3. QED
    BY <2>1, <2>2
<1>3. TypeOK'
  <2>1. <<>> \in Seq(Day \X Tree)
    OBVIOUS
  <2>2. query' \subseteq [lo : Day, hi : Day]
    BY <1>0
  <2>3. cursor' \in Stored \cup {NULL}
    BY <1>2
  <2>4. QED
    BY <1>0, <1>1, <2>1, <2>2, <2>3 DEF TypeOK, DayInv
<1>4. LinksFollowMap' /\ EndsInv' /\ HashInv'
  <2>1. \A x \in Stored : After(x)' = After(x)
    BY <1>1 DEF After
  <2>2. LinksFollowMap'
    BY <1>0, <1>1, <2>1 DEF DayInv, LinksFollowMap, Least
  <2>3. QED
    BY <1>0, <1>1, <2>2 DEF DayInv, EndsInv, HashInv
<1>5. WalkInv'
  <2> DEFINE q == [lo |-> lo, hi |-> hi]
  <2>1. query' = {q} /\ q.lo = lo /\ DOMAIN found' = {}
    BY <1>0
  <2>2. cursor' # NULL => lo <= cursor'
    BY <1>2
  <2>3. Passed(q)' = {}
    <3>1. ASSUME NEW d \in Stored, lo <= d, cursor' # NULL => d < cursor'
          PROVE  FALSE
      <4>1. d \in S
        BY <3>1
      <4>2. cursor' \in S /\ cursor' <= d
        BY <1>2, <4>1
      <4>3. cursor' # NULL /\ d \in Int /\ cursor' \in Int
        BY <1>0, <4>2, DayAssumption
      <4>4. QED
        BY <3>1, <4>2, <4>3
    <3>2. Passed(q)' = {d \in Stored : lo <= d /\ (cursor' # NULL => d < cursor')}
      BY <1>1, <2>1 DEF Passed
    <3>3. QED
      BY <3>1, <3>2
  <2>4. {found'[i][1] : i \in DOMAIN found'} = {}
    BY <2>1
  <2>5. QED
    BY <2>1, <2>2, <2>3, <2>4 DEF WalkInv
<1>6. QED
  BY <1>3, <1>4, <1>5 DEF DayInv

LEMMA VisitDayKeepsDayInv == DayInv /\ VisitDay => DayInv'
<1> SUFFICES ASSUME DayInv, VisitDay PROVE DayInv'
  OBVIOUS
<1>1. PICK q \in query :
        /\ ~WalkEnded(q)
        /\ found' = Append(found, <<cursor, buckets[cursor].root>>)
        /\ cursor' = buckets[cursor].next
        /\ UNCHANGED <<buckets, hashed, query, failed>>
  BY DEF VisitDay
<1> DEFINE item == <<cursor, buckets[cursor].root>>
           n == Len(found)
<1>2. /\ Stored \subseteq Day /\ Stored \subseteq Int /\ q.lo \in Int /\ q.hi \in Int
      /\ found \in Seq(Day \X Tree)
  BY <1>1, DayAssumption DEF DayInv, TypeOK
<1>3. /\ cursor \in Stored /\ cursor <= q.hi /\ cursor \in Int /\ q.lo <= cursor
      /\ cursor # NULL
  BY <1>1, <1>2, DayAssumption DEF WalkEnded, DayInv, TypeOK, WalkInv
<1>4. Stored' = Stored
  BY <1>1 DEF Stored
<1>5. /\ cursor' = Least(After(cursor))
      /\ After(cursor) = {} => cursor' = NULL
      /\ After(cursor) # {} => IsLeast(cursor', After(cursor))
  <2>1. cursor' = Least(After(cursor))
    BY <1>1, <1>3 DEF DayInv, LinksFollowMap
  <2>2. After(cursor) \in SUBSET Stored
    BY DEF After
  <2>3. QED
    BY <2>1, <2>2, LeastIsLeast DEF DayInv
<1>6. /\ n \in Nat /\ DOMAIN found = 1 .. n
      /\ DOMAIN found' = 1 .. n + 1 /\ found'[n + 1] = item
      /\ \A i \in 1 .. n : found'[i] = found[i]
  BY <1>1, <1>2
<1>7. item \in Day \X Tree
  BY <1>2, <1>3 DEF DayInv, TypeOK
<1>8. TypeOK'
  <2>1. cursor' \in Stored \cup {NULL}
    BY <1>5 DEF IsLeast, After
  <2>2. found' \in Seq(Day \X Tree)
    BY <1>1, <1>2, <1>7
  <2>3. QED
    BY <1>1, <1>4, <2>1, <2>2 DEF DayInv, TypeOK
<1>9. LinksFollowMap' /\ EndsInv' /\ HashInv'
  <2>1. \A x \in Stored : After(x)' = After(x)
    BY <1>4 DEF After
  <2>2. LinksFollowMap'
    <3>1. \A x \in Stored : buckets[x].next = Least(After(x))
      BY DEF DayInv, LinksFollowMap
    <3>2. \A x \in Stored : buckets'[x].next = Least(After(x)')
      BY <1>1, <2>1, <3>1
    <3>3. QED
      BY <1>4, <3>2 DEF LinksFollowMap, Least
  <2>3. EndsInv' /\ HashInv'
    BY <1>1, <1>4 DEF DayInv, EndsInv, HashInv
  <2>4. QED
    BY <2>2, <2>3
<1>10. WalkInv'
  <2>1. query' = query /\ \A p \in query : p = q
    BY <1>1 DEF DayInv, WalkInv
  <2>2. cursor' # NULL => q.lo <= cursor'
    <3>1. cursor' # NULL => cursor' \in Stored /\ cursor < cursor'
      BY <1>5 DEF IsLeast, After
    <3>2. /\ cursor' # NULL => cursor' \in Int /\ cursor < cursor'
          /\ q.lo \in Int /\ cursor \in Int /\ q.lo <= cursor
      BY <1>2, <1>3, <3>1
    <3>3. QED
      BY <3>2
  <2>3. {found'[i][1] : i \in DOMAIN found'} = {found[i][1] : i \in DOMAIN found} \cup {cursor}
    BY <1>6
  <2>4. Passed(q)' = Passed(q) \cup {cursor}
    <3>1. Passed(q)' = {d \in Stored : q.lo <= d /\ (cursor' # NULL => d < cursor')}
      BY <1>4 DEF Passed
    <3>2. ASSUME NEW d \in Stored
          PROVE  (cursor' # NULL => d < cursor') <=> d < cursor \/ d = cursor
      <4>1. CASE After(cursor) = {}
        BY <1>2, <1>3, <1>5, <4>1 DEF After
      <4>2. CASE After(cursor) # {}
        <5>1. cursor' \in Stored /\ cursor < cursor' /\ cursor' # NULL
          BY <1>2, <1>5, <4>2, DayAssumption DEF IsLeast, After
        <5>2. cursor < d => cursor' <= d
          BY <1>5, <4>2 DEF IsLeast, After
        <5>3. QED
          BY <1>2, <1>3, <5>1, <5>2
      <4>3. QED
        BY <4>1, <4>2
    <3>3. Passed(q) = {d \in Stored : q.lo <= d /\ d < cursor}
      BY <1>3 DEF Passed
    <3>4. QED
      BY <1>3, <3>1, <3>2, <3>3
  <2>5. {found[i][1] : i \in DOMAIN found} = Passed(q)
    BY <1>1 DEF DayInv, WalkInv
  <2>6. \A i \in DOMAIN found' :
          found'[i][1] <= q.hi /\ found'[i][2] = buckets'[found'[i][1]].root
    <3>1. \A i \in 1 .. n :
            found[i][1] <= q.hi /\ found[i][2] = buckets[found[i][1]].root
      BY <1>1, <1>6 DEF DayInv, WalkInv
    <3>2. item[1] = cursor /\ item[2] = buckets[cursor].root /\ buckets' = buckets
      BY <1>1
    <3>3. QED
      BY <1>3, <1>6, <3>1, <3>2
  <2>7. \A i, j \in DOMAIN found' : i < j => found'[i][1] < found'[j][1]
    <3>1. \A i, j \in 1 .. n : i < j => found[i][1] < found[j][1]
      BY <1>1, <1>6 DEF DayInv, WalkInv
    <3>2. \A i \in 1 .. n : found[i][1] < cursor
      <4>1. \A i \in 1 .. n : found[i][1] \in Passed(q)
        BY <1>6, <2>5
      <4>2. QED
        BY <1>3, <4>1 DEF Passed
    <3>3. item[1] = cursor
      OBVIOUS
    <3>4. QED
      BY <1>6, <3>1, <3>2, <3>3
  <2>8. /\ {found'[i][1] : i \in DOMAIN found'} = Passed(q)'
    BY <2>3, <2>4, <2>5
  <2>9. QED
    BY <2>1, <2>2, <2>6, <2>7, <2>8 DEF WalkInv
<1>11. QED
  BY <1>8, <1>9, <1>10 DEF DayInv

(* A state where nothing stored has changed and no walk is on. *)
LEMMA EndWalkKeepsDayInv == DayInv /\ EndWalk => DayInv'
<1> SUFFICES ASSUME DayInv, EndWalk PROVE DayInv'
  OBVIOUS
<1>1. /\ query' = {} /\ cursor' = NULL /\ found' = <<>>
      /\ UNCHANGED <<buckets, hashed, failed>>
  BY DEF EndWalk
<1>2. Stored' = Stored /\ \A x \in Stored : After(x)' = After(x)
  BY <1>1 DEF Stored, After
<1>3. TypeOK'
  <2>1. <<>> \in Seq(Day \X Tree)
    OBVIOUS
  <2>2. QED
    BY <1>1, <1>2, <2>1 DEF DayInv, TypeOK
<1>4. LinksFollowMap' /\ EndsInv' /\ HashInv' /\ WalkInv'
  <2>1. LinksFollowMap'
    BY <1>1, <1>2 DEF DayInv, LinksFollowMap, Least
  <2>2. EndsInv'
    BY <1>1, <1>2 DEF DayInv, EndsInv
  <2>3. HashInv' /\ WalkInv'
    BY <1>1, <1>2 DEF DayInv, HashInv, WalkInv
  <2>4. QED
    BY <2>1, <2>2, <2>3
<1>5. QED
  BY <1>3, <1>4 DEF DayInv

-----------------------------------------------------------------------------
LEMMA NextKeepsDayInv == DayInv /\ [Next]_vars => DayInv'
<1> SUFFICES ASSUME DayInv, [Next]_vars PROVE DayInv'
  OBVIOUS
<1>1. ASSUME NEW d \in Day, NEW r \in Tree, Insert(d, r) PROVE DayInv'
  BY <1>1, InsertNewKeepsDayInv, InsertAgainKeepsDayInv DEF Insert
<1>2. ASSUME NEW lo \in Day, NEW hi \in Day, StartWalk(lo, hi) PROVE DayInv'
  BY <1>2, StartWalkKeepsDayInv
<1>3. CASE VisitDay
  BY <1>3, VisitDayKeepsDayInv
<1>4. CASE EndWalk
  BY <1>4, EndWalkKeepsDayInv
<1>5. CASE UNCHANGED vars
  <2>1. /\ UNCHANGED <<buckets, hashed, query, cursor, found, failed>>
        /\ Stored' = Stored /\ \A x \in Stored : After(x)' = After(x)
    BY <1>5 DEF vars, Stored, After
  <2>2. \A q \in query : Passed(q)' = Passed(q)
    BY <2>1 DEF Passed
  <2>3. TypeOK' /\ LinksFollowMap' /\ EndsInv' /\ HashInv'
    <3>1. TypeOK'
      BY <2>1 DEF DayInv, TypeOK
    <3>2. LinksFollowMap'
      BY <2>1 DEF DayInv, LinksFollowMap, Least
    <3>3. EndsInv'
      BY <2>1 DEF DayInv, EndsInv
    <3>4. HashInv'
      BY <2>1 DEF DayInv, HashInv
    <3>5. QED
      BY <3>1, <3>2, <3>3, <3>4
  <2>4. WalkInv'
    BY <2>1, <2>2 DEF DayInv, WalkInv
  <2>5. QED
    BY <2>3, <2>4 DEF DayInv
<1>6. QED
  BY <1>1, <1>2, <1>3, <1>4, <1>5 DEF Next

THEOREM DayInvariant == Spec => []DayInv
<1>1. QED
  BY InitDayInv, NextKeepsDayInv, PTL DEF Spec

(* The state of the day index has its types: what the hash table holds is  *)
(* in the map, and a walk stands at a stored day or at the end.            *)
THEOREM DayIndexTypeCorrect == Spec => []TypeOK
<1>1. DayInv => TypeOK
  BY DEF DayInv
<1>2. QED
  BY <1>1, DayInvariant, PTL

(* The next pointers that insert() splices chain the days in the order of  *)
(* the map, whatever the order of the inserts and whether they throw.      *)
THEOREM LinksFollowTheMap == Spec => []LinksFollowMap
<1>1. DayInv => LinksFollowMap
  BY DEF DayInv
<1>2. QED
  BY <1>1, DayInvariant, PTL

(* get() finds the last root of every stored day but those whose insert    *)
(* has thrown from the hash table, and never finds one of these.           *)
THEOREM LookupsFollowTheHashTable == Spec => []LookupMissesOnlyFailedDays
<1>1. DayInv => LookupMissesOnlyFailedDays
  <2> SUFFICES ASSUME DayInv, NEW d \in Day
               PROVE  Get(d) = IF d \in Stored \ failed THEN buckets[d].root ELSE NULL
    BY DEF LookupMissesOnlyFailedDays
  <2>1. hashed = Stored \ failed /\ d # NULL
    BY DayAssumption DEF DayInv, HashInv
  <2>2. QED
    BY <2>1 DEF Get, GetBucket
<1>2. QED
  BY <1>1, DayInvariant, PTL

(* The walk from firstIntersectingDay along the next pointers finds each   *)
(* stored day of the range once, in order, with its root, even the days    *)
(* that a lookup misses.                                                   *)
THEOREM WalksFindTheirRange == Spec => []WalkFindsRange
<1>1. DayInv => WalkFindsRange
  <2> SUFFICES ASSUME DayInv, NEW q \in query, WalkEnded(q)
               PROVE  /\ {found[i][1] : i \in DOMAIN found}
                            = {d \in Stored : q.lo <= d /\ d <= q.hi}
                      /\ \A i \in DOMAIN found : found[i][2] = buckets[found[i][1]].root
                      /\ \A i, j \in DOMAIN found : i < j => found[i][1] < found[j][1]
    BY DEF WalkFindsRange
  <2>1. /\ {found[i][1] : i \in DOMAIN found} = Passed(q)
        /\ \A i \in DOMAIN found :
             found[i][1] <= q.hi /\ found[i][2] = buckets[found[i][1]].root
        /\ \A i, j \in DOMAIN found : i < j => found[i][1] < found[j][1]
    BY DEF DayInv, WalkInv
  <2>2. Stored \subseteq Int /\ q.hi \in Int /\ cursor \in Stored \cup {NULL}
    BY DayAssumption DEF DayInv, TypeOK
  <2>3. \A d \in Passed(q) : d <= q.hi
    BY <2>1
  <2>4. \A d \in Stored : d <= q.hi => (cursor # NULL => d < cursor)
    BY <2>2 DEF WalkEnded
  <2>5. Passed(q) = {d \in Stored : q.lo <= d /\ d <= q.hi}
    BY <2>3, <2>4 DEF Passed
  <2>6. QED
    BY <2>1, <2>5
<1>2. QED
  BY <1>1, DayInvariant, PTL

(* The pointers never lead a walk back or in a circle: each round of it    *)
(* goes to a later day or to the end.                                      *)
THEOREM WalksMoveOn == Spec => WalkMovesOn
<1> DEFINE MovesOn == query # {} /\ query' = query => cursor' = NULL \/ cursor < cursor'
<1>1. DayInv /\ [Next]_vars => [MovesOn]_vars
  <2> SUFFICES ASSUME DayInv, Next, query # {}, query' = query
               PROVE  cursor' = NULL \/ cursor < cursor'
    OBVIOUS
  <2>1. VisitDay
    <3>1. ~EndWalk
      BY DEF EndWalk
    <3>2. ~\E d \in Day, r \in Tree : Insert(d, r)
      BY DEF Insert
    <3>3. ~\E lo, hi \in Day : StartWalk(lo, hi)
      BY DEF StartWalk
    <3>4. QED
      BY <3>1, <3>2, <3>3 DEF Next
  <2>2. cursor # NULL /\ cursor' = buckets[cursor].next
    BY <2>1 DEF VisitDay, WalkEnded
  <2>3. cursor' = Least(After(cursor))
    BY <2>2 DEF DayInv, TypeOK, LinksFollowMap
  <2>4. After(cursor) \in SUBSET Stored
    BY DEF After
  <2>5. cursor' = NULL \/ cursor' \in After(cursor)
    BY <2>3, <2>4, LeastIsLeast DEF DayInv, IsLeast
  <2>6. QED
    BY <2>5 DEF After
<1>2. QED
  BY <1>1, DayInvariant, PTL DEF Spec, WalkMovesOn
=============================================================================
