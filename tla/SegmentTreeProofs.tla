-------------------------- MODULE SegmentTreeProofs --------------------------
(***************************************************************************)
(* Proofs about SegmentTree for every tree size, keyword hash, sharing     *)
(* threshold and number of records.                                        *)
(***************************************************************************)
EXTENDS SegmentTree, TLAPS, FiniteSetTheorems

-----------------------------------------------------------------------------
(* The heap and the tree                                                   *)

(* There is always an object no node points to, so FreshObject is one.     *)
LEMMA FreshObjectExists ==
  ASSUME NEW ptr \in [Node -> Obj \cup {NULL}]
  PROVE  FreshObject(ptr) \in Obj /\ FreshObject(ptr) \notin Live(ptr)
<1> DEFINE T == {ptr[v] : v \in Node}
<1>1. ptr \in Surjection(Node, T)
  BY DEF Surjection
<1>2. IsFiniteSet(T) /\ Cardinality(T) <= Cardinality(Node)
  BY <1>1, FS_Surjection, ObjAssumption
<1>3. ~(Obj \subseteq T)
  <2>1. SUFFICES ASSUME Obj \subseteq T PROVE FALSE
    OBVIOUS
  <2>2. Cardinality(Obj) <= Cardinality(T)
    BY <2>1, <1>2, FS_Subset
  <2>3. Cardinality(Node) \in Nat /\ Cardinality(Obj) \in Nat /\ Cardinality(T) \in Nat
    BY <1>2, FS_CardinalityType, ObjAssumption
  <2>4. QED
    BY <2>2, <2>3, <1>2, ObjAssumption
<1>4. \E o \in Obj : o \notin Live(ptr)
  BY <1>3 DEF Live
<1>5. QED
  BY <1>4 DEF FreshObject

(* An object a node points to keeps its content when garbage is collected. *)
LEMMA CollectKeepsLive ==
  ASSUME NEW ptr \in [Node -> Obj \cup {NULL}],
         NEW heap \in [Obj -> SUBSET Bit],
         NEW v \in Node, ptr[v] # NULL
  PROVE  Collect(ptr, heap)[ptr[v]] = heap[ptr[v]]
BY DEF Collect, Live

LEMMA CollectType ==
  ASSUME NEW ptr, NEW heap \in [Obj -> SUBSET Bit]
  PROVE  Collect(ptr, heap) \in [Obj -> SUBSET Bit]
BY DEF Collect

LEMMA HashOfType ==
  ASSUME NEW ks \in SUBSET Keyword
  PROVE  HashOf(ks) \in SUBSET Bit
BY HashAssumption DEF HashOf

(* A slot has one leaf. *)
LEMMA LeafOfSlot ==
  ASSUME NEW i \in Slot
  PROVE  /\ LeafOf(i) \in Leaves /\ Covers(LeafOf(i), i)
         /\ \A v \in Leaves : Covers(v, i) => v = LeafOf(i)
<1>1. \E v \in Leaves : Covers(v, i)
  BY TreeShape
<1>2. LeafOf(i) \in Leaves /\ Covers(LeafOf(i), i)
  BY <1>1 DEF LeafOf
<1>3. ASSUME NEW v \in Leaves, Covers(v, i) PROVE v = LeafOf(i)
  <2>1. ASSUME NEW u \in Leaves, Covers(u, i) PROVE Lo(u) = i
    <3>1. Lo(u) \in Int /\ Hi(u) \in Int /\ Lo(u) = Hi(u)
      BY TreeShape DEF Leaves, Lo, Hi, Slot
    <3>2. QED
      BY <3>1, <2>1 DEF Covers, Slot
  <2>2. QED
    BY <2>1, <1>2, <1>3, TreeShape
<1>4. QED
  BY <1>2, <1>3

(* An internal node has a child over each of its slots, and a child's span *)
(* is strictly inside its parent's.                                        *)
LEMMA ChildOver ==
  ASSUME NEW v \in Internal, NEW i \in Slot, Covers(v, i)
  PROVE  \E c \in {LeftChild(v), RightChild(v)} : c \in Node /\ Covers(c, i)
<1>1. Lo(v) \in Int /\ Hi(v) \in Int /\ i \in Int
  BY TreeShape DEF Internal, Lo, Hi, Slot
<1>2. (Lo(v) + Hi(v)) \div 2 \in Int
  BY <1>1
<1>3. /\ {LeftChild(v), RightChild(v)} \subseteq Node
      /\ Lo(LeftChild(v)) = Lo(v) /\ Hi(LeftChild(v)) = (Lo(v) + Hi(v)) \div 2
      /\ Lo(RightChild(v)) = (Lo(v) + Hi(v)) \div 2 + 1 /\ Hi(RightChild(v)) = Hi(v)
  BY TreeShape DEF Lo, Hi
<1>4. QED
  BY <1>1, <1>2, <1>3 DEF Covers

LEMMA ChildStrictlyInside ==
  ASSUME NEW v \in Internal, NEW c \in {LeftChild(v), RightChild(v)}
  PROVE  c \in Node /\ c # v /\ ~Precedes(v, c)
<1>1. Lo(v) \in Int /\ Hi(v) \in Int /\ Lo(v) < Hi(v)
  BY TreeShape DEF Internal, Lo, Hi, Slot
<1> DEFINE mid == (Lo(v) + Hi(v)) \div 2
<1>2. mid \in Int /\ Lo(v) <= mid /\ mid < Hi(v)
  BY <1>1
<1>3. /\ {LeftChild(v), RightChild(v)} \subseteq Node
      /\ Lo(LeftChild(v)) = Lo(v) /\ Hi(LeftChild(v)) = mid
      /\ Lo(RightChild(v)) = mid + 1 /\ Hi(RightChild(v)) = Hi(v)
  BY TreeShape DEF Lo, Hi
<1>4. QED
  BY <1>1, <1>2, <1>3 DEF Precedes

-----------------------------------------------------------------------------
(* One updateParent                                                        *)

(* The filters alone have their types. *)
HeapOK ==
  /\ bf \in [Node -> Obj \cup {NULL}]
  /\ \A v \in Leaves : bf[v] # NULL
  /\ bits \in [Obj -> SUBSET Bit]

(* A node keeps a filter, and what its filter held, through the step. *)
Keeps(w) == bf[w] # NULL => bf'[w] # NULL /\ bits[bf[w]] \subseteq bits'[bf'[w]]

(* The step gives v at least what the filter of c held. *)
Absorbs(v, c) == bf[c] # NULL => bf'[v] # NULL /\ bits[bf[c]] \subseteq bits'[bf'[v]]

LEMMA UpdateParentEffect ==
  ASSUME HeapOK, NEW v \in Internal, UpdateParent(v)
  PROVE  /\ HeapOK'
         /\ \A w \in Node \ {v} : Keeps(w)
         /\ Absorbs(v, LeftChild(v)) /\ Absorbs(v, RightChild(v))
<1> DEFINE lc == LeftChild(v)
           rc == RightChild(v)
           b1 == bf[lc]
           b2 == bf[rc]
<1> USE DEF HeapOK
<1>1. v \in Node /\ v \notin Leaves
  BY DEF Internal, Leaves
<1>2. lc \in Node /\ rc \in Node /\ lc # v /\ rc # v
  BY ChildStrictlyInside
<1>3. b1 \in Obj \cup {NULL} /\ b2 \in Obj \cup {NULL} /\ NULL \notin Obj
  BY <1>2, ObjAssumption
<1> HIDE DEF lc, rc, b1, b2
\* What the three facts need of the new pointers and of the heap before collection.
<1>4. ASSUME NEW heap \in [Obj -> SUBSET Bit],
             bf' \in [Node -> Obj \cup {NULL}],
             bits' = Collect(bf', heap),
             \A w \in Node \ {v} : bf[w] # NULL =>
                bf'[w] # NULL /\ bits[bf[w]] \subseteq heap[bf'[w]],
             b1 # NULL => bf'[v] # NULL /\ bits[b1] \subseteq heap[bf'[v]],
             b2 # NULL => bf'[v] # NULL /\ bits[b2] \subseteq heap[bf'[v]]
      PROVE  /\ HeapOK'
             /\ \A w \in Node \ {v} : Keeps(w)
             /\ Absorbs(v, lc) /\ Absorbs(v, rc)
  <2>1. \A w \in Node : bf'[w] # NULL => bits'[bf'[w]] = heap[bf'[w]]
    BY <1>4, CollectKeepsLive
  <2>2. bits' \in [Obj -> SUBSET Bit]
    BY <1>4, CollectType
  <2>3. HeapOK'
    BY <2>2, <1>4, <1>1 DEF Leaves, Lo, Hi
  <2>4. \A w \in Node \ {v} : Keeps(w)
    BY <2>1, <1>4 DEF Keeps
  <2>5. Absorbs(v, lc) /\ Absorbs(v, rc)
    BY <2>1, <1>4, <1>1 DEF Absorbs, b1, b2
  <2>6. QED
    BY <2>3, <2>4, <2>5
<1>5. CASE TakeSharedFilter(v, b1, b2)
  <2>1. bf' = [bf EXCEPT ![v] = b1] /\ bits' = Collect(bf', bits) /\ b1 = b2 /\ b1 # NULL
    BY <1>5 DEF TakeSharedFilter
  <2>2. bf' \in [Node -> Obj \cup {NULL}]
    BY <2>1, <1>3
  <2>3. QED
    BY <2>1, <2>2, <1>1, <1>3, <1>4 DEF lc, rc
<1>6. CASE TakeOnlyFilter(v, b1, b2)
  <2>1. /\ bf' = [bf EXCEPT ![v] = IF b1 = NULL THEN b2 ELSE b1]
        /\ bits' = Collect(bf', bits) /\ (b1 = NULL \/ b2 = NULL)
    BY <1>6 DEF TakeOnlyFilter
  <2>2. bf' \in [Node -> Obj \cup {NULL}]
    BY <2>1, <1>3
  <2>3. QED
    BY <2>1, <2>2, <1>1, <1>3, <1>4 DEF lc, rc
<1>7. CASE MergeAndShare(v, b1, b2)
  <2> DEFINE heap == [bits EXCEPT ![b1] = bits[b1] \cup bits[b2]]
  <2>1. /\ bf' = [bf EXCEPT ![v] = b1, ![lc] = b1, ![rc] = b1]
        /\ bits' = Collect(bf', heap) /\ b1 # NULL /\ b2 # NULL
    BY <1>7 DEF MergeAndShare, ShouldShareBloom, Merged, lc, rc
  <2>2. bf' \in [Node -> Obj \cup {NULL}] /\ b1 \in Obj /\ b2 \in Obj
    BY <2>1, <1>3
  <2>3. heap \in [Obj -> SUBSET Bit]
    BY <2>2
  <2>4. ASSUME NEW w \in Node \ {v}, bf[w] # NULL
        PROVE  bf'[w] # NULL /\ bits[bf[w]] \subseteq heap[bf'[w]]
    <3>1. CASE w = lc \/ w = rc
      BY <3>1, <2>1, <2>2, <2>3, <1>2 DEF b1, b2
    <3>2. CASE w # lc /\ w # rc
      BY <3>2, <2>1, <2>2, <2>3, <2>4
    <3>3. QED
      BY <3>1, <3>2
  <2>5. bf'[v] = b1 /\ bits[b1] \subseteq heap[b1] /\ bits[b2] \subseteq heap[b1]
    BY <2>1, <2>2, <1>1, <1>2
  <2> HIDE DEF heap
  <2>6. QED
    BY <2>1, <2>2, <2>3, <2>4, <2>5, <1>4 DEF lc, rc
<1>8. CASE MergeIntoNew(v, b1, b2)
  <2> DEFINE o == FreshObject(bf)
             heap == [bits EXCEPT ![o] = bits[b1] \cup bits[b2]]
  <2>1. /\ bf' = [bf EXCEPT ![v] = o] /\ bits' = Collect(bf', heap)
        /\ b1 # NULL /\ b2 # NULL
    BY <1>8 DEF MergeIntoNew, Merged
  <2>2. o \in Obj /\ o \notin Live(bf)
    BY FreshObjectExists
  <2>3. /\ bf' \in [Node -> Obj \cup {NULL}] /\ b1 \in Obj /\ b2 \in Obj
        /\ heap \in [Obj -> SUBSET Bit] /\ o # NULL
    BY <2>1, <2>2, <1>3
  <2>4. ASSUME NEW w \in Node \ {v}, bf[w] # NULL
        PROVE  bf'[w] # NULL /\ bits[bf[w]] \subseteq heap[bf'[w]]
    <3>1. bf[w] \in Obj /\ bf[w] # o
      BY <2>2, <2>4 DEF Live
    <3>2. QED
      BY <3>1, <2>1, <2>2, <2>4
  <2>5. bf'[v] = o /\ bits[b1] \subseteq heap[o] /\ bits[b2] \subseteq heap[o]
    BY <2>1, <2>2, <1>1
  <2> HIDE DEF heap, o
  <2>6. QED
    BY <2>1, <2>3, <2>4, <2>5, <1>4 DEF lc, rc
<1>9. QED
  BY <1>5, <1>6, <1>7, <1>8 DEF UpdateParent, b1, b2, lc, rc

-----------------------------------------------------------------------------
(* The inductive invariant                                                 *)

(* The running or last operation owes nothing to record r at node v: v is  *)
(* r's leaf, r was settled before, or v has been refreshed since.          *)
Refreshed(r, v) ==
  v \in Leaves \/ r \notin pending \/ (r \in scope /\ v \notin todo)

(* Every filter above a record has the record's bits once refreshed. Unlike *)
(* NoFalseNegative it also speaks of the states inside an operation.       *)
FilterInv ==
  \A i \in Slot : \A r \in tokens[i] : \A v \in Node :
    Covers(v, i) /\ Refreshed(r, v) =>
      bf[v] # NULL /\ HashOf(keywordsOf[r]) \subseteq bits[bf[v]]

OneSlotPerRecord ==
  \A i, j \in Slot : \A r \in tokens[i] \cap tokens[j] : i = j

IInv == TypeOK /\ OneSlotPerRecord /\ FilterInv

LEMMA InitIInv == Init => IInv
<1> SUFFICES ASSUME Init PROVE IInv
  OBVIOUS
<1> USE DEF Init
<1>1. TypeOK
  BY TreeShape, ObjAssumption DEF TypeOK, Inserted, Leaves
<1>2. OneSlotPerRecord /\ FilterInv
  BY DEF OneSlotPerRecord, FilterInv
<1>3. QED
  BY <1>1, <1>2 DEF IInv

(* Adding at the leaf only grows what every node's filter holds, and the   *)
(* leaf gets the new record's bits.                                        *)
LEMMA AddAtLeafEffect ==
  ASSUME IInv, NEW r \in Record, NEW i \in Slot, NEW ks \in KeywordLists,
         AddAtLeaf(r, i, ks)
  PROVE  /\ HeapOK'
         /\ tokens' \in [Slot -> SUBSET Record]
         /\ keywordsOf' \in [Record -> SUBSET Keyword]
         /\ pending' \subseteq Record
         /\ OneSlotPerRecord'
         /\ Inserted' = Inserted \cup {r}
         /\ bf' = bf
         /\ \A w \in Node : bf[w] # NULL => bits[bf[w]] \subseteq bits'[bf[w]]
         /\ HashOf(ks) \subseteq bits'[bf[LeafOf(i)]]
         /\ \A j \in Slot : \A x \in tokens'[j] :
              \/ x = r /\ j = i /\ keywordsOf'[x] = ks
              \/ x # r /\ x \in tokens[j] /\ keywordsOf'[x] = keywordsOf[x]
<1> DEFINE o == bf[LeafOf(i)]
<1>1. /\ bf' = bf /\ r \notin Inserted
      /\ tokens' = [tokens EXCEPT ![i] = tokens[i] \cup {r}]
      /\ bits' = [bits EXCEPT ![o] = bits[o] \cup HashOf(ks)]
      /\ keywordsOf' = [keywordsOf EXCEPT ![r] = ks]
      /\ pending' = (pending \ scope) \cup {r}
  BY DEF AddAtLeaf
<1>2. ks \in SUBSET Keyword
  BY KeywordListsAssumption
<1>3. /\ bf \in [Node -> Obj \cup {NULL}] /\ bits \in [Obj -> SUBSET Bit]
      /\ tokens \in [Slot -> SUBSET Record] /\ pending \subseteq Record
      /\ keywordsOf \in [Record -> SUBSET Keyword]
      /\ \A v \in Leaves : bf[v] # NULL
  BY DEF IInv, TypeOK
<1>4. o \in Obj /\ HashOf(ks) \in SUBSET Bit
  BY <1>2, <1>3, LeafOfSlot, HashOfType DEF Leaves
<1>5. HeapOK'
  BY <1>1, <1>3, <1>4 DEF HeapOK, Leaves, Lo, Hi
<1>6. \A j \in Slot : r \notin tokens[j]
  BY <1>1 DEF Inserted
<1>7. \A j \in Slot : tokens'[j] = IF j = i THEN tokens[j] \cup {r} ELSE tokens[j]
  BY <1>1, <1>3
<1>8. OneSlotPerRecord'
  <2>1. SUFFICES ASSUME NEW j \in Slot, NEW m \in Slot, NEW x \in tokens'[j] \cap tokens'[m]
                 PROVE  j = m
    BY DEF OneSlotPerRecord, Slot
  <2>2. CASE x = r
    BY <2>1, <2>2, <1>6, <1>7
  <2>3. CASE x # r
    <3>1. x \in tokens[j] /\ x \in tokens[m]
      <4>1. x \in tokens'[j] /\ x \in tokens'[m]
        BY <2>1
      <4>2. \A n \in Slot : x \in tokens'[n] => x \in tokens[n]
        BY <2>3, <1>7
      <4>3. QED
        BY <4>1, <4>2
    <3>2. QED
      BY <3>1 DEF IInv, OneSlotPerRecord
  <2>4. QED
    BY <2>2, <2>3
<1>9. Inserted' = Inserted \cup {r}
  BY <1>7 DEF Inserted, Slot
<1>10. \A j \in Slot : \A x \in tokens'[j] :
              \/ x = r /\ j = i /\ keywordsOf'[x] = ks
              \/ x # r /\ x \in tokens[j] /\ keywordsOf'[x] = keywordsOf[x]
  BY <1>1, <1>3, <1>6, <1>7
<1>11. /\ \A w \in Node : bf[w] # NULL => bits[bf[w]] \subseteq bits'[bf[w]]
       /\ HashOf(ks) \subseteq bits'[o]
  BY <1>1, <1>3, <1>4
<1>12. tokens' \in [Slot -> SUBSET Record] /\ keywordsOf' \in [Record -> SUBSET Keyword]
  BY <1>1, <1>2, <1>3
<1>13. QED
  BY <1>1, <1>3, <1>5, <1>8, <1>9, <1>10, <1>11, <1>12

LEMMA UpdatePreserves ==
  ASSUME IInv, NEW r \in Record, NEW i \in Slot, NEW ks \in KeywordLists,
         Update(r, i, ks)
  PROVE  IInv'
<1>1. /\ AddAtLeaf(r, i, ks) /\ todo = {}
      /\ todo' = {v \in Internal : Covers(v, i)} /\ scope' = tokens[i] \cup {r}
      /\ pending' = (pending \ scope) \cup {r}
  BY DEF Update, AddAtLeaf
<1>2. TypeOK'
  <2>1. tokens[i] \subseteq Inserted
    BY DEF Inserted
  <2>2. QED
    BY <1>1, <2>1, AddAtLeafEffect DEF TypeOK, HeapOK, Internal, Lo, Hi, Leaves
<1>3. FilterInv'
  <2>1. SUFFICES ASSUME NEW j \in Slot, NEW x \in tokens'[j], NEW v \in Node,
                        Covers(v, j), Refreshed(x, v)'
                 PROVE  bf'[v] # NULL /\ HashOf(keywordsOf'[x]) \subseteq bits'[bf'[v]]
    BY DEF FilterInv, Slot, Covers, Lo, Hi, HashOf
  <2>2. v \in Leaves \/ v \in Internal
    BY DEF Leaves, Internal
  <2>3. CASE x = r /\ j = i /\ keywordsOf'[x] = ks
    <3>1. v \in Leaves
      BY <2>1, <2>2, <2>3, <1>1 DEF Refreshed, Leaves, Lo, Hi
    <3>2. v = LeafOf(i)
      BY <2>1, <2>3, <3>1, LeafOfSlot
    <3>3. bf[v] # NULL
      BY <3>1 DEF IInv, TypeOK
    <3>4. QED
      BY <2>3, <3>2, <3>3, <1>1, AddAtLeafEffect
  <2>4. CASE x # r /\ x \in tokens[j] /\ keywordsOf'[x] = keywordsOf[x]
    <3>1. v \in Leaves \/ x \notin pending \/ x \in scope
      <4>1. CASE x \in tokens[i]
        <5>1. j = i
          BY <2>4, <4>1 DEF IInv, OneSlotPerRecord
        <5>2. v \notin todo' => v \in Leaves
          BY <5>1, <2>1, <2>2, <1>1
        <5>3. QED
          BY <5>2, <2>1, <2>4, <1>1 DEF Refreshed, Leaves, Lo, Hi
      <4>2. CASE x \notin tokens[i]
        BY <4>2, <2>1, <2>4, <1>1 DEF Refreshed, Leaves, Lo, Hi
      <4>3. QED
        BY <4>1, <4>2
    <3>2. bf[v] # NULL /\ HashOf(keywordsOf[x]) \subseteq bits[bf[v]]
      BY <3>1, <2>1, <2>4, <1>1 DEF IInv, FilterInv, Refreshed
    <3>3. QED
      BY <3>2, <2>4, <1>1, AddAtLeafEffect
  <2>5. QED
    BY <2>3, <2>4, <1>1, AddAtLeafEffect
<1>4. QED
  BY <1>1, <1>2, <1>3, AddAtLeafEffect DEF IInv

LEMMA UpdateDeferredPreserves ==
  ASSUME IInv, NEW r \in Record, NEW i \in Slot, NEW ks \in KeywordLists,
         UpdateDeferred(r, i, ks)
  PROVE  IInv'
<1>1. /\ AddAtLeaf(r, i, ks) /\ todo = {} /\ todo' = {} /\ scope' = {}
      /\ pending' = (pending \ scope) \cup {r}
  BY DEF UpdateDeferred, AddAtLeaf
<1>2. TypeOK'
  BY <1>1, AddAtLeafEffect DEF TypeOK, HeapOK, Internal, Lo, Hi, Leaves
<1>3. FilterInv'
  <2>1. SUFFICES ASSUME NEW j \in Slot, NEW x \in tokens'[j], NEW v \in Node,
                        Covers(v, j), Refreshed(x, v)'
                 PROVE  bf'[v] # NULL /\ HashOf(keywordsOf'[x]) \subseteq bits'[bf'[v]]
    BY DEF FilterInv, Slot, Covers, Lo, Hi, HashOf
  <2>2. v \in Leaves \/ (x # r /\ (x \notin pending \/ x \in scope))
    BY <2>1, <1>1 DEF Refreshed, Leaves, Lo, Hi
  <2>3. CASE x = r /\ j = i /\ keywordsOf'[x] = ks
    <3>1. v = LeafOf(i) /\ v \in Leaves
      BY <2>1, <2>2, <2>3, LeafOfSlot
    <3>2. bf[v] # NULL
      BY <3>1 DEF IInv, TypeOK
    <3>3. QED
      BY <2>3, <3>1, <3>2, <1>1, AddAtLeafEffect
  <2>4. CASE x # r /\ x \in tokens[j] /\ keywordsOf'[x] = keywordsOf[x]
    <3>1. bf[v] # NULL /\ HashOf(keywordsOf[x]) \subseteq bits[bf[v]]
      BY <2>1, <2>2, <2>4, <1>1 DEF IInv, FilterInv, Refreshed
    <3>2. QED
      BY <3>1, <2>4, <1>1, AddAtLeafEffect
  <2>5. QED
    BY <2>3, <2>4, <1>1, AddAtLeafEffect
<1>4. QED
  BY <1>1, <1>2, <1>3, AddAtLeafEffect DEF IInv

LEMMA FinalizePreserves ==
  ASSUME IInv, FinalizeBloomFilters
  PROVE  IInv'
<1>1. /\ todo = {} /\ todo' = Internal /\ scope' = Inserted
      /\ pending' = pending \ scope
      /\ UNCHANGED <<bf, bits, tokens, keywordsOf>>
  BY DEF FinalizeBloomFilters
<1>2. TypeOK' /\ OneSlotPerRecord'
  BY <1>1 DEF IInv, TypeOK, OneSlotPerRecord, Inserted, Internal, Leaves, Lo, Hi, Slot
<1>3. FilterInv'
  <2>1. SUFFICES ASSUME NEW j \in Slot, NEW x \in tokens[j], NEW v \in Node,
                        Covers(v, j), Refreshed(x, v)'
                 PROVE  bf[v] # NULL /\ HashOf(keywordsOf[x]) \subseteq bits[bf[v]]
    BY <1>1 DEF FilterInv, Slot, Covers, Lo, Hi, HashOf
  <2>2. Refreshed(x, v)
    BY <2>1, <1>1 DEF Refreshed, Leaves, Internal, Lo, Hi
  <2>3. QED
    BY <2>1, <2>2 DEF IInv, FilterInv
<1>4. QED
  BY <1>2, <1>3 DEF IInv

LEMMA RefreshNodePreserves ==
  ASSUME IInv, NEW v \in todo, RefreshNode(v)
  PROVE  IInv'
<1>1. /\ IsNext(v) /\ UpdateParent(v) /\ todo' = todo \ {v} /\ v \in Internal
      /\ UNCHANGED <<tokens, answer, keywordsOf, pending, scope>>
  BY DEF RefreshNode, IInv, TypeOK
<1>2. /\ HeapOK' /\ \A w \in Node \ {v} : Keeps(w)
      /\ Absorbs(v, LeftChild(v)) /\ Absorbs(v, RightChild(v))
  BY <1>1, UpdateParentEffect DEF IInv, TypeOK, HeapOK
<1>3. TypeOK' /\ OneSlotPerRecord'
  BY <1>1, <1>2 DEF IInv, TypeOK, HeapOK, OneSlotPerRecord, Inserted, Internal, Leaves,
                    Lo, Hi, Slot
<1>4. FilterInv'
  <2>1. SUFFICES ASSUME NEW i \in Slot, NEW r \in tokens[i], NEW w \in Node,
                        Covers(w, i), Refreshed(r, w)'
                 PROVE  bf'[w] # NULL /\ HashOf(keywordsOf[r]) \subseteq bits'[bf'[w]]
    BY <1>1 DEF FilterInv, Slot, Covers, Lo, Hi, HashOf
  <2>2. CASE w # v
    <3>1. Refreshed(r, w)
      BY <2>1, <2>2, <1>1 DEF Refreshed, Leaves, Lo, Hi
    <3>2. bf[w] # NULL /\ HashOf(keywordsOf[r]) \subseteq bits[bf[w]]
      BY <2>1, <3>1 DEF IInv, FilterInv
    <3>3. QED
      BY <3>2, <2>2, <1>2 DEF Keeps
  <2>3. CASE w = v
    <3>1. PICK c \in {LeftChild(v), RightChild(v)} : c \in Node /\ Covers(c, i)
      BY <2>1, <2>3, <1>1, ChildOver
    <3>2. c \notin todo
      BY <3>1, <1>1, ChildStrictlyInside DEF IsNext
    <3>3. r \notin pending \/ r \in scope
      BY <2>1, <2>3, <1>1 DEF Refreshed, Leaves, Internal, Lo, Hi
    <3>4. bf[c] # NULL /\ HashOf(keywordsOf[r]) \subseteq bits[bf[c]]
      BY <2>1, <3>1, <3>2, <3>3 DEF IInv, FilterInv, Refreshed
    <3>5. QED
      BY <2>3, <3>1, <3>4, <1>2 DEF Absorbs
  <2>4. QED
    BY <2>2, <2>3
<1>5. QED
  BY <1>3, <1>4 DEF IInv

LEMMA AskPreserves ==
  ASSUME IInv, NEW l \in Slot, NEW h \in Slot, NEW ks \in KeywordLists, Ask(l, h, ks)
  PROVE  IInv'
<1>1. UNCHANGED <<bf, bits, tokens, todo, keywordsOf, pending, scope>>
  BY DEF Ask
<1>2. QED
  BY <1>1 DEF IInv, TypeOK, OneSlotPerRecord, FilterInv, Refreshed, Inserted, Internal,
              Leaves, Covers, Lo, Hi, Slot, HashOf

LEMMA NextIInv == IInv /\ [Next]_vars => IInv'
<1>1. SUFFICES ASSUME IInv, [Next]_vars PROVE IInv'
  OBVIOUS
<1>2. CASE Next
  BY <1>1, <1>2, UpdatePreserves, UpdateDeferredPreserves, FinalizePreserves,
     RefreshNodePreserves, AskPreserves DEF Next
<1>3. CASE UNCHANGED vars
  BY <1>1, <1>3 DEF vars, IInv, TypeOK, OneSlotPerRecord, FilterInv, Refreshed, Inserted,
                    Internal, Leaves, Covers, Lo, Hi, Slot, HashOf
<1>4. QED
  BY <1>1, <1>2, <1>3

LEMMA SpecIInv == Spec => []IInv
BY InitIInv, NextIInv, PTL DEF Spec

-----------------------------------------------------------------------------
(* Pointers and contents stay well typed, and leaves never lose their      *)
(* filter, in every behaviour of the tree.                                 *)
THEOREM TypeCorrect == Spec => []TypeOK
<1>1. IInv => TypeOK
  BY DEF IInv
<1>2. QED
  BY <1>1, SpecIInv, PTL

(* Pruning never hides a settled record, whatever is shared and in         *)
(* whatever order records are inserted and filters finalised.              *)
THEOREM PruningIsSafe == Spec => []NoFalseNegative
<1>1. IInv => NoFalseNegative
  <2>1. SUFFICES ASSUME IInv, todo = {}, NEW i \in Slot, NEW r \in tokens[i] \cap Settled,
                        NEW k \in keywordsOf[r], NEW v \in Node, Covers(v, i)
                 PROVE  bf[v] # NULL /\ MatchesAny(bits[bf[v]], {k})
    BY DEF NoFalseNegative, Reaches
  <2>2. Refreshed(r, v)
    BY <2>1 DEF Settled, Refreshed
  <2>3. bf[v] # NULL /\ HashOf(keywordsOf[r]) \subseteq bits[bf[v]]
    BY <2>1, <2>2 DEF IInv, FilterInv
  <2>4. Hash[k] \subseteq HashOf(keywordsOf[r])
    BY <2>1 DEF HashOf
  <2>5. QED
    BY <2>3, <2>4 DEF MatchesAny, Lookup
<1>2. QED
  BY <1>1, SpecIInv, PTL

(* No step takes bits away from what a leaf answers with.                  *)
THEOREM LeavesOnlyGrow == Spec => LeafFiltersOnlyGrow
<1> DEFINE Grow == \A v \in Leaves : bits[bf[v]] \subseteq bits'[bf'[v]]
<1>1. ASSUME IInv, Next PROVE Grow \/ UNCHANGED <<bf, bits>>
  <2>1. \A v \in Leaves : v \in Node /\ bf[v] # NULL
    BY <1>1 DEF IInv, TypeOK, Leaves
  <2>2. ASSUME NEW r \in Record, NEW i \in Slot, NEW ks \in KeywordLists,
               Update(r, i, ks) \/ UpdateDeferred(r, i, ks)
        PROVE  Grow
    BY <1>1, <2>1, <2>2, AddAtLeafEffect DEF Update, UpdateDeferred
  <2>3. ASSUME NEW n \in todo, RefreshNode(n)
        PROVE  Grow
    <3>1. HeapOK /\ n \in Internal /\ UpdateParent(n)
      BY <1>1, <2>3 DEF RefreshNode, IInv, TypeOK, HeapOK
    <3>2. \A w \in Node \ {n} : Keeps(w)
      BY <3>1, UpdateParentEffect
    <3>3. n \notin Leaves
      BY <3>1 DEF Internal, Leaves
    <3>4. QED
      BY <2>1, <3>2, <3>3 DEF Keeps
  <2>4. CASE FinalizeBloomFilters
    BY <2>4 DEF FinalizeBloomFilters
  <2>5. ASSUME NEW l \in Slot, NEW h \in Slot, NEW ks \in KeywordLists, Ask(l, h, ks)
        PROVE  UNCHANGED <<bf, bits>>
    BY <2>5 DEF Ask
  <2>6. QED
    BY <1>1, <2>2, <2>3, <2>4, <2>5 DEF Next
<1>2. IInv /\ [Next]_vars => [Grow]_<<bf, bits>>
  BY <1>1 DEF vars
<1>3. QED
  BY <1>2, SpecIInv, PTL DEF Spec, LeafFiltersOnlyGrow

-----------------------------------------------------------------------------
(* Implementation of the abstract index                                    *)

LEMMA SlotOfRecord ==
  ASSUME OneSlotPerRecord, NEW i \in Slot, NEW r \in tokens[i]
  PROVE  SlotOf(r) = i
BY DEF OneSlotPerRecord, SlotOf

(* Both inserts add one entry and hide nothing that was visible.           *)
LEMMA AddIsInsert ==
  ASSUME IInv, NEW r \in Record, NEW i \in Slot, NEW ks \in KeywordLists,
         Update(r, i, ks) \/ UpdateDeferred(r, i, ks)
  PROVE  Index!Insert(r)
<1>1. AddAtLeaf(r, i, ks) /\ IInv'
  BY UpdatePreserves, UpdateDeferredPreserves DEF Update, UpdateDeferred
<1>2. /\ todo = {} /\ r \notin Inserted /\ answer' = {}
      /\ pending' = (pending \ scope) \cup {r}
  BY <1>1 DEF AddAtLeaf
<1>3. /\ Inserted' = Inserted \cup {r}
      /\ \A j \in Slot : \A x \in tokens'[j] :
              \/ x = r /\ j = i /\ keywordsOf'[x] = ks
              \/ x # r /\ x \in tokens[j] /\ keywordsOf'[x] = keywordsOf[x]
  BY <1>1, AddAtLeafEffect
<1>4. ks \in SUBSET Keyword
  BY KeywordListsAssumption
<1>5. \A x \in Inserted' :
        [at |-> SlotOf(x)', keywords |-> keywordsOf'[x]] =
        IF x = r THEN [at |-> i, keywords |-> ks]
                 ELSE [at |-> SlotOf(x), keywords |-> keywordsOf[x]]
  <2>1. SUFFICES ASSUME NEW x \in Inserted'
                 PROVE  /\ SlotOf(x)' = IF x = r THEN i ELSE SlotOf(x)
                        /\ keywordsOf'[x] = IF x = r THEN ks ELSE keywordsOf[x]
    OBVIOUS
  <2>2. PICK j \in Slot : x \in tokens'[j]
    BY DEF Inserted, Slot
  <2>3. SlotOf(x)' = j
    BY <2>2, <1>1 DEF IInv, OneSlotPerRecord, SlotOf, Slot
  <2>4. CASE x = r
    BY <2>2, <2>3, <2>4, <1>3
  <2>5. CASE x # r
    <3>1. x \in tokens[j] /\ keywordsOf'[x] = keywordsOf[x]
      BY <2>2, <2>5, <1>3
    <3>2. SlotOf(x) = j
      BY <3>1, SlotOfRecord DEF IInv
    <3>3. QED
      BY <2>3, <2>5, <3>1, <3>2
  <2>6. QED
    BY <2>4, <2>5
<1>6. Settled \subseteq Settled' /\ Settled' \subseteq Inserted'
  BY <1>2, <1>3 DEF Settled
<1>7. Index!Publish
  BY <1>2, <1>6 DEF Index!Publish
<1> DEFINE e == [x \in Inserted |-> [at |-> SlotOf(x), keywords |-> keywordsOf[x]]]
<1>8. DOMAIN e = Inserted /\ \A x \in Inserted : e[x] = [at |-> SlotOf(x), keywords |-> keywordsOf[x]]
  OBVIOUS
<1>9. e' = [x \in DOMAIN e \cup {r} |->
              IF x = r THEN [at |-> i, keywords |-> ks] ELSE e[x]]
  <2>1. e' = [x \in Inserted' |-> [at |-> SlotOf(x)', keywords |-> keywordsOf'[x]]]
    OBVIOUS
  <2>2. \A x \in Inserted' : [at |-> SlotOf(x)', keywords |-> keywordsOf'[x]] =
           IF x = r THEN [at |-> i, keywords |-> ks] ELSE e[x]
    BY <1>3, <1>5, <1>8
  <2>3. QED
    BY <2>1, <2>2, <1>3, <1>8
<1>10. QED
  BY <1>2, <1>4, <1>7, <1>8, <1>9 DEF Index!Insert

(* Refreshing only makes records visible.                                  *)
LEMMA RefreshIsRefresh ==
  ASSUME IInv, FinalizeBloomFilters \/ (\E v \in todo : RefreshNode(v))
  PROVE  Index!Refresh
<1>1. tokens' = tokens /\ keywordsOf' = keywordsOf
  BY DEF FinalizeBloomFilters, RefreshNode
<1>2. Inserted' = Inserted
  BY <1>1 DEF Inserted, Slot
<1>3. Settled \subseteq Settled' /\ Settled' \subseteq Inserted'
  BY <1>2 DEF Settled, FinalizeBloomFilters, RefreshNode
<1>4. answer' \in {answer, {}}
  BY DEF FinalizeBloomFilters, RefreshNode
<1>5. [r \in Inserted' |-> [at |-> SlotOf(r)', keywords |-> keywordsOf'[r]]] =
      [r \in Inserted |-> [at |-> SlotOf(r), keywords |-> keywordsOf[r]]]
  BY <1>1, <1>2 DEF SlotOf, Slot
<1>6. QED
  BY <1>3, <1>4, <1>5 DEF Index!Refresh, Index!Publish

(* getCandidateIntervals answers as the abstract index may.                *)
LEMMA AskIsAsk ==
  ASSUME IInv, NEW l \in Slot, NEW h \in Slot, NEW ks \in KeywordLists, Ask(l, h, ks)
  PROVE  Index!Ask
<1> DEFINE entries == [r \in Inserted |-> [at |-> SlotOf(r), keywords |-> keywordsOf[r]]]
           q == [lo |-> l, hi |-> h, keywords |-> ks]
           found == GetCandidateIntervals(l, h, ks)
<1>1. /\ todo = {} /\ answer' = {[query |-> q, found |-> found]}
      /\ UNCHANGED <<bf, bits, tokens, todo, keywordsOf, pending, scope>>
  BY DEF Ask
<1>2. q \in Index!Query
  BY KeywordListsAssumption DEF Index!Query
<1>3. Index!InRange(q) = {r \in Inserted : l <= SlotOf(r) /\ SlotOf(r) <= h}
  BY DEF Index!InRange
<1>4. found \subseteq Index!InRange(q)
  <2>1. SUFFICES ASSUME NEW r \in found PROVE r \in Index!InRange(q)
    OBVIOUS
  <2>2. PICK i \in Slot : r \in tokens[i] /\ l <= i /\ i <= h
    BY DEF GetCandidateIntervals
  <2>3. r \in Inserted /\ SlotOf(r) = i
    BY <2>2, SlotOfRecord DEF IInv, Inserted
  <2>4. QED
    BY <2>2, <2>3, <1>3
<1>5. Index!MustReturn(q) \subseteq found
  <2>1. SUFFICES ASSUME NEW r \in Index!MustReturn(q) PROVE r \in found
    OBVIOUS
  <2>2. /\ r \in Inserted /\ l <= SlotOf(r) /\ SlotOf(r) <= h
        /\ r \in Settled /\ keywordsOf[r] \cap ks # {}
    BY <1>3 DEF Index!MustReturn, Index!InRange
  <2>3. PICK i \in Slot : r \in tokens[i]
    BY <2>2 DEF Inserted
  <2>4. SlotOf(r) = i
    BY <2>3, SlotOfRecord DEF IInv
  <2>5. PICK k \in keywordsOf[r] : k \in ks
    BY <2>2
  <2>6. ASSUME NEW v \in Node, Covers(v, i)
        PROVE  bf[v] # NULL /\ MatchesAny(bits[bf[v]], ks)
    <3>1. Refreshed(r, v)
      BY <1>1, <2>2 DEF Settled, Refreshed
    <3>2. bf[v] # NULL /\ HashOf(keywordsOf[r]) \subseteq bits[bf[v]]
      BY <2>3, <2>6, <3>1 DEF IInv, FilterInv
    <3>3. Hash[k] \subseteq HashOf(keywordsOf[r])
      BY <2>5 DEF HashOf
    <3>4. QED
      BY <2>5, <3>2, <3>3 DEF MatchesAny, Lookup
  <2>7. QED
    BY <2>2, <2>3, <2>4, <2>6 DEF GetCandidateIntervals, Reaches
<1>6. /\ Inserted' = Inserted /\ Settled' = Settled
      /\ [r \in Inserted' |-> [at |-> SlotOf(r)', keywords |-> keywordsOf'[r]]] = entries
  BY <1>1 DEF Inserted, Settled, SlotOf, Slot
<1> HIDE DEF found, q
<1>7. QED
  BY <1>1, <1>2, <1>4, <1>5, <1>6 DEF Index!Ask

(* The segment tree is a superset index: every answer, in every behaviour, *)
(* contains all visible records that match and only records in range.      *)
THEOREM SegmentTreeImplementsIndex == Spec => ImplementsSupersetIndex
<1>1. Init => Index!Init
  BY DEF Init, Index!Init, Inserted, Settled
<1>2. IInv /\ [Next]_vars => [Index!Next]_(Index!avars)
  <2> SUFFICES ASSUME IInv, [Next]_vars PROVE [Index!Next]_(Index!avars)
    OBVIOUS
  <2>1. CASE Next
    BY <2>1, AddIsInsert, RefreshIsRefresh, AskIsAsk DEF Next, Index!Next
  <2>2. CASE UNCHANGED vars
    BY <2>2 DEF vars, Index!avars, Inserted, Settled, SlotOf, Slot
  <2>3. QED
    BY <2>1, <2>2
<1>3. QED
  BY <1>1, <1>2, SpecIInv, PTL DEF Spec, ImplementsSupersetIndex, Index!Spec
=============================================================================
