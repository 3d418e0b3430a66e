----------------------------- MODULE SegmentTree -----------------------------
(***************************************************************************)
(* SegmentTree (test/SegmentTree): the per-day / per-bucket time index of  *)
(* the server.  Leaf i holds the tokens of time slot i and a Bloom filter  *)
(* of their keywords; an internal node's filter summarises its subtree and *)
(* is only used to prune a query.  Filters that are close enough are       *)
(* merged in place and shared by a parent and its two children.            *)
(*                                                                         *)
(* The code is sequential: update() adds at the leaf and then refreshes    *)
(* every ancestor, finalize_bloom_filters() refreshes every internal node  *)
(* in post-order.  Both loops are the steps of RefreshNode over the set    *)
(* `todo`; no other operation can start while `todo` is non-empty.         *)
(***************************************************************************)
EXTENDS BloomHeap

CONSTANTS
  NumSlots,  \* n, the number of slots of the tree
  Span,      \* node -> <<left, right>>, the ranges build() gave the nodes
  Record,    \* records (token + keyword list) that can be inserted
  KeywordLists \* keyword lists that inserts and queries come with

Slot == 0 .. NumSlots - 1
Lo(v) == Span[v][1]
Hi(v) == Span[v][2]
Internal == {v \in Node : Lo(v) # Hi(v)}
Leaves == {v \in Node : Lo(v) = Hi(v)}
LeftChild(v) == 2 * v
RightChild(v) == 2 * v + 1
Covers(v, i) == Lo(v) <= i /\ i <= Hi(v)

ASSUME KeywordListsAssumption == KeywordLists \subseteq SUBSET Keyword

(* What build(1, 0, n-1) makes of an array of 4n nodes. *)
ASSUME TreeShape ==
  /\ NumSlots \in Nat \ {0}
  /\ Node \subseteq 1 .. 4 * NumSlots - 1 /\ Node \subseteq Obj
  /\ Span \in [Node -> Slot \X Slot]
  /\ 1 \in Node /\ Span[1] = <<0, NumSlots - 1>>
  /\ \A v \in Node : Lo(v) <= Hi(v)
  /\ \A v \in Internal :
       LET mid == (Lo(v) + Hi(v)) \div 2
       IN /\ {LeftChild(v), RightChild(v)} \subseteq Node
          /\ Span[LeftChild(v)] = <<Lo(v), mid>>
          /\ Span[RightChild(v)] = <<mid + 1, Hi(v)>>
  /\ \A i \in Slot : \E v \in Leaves : Covers(v, i)
  /\ \A u, v \in Leaves : Lo(u) = Lo(v) => u = v

LeafOf(i) == CHOOSE v \in Leaves : Covers(v, i)


VARIABLES
  bf,         \* node -> the filter object it points to, or NULL
  bits,       \* filter object -> its one bits
  tokens,     \* slot -> records whose token its leaf stores
  todo,       \* internal nodes the running operation has still to refresh
  answer,     \* {} or the last answer of getCandidateIntervals
  keywordsOf, \* history: record -> keywords it was inserted with
  pending,    \* history: records whose ancestors were not refreshed since
  scope       \* history: records whose ancestors the last operation refreshes

vars == <<bf, bits, tokens, todo, answer, keywordsOf, pending, scope>>

Inserted == UNION {tokens[i] : i \in Slot}

(* The records queries are promised to find. *)
Settled == Inserted \ (IF todo = {} THEN pending \ scope ELSE pending)

(* build(): an empty filter of its own for every leaf, none for the other  *)
(* nodes until they are refreshed.                                         *)
Init ==
  /\ bf = [v \in Node |-> IF v \in Leaves THEN v ELSE NULL]
  /\ bits = [o \in Obj |-> {}]
  /\ tokens = [i \in Slot |-> {}]
  /\ todo = {}
  /\ answer = {}
  /\ keywordsOf = [r \in Record |-> {}]
  /\ pending = {}
  /\ scope = {}

-----------------------------------------------------------------------------
(* Inserting                                                               *)

(* The leaf's part of update and update_deferred: one token, all keywords. *)
AddAtLeaf(r, i, ks) ==
  /\ todo = {}
  /\ r \notin Inserted
  /\ tokens' = [tokens EXCEPT ![i] = @ \cup {r}]
  /\ bits' = [bits EXCEPT ![bf[LeafOf(i)]] = @ \cup HashOf(ks)]
  /\ keywordsOf' = [keywordsOf EXCEPT ![r] = ks]
  /\ pending' = (pending \ scope) \cup {r}
  /\ answer' = {}
  /\ UNCHANGED bf

(* Mutant of Update: the climb starts at the leaf instead of its parent.   *)
UpdateFromLeaf(r, i, ks) ==
  /\ AddAtLeaf(r, i, ks)
  /\ todo' = {v \in Node : Covers(v, i)}
  /\ scope' = tokens[i] \cup {r}

(* update: the ancestors of the leaf are refreshed, bottom up to the root. *)
Update(r, i, ks) ==
  /\ AddAtLeaf(r, i, ks)
  /\ todo' = {v \in Internal : Covers(v, i)}
  /\ scope' = tokens[i] \cup {r}

(* update_deferred: the ancestors wait for finalize_bloom_filters.         *)
UpdateDeferred(r, i, ks) ==
  /\ AddAtLeaf(r, i, ks)
  /\ todo' = {}
  /\ scope' = {}

FinalizeBloomFilters ==
  /\ todo = {}
  /\ todo' = Internal
  /\ scope' = Inserted
  /\ pending' = pending \ scope
  /\ answer' = {}
  /\ UNCHANGED <<bf, bits, tokens, keywordsOf>>

-----------------------------------------------------------------------------
(* Refreshing one internal node: updateParent                              *)

(* The order of both loops: a node after all the nodes below it, and after *)
(* those left of it.                                                       *)
Precedes(u, v) ==
  \/ Hi(u) < Lo(v)
  \/ Lo(v) <= Lo(u) /\ Hi(u) <= Hi(v)
(* Mutant of IsNext: a pre-order refresh, a node before those below it.    *)
IsNextTopDown(v) == \A u \in todo \ {v} : Precedes(u, v)
IsNext(v) == \A u \in todo \ {v} : Precedes(v, u)

ShouldShareBloom(b1, b2) ==
  /\ b1 # NULL /\ b2 # NULL
  /\ bits[b1] # {} /\ bits[b2] # {}
  /\ Similar(bits[b1], bits[b2])

(* The children hold the same filter already: the parent takes it too.     *)
TakeSharedFilter(v, b1, b2) ==
  /\ b1 = b2 /\ b1 # NULL
  /\ bf' = [bf EXCEPT ![v] = b1]
  /\ bits' = Collect(bf', bits)

(* merge_bloom with a missing filter returns the other one (or null).      *)
TakeOnlyFilter(v, b1, b2) ==
  /\ b1 = NULL \/ b2 = NULL
  /\ bf' = [bf EXCEPT ![v] = IF b1 = NULL THEN b2 ELSE b1]
  /\ bits' = Collect(bf', bits)

(* Close enough: the left child's filter is overwritten with the union and *)
(* all three nodes hold it from now on.                                    *)
MergeAndShare(v, b1, b2) ==
  /\ b1 # b2 /\ ShouldShareBloom(b1, b2)
  /\ bf' = [bf EXCEPT ![v] = b1, ![LeftChild(v)] = b1, ![RightChild(v)] = b1]
  /\ bits' = Collect(bf', [bits EXCEPT ![b1] = Merged(bits[b1], bits[b2])])

(* Too different: the parent gets a new filter with the union.             *)
MergeIntoNew(v, b1, b2) ==
  /\ b1 # b2 /\ b1 # NULL /\ b2 # NULL /\ ~ShouldShareBloom(b1, b2)
  /\ LET o == FreshObject(bf)
     IN /\ bf' = [bf EXCEPT ![v] = o]
        /\ bits' = Collect(bf', [bits EXCEPT ![o] = Merged(bits[b1], bits[b2])])

UpdateParent(v) ==
  LET b1 == bf[LeftChild(v)]
      b2 == bf[RightChild(v)]
  IN \/ TakeSharedFilter(v, b1, b2)
     \/ TakeOnlyFilter(v, b1, b2)
     \/ MergeAndShare(v, b1, b2)
     \/ MergeIntoNew(v, b1, b2)

RefreshNode(v) ==
  /\ IsNext(v)
  /\ UpdateParent(v)
  /\ todo' = todo \ {v}
  /\ UNCHANGED <<tokens, answer, keywordsOf, pending, scope>>

-----------------------------------------------------------------------------
(* Querying                                                                *)

(* The descent reaches the leaf of slot i exactly if no filter on the way  *)
(* is missing or rules out all keywords of the query.                      *)
Reaches(i, ks) ==
  \A v \in Node : Covers(v, i) => bf[v] # NULL /\ MatchesAny(bits[bf[v]], ks)

(* Mutant of GetCandidateIntervals: the right end of the query is left out. *)
GetCandidatesHalfOpen(l, r, ks) ==
  UNION {tokens[i] : i \in {j \in Slot : l <= j /\ j < r /\ Reaches(j, ks)}}

GetCandidateIntervals(l, r, ks) ==
  UNION {tokens[i] : i \in {j \in Slot : l <= j /\ j <= r /\ Reaches(j, ks)}}

Ask(l, r, ks) ==
  /\ todo = {}
  /\ answer' = {[query |-> [lo |-> l, hi |-> r, keywords |-> ks],
                 found |-> GetCandidateIntervals(l, r, ks)]}
  /\ UNCHANGED <<bf, bits, tokens, todo, keywordsOf, pending, scope>>

Next ==
  \/ \E r \in Record, i \in Slot, ks \in KeywordLists : Update(r, i, ks)
  \/ \E r \in Record, i \in Slot, ks \in KeywordLists : UpdateDeferred(r, i, ks)
  \/ FinalizeBloomFilters
  \/ \E v \in todo : RefreshNode(v)
  \/ \E l, r \in Slot, ks \in KeywordLists : Ask(l, r, ks)

Spec == Init /\ [][Next]_vars
-----------------------------------------------------------------------------
(* Pointers and contents have their types, and a leaf always has a filter. *)
TypeOK ==
  /\ bf \in [Node -> Obj \cup {NULL}]
  /\ \A v \in Leaves : bf[v] # NULL
  /\ bits \in [Obj -> SUBSET Bit]
  /\ tokens \in [Slot -> SUBSET Record]
  /\ todo \subseteq Internal
  /\ keywordsOf \in [Record -> SUBSET Keyword]
  /\ pending \subseteq Record /\ scope \subseteq Inserted

(* Pruning is safe: whatever the interleaving of update, update_deferred   *)
(* and finalize_bloom_filters, and although merged filters are shared and  *)
(* overwritten in place, a query that holds a keyword of a settled record  *)
(* and covers its slot returns that record.                                *)
NoFalseNegative ==
  todo = {} =>
    \A i \in Slot : \A r \in tokens[i] \cap Settled : \A k \in keywordsOf[r] :
      Reaches(i, {k})

(* No add, merge or refresh ever takes bits away from what a leaf answers  *)
(* with, even when the object behind the leaf is replaced.                 *)
LeafFiltersOnlyGrow ==
  [][\A v \in Leaves : bits[bf[v]] \subseteq bits'[bf'[v]]]_<<bf, bits>>

(* SegmentTree keeps the promise of every index: with the records it has   *)
(* settled as the visible ones, its answers miss none of them.             *)
SlotOf(r) == CHOOSE i \in Slot : r \in tokens[i]

Index == INSTANCE SupersetIndex WITH
  Position <- Slot,
  entries <- [r \in Inserted |-> [at |-> SlotOf(r), keywords |-> keywordsOf[r]]],
  visible <- Settled

ImplementsSupersetIndex == Index!Spec
=============================================================================
