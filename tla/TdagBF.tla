------------------------------- MODULE TdagBF -------------------------------
(***************************************************************************)
(* TdagBF (test/TdagBF): a binary tree over 2^Height time slots whose      *)
(* nodes know, besides their own range, a middle range that straddles      *)
(* their children.  A query is answered with a single range, its cover:    *)
(* the smallest range of the tree that contains the query, if some leaf of *)
(* the query may hold one of its keywords.                                 *)
(*                                                                         *)
(* Every node is created with a filter of its own.  insert_keyword merges  *)
(* upwards after each insert and lets similar siblings and their parent    *)
(* share one filter; insert_keyword_deferred leaves the inner filters to a *)
(* later finalize_bloom_filters, which empties and refills them in place.  *)
(* A call is the steps of its merges: `todo` lists the inner nodes it has  *)
(* still to merge, in the code's order, and no other call starts meanwhile.*)
(***************************************************************************)
EXTENDS BloomHeap, Sequences

CONSTANTS
  Height,       \* the tree spans the slots 0 .. 2^Height - 1
  Record,       \* records to insert
  KeywordLists, \* keyword lists that inserts and queries come with
  Modes         \* the ways callers use a tree, see mode

(* The powers of two that the tree's ranges may have for a length. *)
Power[k \in 0 .. Height + 1] == IF k = 0 THEN 1 ELSE 2 * Power[k - 1]

ASSUME HeightAssumption ==
  /\ Height \in Nat /\ Node = 1 .. Power[Height + 1] - 1 /\ Node \subseteq Obj
  /\ KeywordLists \subseteq SUBSET Keyword
  /\ Modes \subseteq {"incremental", "deferred", "mixed"}

Slot == 0 .. Power[Height] - 1
Leaves == Power[Height] .. Power[Height + 1] - 1
Internal == 1 .. Power[Height] - 1
LeafOf(i) == Power[Height] + i
Left(v) == 2 * v
Right(v) == 2 * v + 1

(* The constructor: a node halves its range between its children. *)
RangeOf ==
  LET Half[v \in Node] ==
        IF v = 1 THEN <<0, Power[Height] - 1>>
        ELSE LET up == Half[v \div 2]
                 mid == up[1] + (up[2] - up[1]) \div 2
             IN IF v % 2 = 0 THEN <<up[1], mid>> ELSE <<mid + 1, up[2]>>
  IN [v \in Node |-> Half[v]]

Contains(outer, inner) == outer[1] <= inner[1] /\ outer[2] >= inner[2]

(* The middle ranges of a node: the one of the constructor, if it is large *)
(* enough to have one.                                                     *)
Middles(v) ==
  LET width == RangeOf[v][2] - RangeOf[v][1]
      mid == RangeOf[v][1] + width \div 2
  IN IF width <= 1 THEN {}
     ELSE {<<mid - width \div 4,
             mid + width \div 4 + (IF width % 4 > 0 THEN 1 ELSE 0)>>}

Blocks == {RangeOf[v] : v \in Node} \cup UNION {Middles(v) : v \in Node}

VARIABLES
  mode,       \* how the callers use this tree: one kind of insert, or both
  bf,         \* node -> the filter object it points to
  bits,       \* filter object -> its one bits
  todo,       \* inner nodes the running call has still to merge, in order
  rebuilding, \* whether that call is finalize_bloom_filters
  slotOf,     \* history: record -> the slot it was inserted at
  keywordsOf, \* history: record -> the keywords it was inserted with
  pending     \* history: records inserted since the last merge of all nodes

vars == <<mode, bf, bits, todo, rebuilding, slotOf, keywordsOf, pending>>

Inserted == DOMAIN slotOf

Init ==
  /\ mode \in Modes
  /\ bf = [v \in Node |-> v]
  /\ bits = [o \in Obj |-> {}]
  /\ todo = <<>> /\ rebuilding = FALSE
  /\ slotOf = [r \in {} |-> 0]
  /\ keywordsOf = [r \in {} |-> {}]
  /\ pending = {}
-----------------------------------------------------------------------------
(* The inner nodes update_parent(v) merges, up to the root. *)
Ancestors[v \in Node] ==
  IF v = 1 THEN <<>> ELSE <<v \div 2>> \o Ancestors[v \div 2]

(* insert_keyword climbs from the leaf, and again from each inner node its *)
(* recursion returns through.                                              *)
Climbs[v \in Node] ==
  IF v = 1 THEN <<>> ELSE Ancestors[v] \o Climbs[v \div 2]

PostOrder[v \in Node] ==
  IF v \in Leaves THEN <<>>
  ELSE PostOrder[Left(v)] \o PostOrder[Right(v)] \o <<v>>

AddAtLeaf(r, i, ks) ==
  /\ todo = <<>> /\ r \notin Inserted
  /\ bits' = [bits EXCEPT ![bf[LeafOf(i)]] = @ \cup HashOf(ks)]
  /\ slotOf' = [x \in Inserted \cup {r} |-> IF x = r THEN i ELSE slotOf[x]]
  /\ keywordsOf' = [x \in Inserted \cup {r} |-> IF x = r THEN ks ELSE keywordsOf[x]]
  /\ UNCHANGED <<mode, bf>>

InsertKeyword(r, i, ks) ==
  /\ mode \in {"incremental", "mixed"}
  /\ AddAtLeaf(r, i, ks)
  /\ todo' = Climbs[LeafOf(i)] /\ rebuilding' = FALSE
  /\ UNCHANGED pending

InsertKeywordDeferred(r, i, ks) ==
  /\ mode \in {"deferred", "mixed"}
  /\ AddAtLeaf(r, i, ks)
  /\ pending' = pending \cup {r}
  /\ UNCHANGED <<todo, rebuilding>>

FinalizeBloomFilters ==
  /\ mode \in {"deferred", "mixed"}
  /\ todo = <<>>
  /\ todo' = PostOrder[1] /\ rebuilding' = TRUE
  /\ pending' = {}
  /\ UNCHANGED <<mode, bf, bits, slotOf, keywordsOf>>

(* Mutant of UpdateParent: the parent takes the left filter, never the union. *)
UpdateParentLeftOnly(p) ==
  /\ bf' = [bf EXCEPT ![p] = bf[Left(p)]]
  /\ bits' = Collect(bf', bits)

(* One round of update_parent: two similar children and their parent come  *)
(* to share the left child's filter, others get the parent a new one.      *)
UpdateParent(p) ==
  LET l == bf[Left(p)]
      r == bf[Right(p)]
      o == FreshObject(bf)
      union == Merged(bits[l], bits[r])
  IN IF Similar(bits[l], bits[r])
     THEN /\ bf' = [bf EXCEPT ![p] = l, ![Left(p)] = l, ![Right(p)] = l]
          /\ bits' = Collect(bf', [bits EXCEPT ![l] = union])
     ELSE /\ bf' = [bf EXCEPT ![p] = o]
          /\ bits' = Collect(bf', [bits EXCEPT ![o] = union])

ClimbStep ==
  /\ todo # <<>> /\ ~rebuilding
  /\ UpdateParent(Head(todo))
  /\ todo' = Tail(todo)
  /\ UNCHANGED <<mode, rebuilding, slotOf, keywordsOf, pending>>

(* Mutant of Rebuilt: the right child is forgotten. *)
RebuiltLeftOnly(p) ==
  LET emptied == [bits EXCEPT ![bf[p]] = {}]
  IN [emptied EXCEPT ![bf[p]] = @ \cup emptied[bf[Left(p)]]]

(* A node's filter is emptied, then or-ed with its children's, in place:   *)
(* a child that holds the same filter has been emptied with it.            *)
Rebuilt(p) ==
  LET emptied == [bits EXCEPT ![bf[p]] = {}]
      withLeft == [emptied EXCEPT ![bf[p]] = @ \cup emptied[bf[Left(p)]]]
  IN [withLeft EXCEPT ![bf[p]] = @ \cup withLeft[bf[Right(p)]]]

RebuildStep ==
  /\ todo # <<>> /\ rebuilding
  /\ bits' = Rebuilt(Head(todo))
  /\ todo' = Tail(todo)
  /\ UNCHANGED <<mode, bf, rebuilding, slotOf, keywordsOf, pending>>

Next ==
  \/ \E r \in Record, i \in Slot, ks \in KeywordLists : InsertKeyword(r, i, ks)
  \/ \E r \in Record, i \in Slot, ks \in KeywordLists : InsertKeywordDeferred(r, i, ks)
  \/ FinalizeBloomFilters
  \/ ClimbStep
  \/ RebuildStep

Spec == Init /\ [][Next]_vars
-----------------------------------------------------------------------------
(* Querying: get_single_range_cover                                        *)

(* has_match_within: a leaf of the query may hold a keyword.  Every node   *)
(* that contains the query answers alike.                                  *)
HasMatchWithin(q, ks) ==
  \E i \in q[1] .. q[2] : MatchesAny(bits[bf[LeafOf(i)]], ks)

(* locate_node_for_range: the node whose range or middle range it is. *)
NodesWith == [b \in Blocks |-> {v \in Node : RangeOf[v] = b \/ b \in Middles(v)}]
Locate(block) == IF block \in Blocks THEN NodesWith[block] ELSE {}

(* Mutant of Candidates: aligned to their full size. *)
CandidatesAligned(q, s) ==
  LET a == (q[1] \div s) * s IN <<<<a, a + s - 1>>, <<a, a + s - 1>>>>

(* The two candidates of size s, half-size aligned, pushed into the domain.*)
Candidates(q, s) ==
  LET offset == IF s \div 2 < 1 THEN 1 ELSE s \div 2
      limit == Power[Height] - s
      Clamp(x) == IF x < 0 THEN 0 ELSE IF x > limit THEN limit ELSE x
      a == Clamp((q[1] \div offset) * offset)
      b == Clamp(((q[2] + offset) \div offset) * offset - s)
  IN <<<<a, a + s - 1>>, <<b, b + s - 1>>>>

(* Of two usable candidates the one with the sparser filter, else the left.*)
Load(block) == LET v == CHOOSE v \in Locate(block) : TRUE
               IN Cardinality(bits[bf[v]])
Best(q, s) ==
  LET c == Candidates(q, s)
      usable == {x \in {c[1], c[2]} : Contains(x, q) /\ Locate(x) # {}}
  IN IF usable = {c[1], c[2]}
     THEN {IF Load(c[2]) < Load(c[1]) THEN c[2] ELSE c[1]}
     ELSE usable

(* {} where the code throws or returns (-1, -1): the caller skips the tree.*)
GetSingleRangeCover(q, ks) ==
  LET sizes == {s \in {Power[k] : k \in 0 .. Height} :
                  s >= q[2] - q[1] + 1 /\ Best(q, s) # {}}
  IN IF MatchesAny(bits[bf[1]], ks) /\ HasMatchWithin(q, ks)
     THEN Best(q, CHOOSE s \in sizes : \A t \in sizes : s <= t)
     ELSE {}

(* Mutant of DescendTree: no middle ranges. *)
DescendTreeHalves(i) == {RangeOf[v] : v \in {u \in Node : Contains(RangeOf[u], <<i, i>>)}}

(* descend_tree: the ranges a record is filed under, by its slot. *)
DescendTree(i) ==
  LET path == {v \in Node : Contains(RangeOf[v], <<i, i>>)}
  IN {RangeOf[v] : v \in path}
       \cup {m \in UNION {Middles(v) : v \in path} : Contains(m, <<i, i>>)}

Queries == {q \in Slot \X Slot : q[1] <= q[2]}
-----------------------------------------------------------------------------
(* A query that covers the slot of a settled record and has one of its     *)
(* keywords gets a cover, and the record is filed under that cover, so the *)
(* lookup of the cover finds it: through sharing, in-place merges and the  *)
(* deferred rebuild alike.                                                 *)
NoFalseNegative ==
  todo = <<>> =>
    \A r \in Inserted \ pending : \A k \in keywordsOf[r] : \A q \in Queries :
      Contains(q, <<slotOf[r], slotOf[r]>>) =>
        LET cover == GetSingleRangeCover(q, {k})
        IN cover # {} /\ cover \subseteq DescendTree(slotOf[r])

(* No range of the tree that contains the query is smaller than the cover, *)
(* though the search tries only two candidates of each size.               *)
CoverIsMinimal ==
  todo = <<>> =>
    \A q \in Queries, ks \in KeywordLists :
      \A c \in GetSingleRangeCover(q, ks) :
        /\ Contains(c, q)
        /\ \A b \in Blocks : Contains(b, q) => c[2] - c[1] <= b[2] - b[1]

(* Once all inserts are merged, an inner filter has all bits of the leaves *)
(* below it: also where sharing replaced the filter of a node below.       *)
InnerFiltersSummarise ==
  todo = <<>> /\ pending = {} =>
    \A v \in Internal : \A i \in Slot :
      Contains(RangeOf[v], <<i, i>>) => bits[bf[LeafOf(i)]] \subseteq bits[bf[v]]
=============================================================================
