------------------------------ MODULE BloomHeap ------------------------------
(***************************************************************************)
(* The Bloom filters of a tree index, as heap objects that several tree    *)
(* nodes may hold at once.  A node owns a std::shared_ptr to a filter, and *)
(* the trees deliberately let a parent and its two children hold the same  *)
(* one, so an `add` through one node is seen through the others.  The      *)
(* model therefore keeps pointers (node -> object) apart from contents     *)
(* (object -> set of bits).                                                *)
(*                                                                         *)
(* A filter's content is the set of its one bits; a keyword is the set of  *)
(* bits its k hash functions select (Hash), the same in every filter since *)
(* a tree builds all its filters from one global hasher and one size.      *)
(***************************************************************************)
EXTENDS Integers, FiniteSets

CONSTANTS
  Node,            \* tree nodes that can hold a filter
  Obj,             \* filter objects
  NULL,            \* the null shared_ptr
  Keyword,         \* keywords that can be inserted or looked up
  Bit,             \* positions of a filter's bit vector
  Hash,            \* keyword -> the set of bits it sets
  MaxShareDistance \* largest Hamming distance below THRESHOLD

ASSUME ObjAssumption ==
  /\ IsFiniteSet(Node) /\ IsFiniteSet(Obj)
  /\ Cardinality(Node) < Cardinality(Obj)  \* make_shared always finds memory
  /\ NULL \notin Obj

ASSUME HashAssumption ==
  /\ Hash \in [Keyword -> (SUBSET Bit) \ {{}}]
  /\ MaxShareDistance \in Nat

(* Objects some node still points to; the others are freed. *)
Live(ptr) == {ptr[v] : v \in Node} \cap Obj

(* make_shared: an object no node points to. *)
FreshObject(ptr) == CHOOSE o \in Obj : o \notin Live(ptr)

(* The heap once the last pointer to an object is gone: a freed filter's   *)
(* content means nothing, and the model forgets it.                        *)
Collect(ptr, heap) == [o \in Obj |-> IF o \in Live(ptr) THEN heap[o] ELSE {}]

HashOf(keywords) == UNION {Hash[k] : k \in keywords}

(* Number of bits in which two filters differ. *)
HammingDistance(a, b) == Cardinality((a \ b) \cup (b \ a))

Similar(a, b) == HammingDistance(a, b) <= MaxShareDistance

(* Mutant of Merged: the second filter is forgotten. *)
MergedFirstOnly(a, b) == a

(* The bits of two filters of the same size, or-ed. *)
Merged(a, b) == a \cup b

(* lookup of one keyword, and the test the trees prune with: some keyword  *)
(* of the query may be present.                                            *)
Lookup(content, k) == Hash[k] \subseteq content
MatchesAny(content, keywords) == \E k \in keywords : Lookup(content, k)
=============================================================================
