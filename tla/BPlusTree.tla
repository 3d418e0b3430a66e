----------------------------- MODULE BPlusTree ------------------------------
(***************************************************************************)
(* BPlusTree (test/BPlus): the days of a table, each with the segment tree *)
(* of its records.  Nodes are heap objects that point to their children,   *)
(* their parent and, leaves, to the next leaf; every pointer is set by a   *)
(* statement of its own.                                                   *)
(*                                                                         *)
(* insert() puts the day into a leaf and then splits the nodes that are    *)
(* full, one splitNode call per step (the checks of the calls it returns   *)
(* through find no node that is still full); remove() mends one leaf at    *)
(* most and is one step.  Where the code follows a null pointer or indexes *)
(* a vector past its end, anything may happen: the model stops there.      *)
(***************************************************************************)
EXTENDS Integers, Sequences, FiniteSets

CONSTANTS
  M,         \* a node with M keys is split
  Addr,      \* addresses of nodes
  NULL,
  Day,       \* the keys: timestamps of days
  DaysOf,    \* bound: mode -> the days its callers use
  TreesFor,  \* day -> the segment trees that can be inserted for it
  Modes      \* the ways callers use a tree, see mode

Vector == INSTANCE SequencesExt

ASSUME BPlusAssumption ==
  /\ M \in Nat /\ M >= 3
  /\ Addr \subseteq Nat /\ NULL \notin Addr
  /\ Day \subseteq Int
  /\ Modes \subseteq {"new days", "any day", "removal"} /\ DaysOf \in [Modes -> SUBSET Day]

VARIABLES
  mode,      \* callers insert each day once, again and again, or also remove
  root,      \* the root's address, or NULL
  node,      \* address -> node
  splitting, \* the node splitNode is called for next, or NULL
  undefined, \* whether the code has done what C++ does not define
  days,      \* history: day -> tree, as the callers have been told
  answer     \* {} or the last answer

vars == <<mode, root, node, splitting, undefined, days, answer>>

Idle == splitting = NULL /\ answer = {} /\ ~undefined

Unused == [isLeaf |-> TRUE, keys |-> <<>>, trees |-> <<>>, children |-> <<>>,
           next |-> NULL, parent |-> NULL]

EmptyTree(a) == root = a /\ node = [x \in Addr |-> Unused]

Init ==
  /\ mode \in Modes
  /\ EmptyTree(1)
  /\ splitting = NULL /\ undefined = FALSE
  /\ days = [d \in {} |-> NULL] /\ answer = {}

-----------------------------------------------------------------------------
(* The heap                                                                *)

Pointers(h, a) ==
  (Vector!ToSet(h[a].children) \cup {h[a].next, h[a].parent}) \ {NULL}

(* Nodes some chain of pointers leads to; others are gone. *)
Reachable(h, r) ==
  LET within[n \in Nat] ==
        IF n = 0 THEN {r} \ {NULL}
        ELSE LET near == within[n - 1] IN near \cup UNION {Pointers(h, a) : a \in near}
  IN within[Cardinality(Addr)]

(* make_shared: the lowest address that is not in use. *)
Fresh(h, r) ==
  LET free == Addr \ Reachable(h, r) IN CHOOSE a \in free : \A b \in free : a <= b

Become(h, r) ==
  LET live == Reachable(h, r)
  IN root' = r /\ node' = [a \in Addr |-> IF a \in live THEN h[a] ELSE Unused]

LowerBound(keys, k) == Cardinality({i \in DOMAIN keys : keys[i] < k})
UpperBound(keys, k) == Cardinality({i \in DOMAIN keys : keys[i] <= k})

(* The child at a 0-based index, the last one if it is too large. *)
ChildAt(a, index) ==
  LET children == node[a].children
  IN IF index >= Len(children) THEN children[Len(children)] ELSE children[index + 1]

(* findLeafNode: a day equal to a separator is to its right. *)
FindLeafNode(k) ==
  LET down[a \in Addr] ==
        IF node[a].isLeaf THEN a ELSE down[ChildAt(a, UpperBound(node[a].keys, k))]
  IN down[root]

(* insertInternal descends with findKeyIndex: such a day is to its left. *)
FindLeafToInsert(k) ==
  LET down[a \in Addr] ==
        IF node[a].isLeaf THEN a ELSE down[ChildAt(a, LowerBound(node[a].keys, k))]
  IN down[root]

IndexOf(a, k) == LowerBound(node[a].keys, k) + 1
Holds(a, k) == k \in Vector!ToSet(node[a].keys)
-----------------------------------------------------------------------------
(* Inserting                                                               *)

Put(k, t) == [d \in DOMAIN days \cup {k} |-> IF d = k THEN t ELSE days[d]]

InsertIntoLeaf(a, k, t) ==
  [node EXCEPT ![a].keys = Vector!InsertAt(@, IndexOf(a, k), k),
               ![a].trees = Vector!InsertAt(@, IndexOf(a, k), t)]

Insert(k, t) ==
  /\ Idle
  /\ mode # "any day" => k \notin DOMAIN days
  /\ days' = Put(k, t)
  /\ UNCHANGED <<mode, undefined, answer>>
  /\ \/ /\ root = NULL
        /\ Become([node EXCEPT ![1].keys = <<k>>, ![1].trees = <<t>>], 1)
        /\ UNCHANGED splitting
     \/ /\ root # NULL
        /\ LET a == FindLeafToInsert(k)
               h == IF Holds(a, k) THEN [node EXCEPT ![a].trees[IndexOf(a, k)] = t]
                                   ELSE InsertIntoLeaf(a, k, t)
           IN /\ Become(h, root)
              /\ splitting' = IF Len(h[a].keys) >= M THEN a ELSE NULL

Mid(a) == Len(node[a].keys) \div 2

(* The right half of node a goes to node b, with what belongs to it. *)
SplitLeaf(a, b) ==
  LET n == node[a]
  IN [node EXCEPT
       ![a].keys = SubSeq(@, 1, Mid(a)), ![a].trees = SubSeq(@, 1, Mid(a)),
       ![a].next = b,
       ![b] = [n EXCEPT !.keys = SubSeq(@, Mid(a) + 1, Len(@)),
                        !.trees = SubSeq(@, Mid(a) + 1, Len(@))]]

SplitInternal(a, b) ==
  LET n == node[a]
      moved == SubSeq(n.children, Mid(a) + 2, Len(n.children))
  IN [x \in Addr |->
       CASE x = a -> [n EXCEPT !.keys = SubSeq(@, 1, Mid(a)),
                               !.children = SubSeq(@, 1, Mid(a) + 1)]
         [] x = b -> [Unused EXCEPT !.isLeaf = FALSE, !.children = moved,
                                    !.keys = SubSeq(n.keys, Mid(a) + 2, Len(n.keys))]
         [] x \in Vector!ToSet(moved) -> [node[x] EXCEPT !.parent = b]
         [] OTHER -> node[x]]

Halves(a, b) == IF node[a].isLeaf THEN SplitLeaf(a, b) ELSE SplitInternal(a, b)

(* The key of the right leaf's first day, or the middle key.  The code     *)
(* reads the latter from the vector it has shortened to just before it:    *)
(* the memory still holds it.                                              *)
UpKey(a) == node[a].keys[Mid(a) + 1]

(* Mutant of AddToParent: the halves keep their old parents. *)
AddToParentOnly(h, a, b, p, up) ==
  LET index == LowerBound(h[p].keys, up)
  IN [h EXCEPT ![p].keys = Vector!InsertAt(@, index + 1, up),
               ![p].children = Vector!InsertAt(@, index + 2, b)]

AddToParent(h, a, b, p, up) ==
  LET index == LowerBound(h[p].keys, up)
  IN [h EXCEPT ![p].keys = Vector!InsertAt(@, index + 1, up),
               ![p].children = Vector!InsertAt(@, index + 2, b),
               ![a].parent = p, ![b].parent = p]

SplitNode ==
  /\ splitting # NULL /\ ~undefined
  /\ UNCHANGED <<mode, days, answer>>
  /\ LET a == splitting
         p == node[a].parent
         b == Fresh(node, root)
         h == Halves(a, b)
         up == UpKey(a)
     IN \/ /\ p = NULL
           /\ LET r == Fresh(h, root)
              IN Become([h EXCEPT ![r] = [Unused EXCEPT !.isLeaf = FALSE, !.keys = <<up>>,
                                                        !.children = <<a, b>>],
                                  ![a].parent = r, ![b].parent = r], r)
           /\ splitting' = NULL /\ UNCHANGED undefined
        \/ /\ p # NULL /\ LowerBound(h[p].keys, up) < Len(h[p].children)
           /\ LET h2 == AddToParent(h, a, b, p, up)
              IN /\ Become(h2, root)
                 /\ splitting' = IF Len(h2[p].keys) >= M THEN p ELSE NULL
           /\ UNCHANGED undefined
        \/ /\ p # NULL /\ LowerBound(h[p].keys, up) >= Len(h[p].children)
           /\ undefined' = TRUE /\ UNCHANGED <<root, node, splitting>>
-----------------------------------------------------------------------------
(* Removing                                                                *)

(* A node with fewer keys is repaired; only a sibling with more can lend.  *)
MinKeys == (M + 1) \div 2 - 1

(* Mutant of BorrowFromLeft: the sibling keeps what it lends. *)
CopyFromLeft(h, a, p, left, i) ==
  [h EXCEPT ![a].keys = <<Vector!Last(h[left].keys)>> \o @,
            ![a].trees = <<Vector!Last(h[left].trees)>> \o @,
            ![p].keys[i - 1] = Vector!Last(h[left].keys)]

BorrowFromLeft(h, a, p, left, i) ==
  [h EXCEPT ![a].keys = <<Vector!Last(h[left].keys)>> \o @,
            ![a].trees = <<Vector!Last(h[left].trees)>> \o @,
            ![left].keys = Vector!Front(@), ![left].trees = Vector!Front(@),
            ![p].keys[i - 1] = Vector!Last(h[left].keys)]

BorrowFromRight(h, a, p, right, i) ==
  [h EXCEPT ![a].keys = Append(@, Head(h[right].keys)),
            ![a].trees = Append(@, Head(h[right].trees)),
            ![right].keys = Tail(@), ![right].trees = Tail(@),
            ![p].keys[i] = Head(Tail(h[right].keys))]

(* The leaf to the right joins the left one, and leaves the parent.  The   *)
(* leaf after them is given the left one for a parent.                     *)
MergeLeaves(h, left, right, p, i) ==
  LET after == h[right].next
      joined == [h EXCEPT ![left].keys = @ \o h[right].keys,
                          ![left].trees = @ \o h[right].trees,
                          ![left].next = after,
                          ![p].keys = Vector!RemoveAt(@, i),
                          ![p].children = Vector!RemoveAt(@, i + 1)]
  IN IF after = NULL THEN joined ELSE [joined EXCEPT ![after].parent = left]

(* An emptied root is replaced by the node that was too small, which is    *)
(* the leaf just merged away if it was the right one.                      *)
RootAfterMerge(h, p, a) == IF p = root /\ h[p].keys = <<>> THEN a ELSE root

WithRoot(h, r) == IF r = root THEN h ELSE [h EXCEPT ![r].parent = NULL]

(* borrowOrMerge, for a leaf at 1-based position i of its parent.          *)
BorrowOrMerge(h, a, p, i) ==
  LET siblings == h[p].children
      lends(j) == j \in DOMAIN siblings /\ Len(h[siblings[j]].keys) > MinKeys
      merge(left, right, at) ==
        LET h2 == MergeLeaves(h, left, right, p, at)
            r == RootAfterMerge(h2, p, a)
        IN Become(WithRoot(h2, r), r) /\ UNCHANGED undefined
  IN \/ /\ lends(i - 1)
        /\ Become(BorrowFromLeft(h, a, p, siblings[i - 1], i), root)
        /\ UNCHANGED undefined
     \/ /\ ~lends(i - 1) /\ lends(i + 1)
        /\ Become(BorrowFromRight(h, a, p, siblings[i + 1], i), root)
        /\ UNCHANGED undefined
     \/ /\ ~lends(i - 1) /\ ~lends(i + 1) /\ i > 1
        /\ merge(siblings[i - 1], a, i - 1)
     \/ /\ ~lends(i + 1) /\ i = 1 /\ i + 1 \in DOMAIN siblings
        /\ merge(a, siblings[i + 1], i)
     \/ /\ i = 1 /\ i + 1 \notin DOMAIN siblings
        /\ undefined' = TRUE /\ UNCHANGED <<root, node>>

(* Where the parent has the leaf; the first place if it has it nowhere.    *)
PositionInParent(a, p) ==
  LET places == {i \in DOMAIN node[p].children : node[p].children[i] = a}
  IN IF places = {} THEN 1 ELSE CHOOSE i \in places : \A j \in places : i <= j

RemoveFrom(a, k) ==
  LET i == IndexOf(a, k)
      h == [node EXCEPT ![a].keys = Vector!RemoveAt(@, i),
                        ![a].trees = Vector!RemoveAt(@, i)]
      p == node[a].parent
      tooSmall == Len(h[a].keys) < MinKeys /\ a # root
  IN \/ /\ a = root /\ h[a].keys = <<>>
        /\ Become(h, NULL) /\ UNCHANGED undefined
     \/ /\ tooSmall
        /\ BorrowOrMerge(h, a, p, PositionInParent(a, p))
     \/ /\ ~tooSmall /\ ~(a = root /\ h[a].keys = <<>>)
        /\ Become(h, root) /\ UNCHANGED undefined

Remove(k) ==
  /\ Idle /\ mode = "removal"
  /\ UNCHANGED <<mode, splitting, answer>>
  /\ \/ /\ root = NULL
        /\ undefined' = TRUE /\ UNCHANGED <<root, node, days>>
     \/ /\ root # NULL /\ Holds(FindLeafNode(k), k)
        /\ RemoveFrom(FindLeafNode(k), k)
        /\ days' = [d \in DOMAIN days \ {k} |-> days[d]]
     \/ /\ root # NULL /\ ~Holds(FindLeafNode(k), k)
        /\ UNCHANGED <<root, node, undefined, days>>
-----------------------------------------------------------------------------
(* Asking                                                                  *)

(* search, and the lookup of update. *)
Search(k) ==
  LET a == FindLeafNode(k)
  IN IF Holds(a, k) THEN node[a].trees[IndexOf(a, k)] ELSE NULL

Entries(a) == [i \in DOMAIN node[a].keys |-> <<node[a].keys[i], node[a].trees[i]>>]

(* Mutant of RangeSearch: only the first leaf is read. *)
RangeSearchOneLeaf(lo, hi) ==
  SelectSeq(Entries(FindLeafNode(lo)), LAMBDA e : lo <= e[1] /\ e[1] <= hi)

(* rangeSearch: along the list of leaves, up to one that starts too late.  *)
RangeSearch(lo, hi) ==
  LET walk[a \in Addr \cup {NULL}] ==
        IF a = NULL \/ node[a].keys = <<>> \/ node[a].keys[1] > hi THEN <<>>
        ELSE SelectSeq(Entries(a), LAMBDA e : lo <= e[1] /\ e[1] <= hi)
               \o walk[node[a].next]
  IN walk[FindLeafNode(lo)]

Ask(reply) ==
  /\ Idle
  /\ IF root = NULL THEN undefined' = TRUE /\ UNCHANGED answer
                    ELSE answer' = {reply} /\ UNCHANGED undefined
  /\ UNCHANGED <<mode, root, node, splitting, days>>

(* The caller has its answer, and can go on. *)
Return ==
  /\ answer # {}
  /\ answer' = {}
  /\ UNCHANGED <<mode, root, node, splitting, undefined, days>>

Next ==
  \/ \E k \in DaysOf[mode] : \E t \in TreesFor[k] : Insert(k, t)
  \/ SplitNode
  \/ \E k \in DaysOf[mode] : Remove(k)
  \/ \E k \in DaysOf[mode] : Ask([day |-> k, found |-> Search(k)])
  \/ \E lo, hi \in DaysOf[mode] : Ask([lo |-> lo, hi |-> hi, found |-> RangeSearch(lo, hi)])
  \/ Return

Spec == Init /\ [][Next]_vars
-----------------------------------------------------------------------------
Live == Reachable(node, root)
Leaves == {a \in Live : node[a].isLeaf}

DayAnswers == {a \in answer : "day" \in DOMAIN a}
RangeAnswers == answer \ DayAnswers

(* Every day can be found again, with the tree that was inserted for it    *)
(* last, and no other day is found.                                        *)
SearchFindsEveryDay ==
  \A a \in DayAnswers :
    a.found = IF a.day \in DOMAIN days THEN days[a.day] ELSE NULL

(* Splits never leave the defined part of C++, and keep the tree balanced  *)
(* and its pointers right: between two calls no node is full, all leaves   *)
(* are equally deep, each node is the parent of its children, and each     *)
(* leaf is linked to the leaf after it.                                    *)
Depth(a) ==
  LET up[x \in Addr] == IF node[x].parent = NULL THEN 0 ELSE 1 + up[node[x].parent]
  IN up[a]

SplitsKeepShape ==
  /\ mode = "new days" => ~undefined
  /\ Idle /\ mode = "new days" =>
    /\ \A a \in Live :
         /\ Len(node[a].keys) < M
         /\ ~node[a].isLeaf => Len(node[a].children) = Len(node[a].keys) + 1
         /\ \A c \in Vector!ToSet(node[a].children) : node[c].parent = a
    /\ \A a, b \in Leaves : Depth(a) = Depth(b)
    /\ \A a, b \in Leaves :
         node[a].next = b =>
           /\ Vector!Last(node[a].keys) < Head(node[b].keys)
           /\ \A c \in Leaves \ {a} : node[c].next # b

(* As long as each day is inserted once, the tree is a map of days:        *)
(* lookups and range searches answer as the abstract index does, and       *)
(* splits do not show.  Trees that are used otherwise are not shown to the *)
(* abstract index, their answers are judged by the two other properties.   *)
Shown(v, empty) == IF mode = "new days" THEN v ELSE empty

Index == INSTANCE DayIndex WITH
           Tree <- UNION {TreesFor[d] : d \in Day},
           days <- Shown(days, [d \in {} |-> NULL]),
           answer <- Shown(answer, {})

ImplementsDayIndex == Index!Spec

(* Removals may lose days, but never bring one back or mix them up: what a *)
(* search finds is in the index, under the tree it was inserted with, and  *)
(* a range search reports days of its range in order and none twice.       *)
AnswersAreSound ==
  mode # "any day" =>
    /\ \A a \in DayAnswers :
         a.found # NULL => a.day \in DOMAIN days /\ a.found = days[a.day]
    /\ \A a \in RangeAnswers :
         /\ \A i \in DOMAIN a.found :
              LET d == a.found[i][1]
              IN a.lo <= d /\ d <= a.hi /\ d \in DOMAIN days /\ a.found[i][2] = days[d]
         /\ \A i, j \in DOMAIN a.found : i < j => a.found[i][1] < a.found[j][1]
=============================================================================
