---------------------------- MODULE TdagBFProofs ----------------------------
(***************************************************************************)
(* Proofs about TdagBF for a tree of any height, any hashes and any number *)
(* of records.                                                             *)
(***************************************************************************)
EXTENDS TdagBF, SumTheorems

-----------------------------------------------------------------------------
(* The tree                                                                *)

LEMMA PowerFacts ==
  /\ Power[0] = 1
  /\ \A k \in 0 .. Height : Power[k + 1] = 2 * Power[k]
  /\ \A k \in 0 .. Height + 1 : Power[k] \in Nat \ {0}
<1> DEFINE D == 0 .. Height + 1
           S == Nat \ {0}
<1>0. Height \in Nat
  BY HeightAssumption
<1>1. PICK B, first, step, smaller :
        /\ B = {0}
        /\ first = [k \in D |-> 1] /\ step = [k \in D |-> [x \in S |-> 2 * x]]
        /\ smaller = [k \in D |-> k - 1]
  OBVIOUS
<1>2. first \in [D -> S] /\ step \in [D -> [S -> S]]
  BY <1>1
<1>3. \A d \in D \ B : smaller[d] \in D /\ smaller[d] < d
  BY <1>0, <1>1
<1>4. PICK f \in [D -> S] :
        \A d \in D : f[d] = IF d \in B THEN first[d] ELSE step[d][f[smaller[d]]]
  <2>1. Height + 1 \in Nat
    BY <1>0
  <2>2. Recursion(D, S, B, first, step, smaller)
    BY <1>2, <1>3, <2>1 DEF Recursion
  <2> HIDE DEF D, S
  <2>3. QED
    BY <2>2, RecursionExists
<1>5. \A d \in D : f[d] = IF d = 0 THEN 1 ELSE 2 * f[d - 1]
  <2>1. ASSUME NEW d \in D, d # 0 PROVE f[d] = 2 * f[d - 1]
    <3>0. d - 1 \in D /\ d \notin B
      BY <1>0, <1>1, <2>1
    <3>1. d - 1 \in D /\ f[d - 1] \in S /\ smaller[d] = d - 1
      BY <1>1, <1>4, <2>1, <3>0
    <3>2. f[d] = step[d][f[d - 1]] /\ step[d] = [x \in S |-> 2 * x]
      BY <1>1, <1>4, <2>1, <3>1
    <3>3. QED
      BY <3>1, <3>2
  <2>2. f[0] = 1
    BY <1>0, <1>1, <1>4
  <2>3. QED
    BY <2>1, <2>2
<1>6. f = [d \in D |-> IF d = 0 THEN 1 ELSE 2 * f[d - 1]]
  BY <1>5
<1>7. Power = [d \in D |-> IF d = 0 THEN 1 ELSE 2 * Power[d - 1]]
  BY <1>6 DEF Power
<1>8. Power[0] = 1 /\ \A k \in 0 .. Height : Power[k + 1] = 2 * Power[k]
  BY <1>0, <1>7
<1>9. \A k \in 0 .. Height + 1 : Power[k] \in Nat \ {0}
  <2> DEFINE Q == {n \in Nat : n <= Height + 1 => Power[n] \in Nat \ {0}}
  <2>1. 0 \in Q
    BY <1>8
  <2>2. ASSUME NEW n \in Nat, n \in Q PROVE n + 1 \in Q
    <3> SUFFICES ASSUME n + 1 <= Height + 1 PROVE Power[n + 1] \in Nat \ {0}
      OBVIOUS
    <3>1. n \in 0 .. Height /\ Power[n] \in Nat \ {0}
      BY <1>0, <2>2
    <3>2. QED
      BY <1>8, <3>1
  <2>3. Nat \subseteq Q
    <3> HIDE DEF Q
    <3>1. QED
      BY <2>1, <2>2, NaturalInduction
  <2>4. QED
    BY <2>3
<1>10. QED
  BY <1>8, <1>9

(* Nodes are numbered from the root down, P of them are leaves.            *)
TreeOf(P) ==
  /\ P = Power[Height] /\ P \in Nat \ {0}
  /\ Node = 1 .. 2 * P - 1 /\ Internal = 1 .. P - 1 /\ Leaves = P .. 2 * P - 1
  /\ Slot = 0 .. P - 1 /\ \A i : LeafOf(i) = P + i

LEMMA TreeFacts == \E P : TreeOf(P)
<1>1. Height \in Nat /\ Height \in 0 .. Height /\ Height + 1 \in 0 .. Height + 1
      /\ Node = 1 .. Power[Height + 1] - 1
  BY HeightAssumption
<1>2. Power[Height] \in Nat \ {0} /\ Power[Height + 1] = 2 * Power[Height]
  BY <1>1, PowerFacts
<1>3. QED
  BY <1>1, <1>2 DEF TreeOf, Internal, Leaves, Slot, LeafOf

LEMMA NodeFacts ==
  /\ 1 \in Node /\ Node \subseteq Nat \ {0} /\ Internal \subseteq Node
  /\ Node = Internal \cup Leaves /\ Internal \cap Leaves = {}
  /\ \A v \in Internal : Left(v) \in Node /\ Right(v) \in Node /\ Left(v) \div 2 = v /\ Right(v) \div 2 = v
  /\ \A v \in Node : v # 1 => /\ v \div 2 \in Internal /\ v \div 2 < v
                              /\ v = Left(v \div 2) \/ v = Right(v \div 2)
                              /\ v % 2 = 0 => v = 2 * (v \div 2)
                              /\ v % 2 # 0 => v = 2 * (v \div 2) + 1
  /\ \A i \in Slot : LeafOf(i) \in Leaves
<1>1. PICK P : TreeOf(P)
  BY TreeFacts
<1>2. P \in Nat \ {0} /\ Node = 1 .. 2 * P - 1 /\ Internal = 1 .. P - 1 /\ Leaves = P .. 2 * P - 1
      /\ Slot = 0 .. P - 1 /\ \A i : LeafOf(i) = P + i
  BY <1>1 DEF TreeOf
<1>3. \A v \in Internal : Left(v) \in Node /\ Right(v) \in Node /\ Left(v) \div 2 = v /\ Right(v) \div 2 = v
  BY <1>2 DEF Left, Right
<1>4. \A v \in Node : v # 1 => /\ v \div 2 \in Internal /\ v \div 2 < v
                               /\ v = Left(v \div 2) \/ v = Right(v \div 2)
                               /\ v % 2 = 0 => v = 2 * (v \div 2)
                               /\ v % 2 # 0 => v = 2 * (v \div 2) + 1
  BY <1>2 DEF Left, Right
<1>5. QED
  BY <1>2, <1>3, <1>4

(* The nodes from v up to the root, and those that are reached from v      *)
(* through left edges only.                                                *)
Up[v \in Node] == {v} \cup IF v = 1 THEN {} ELSE Up[v \div 2]
Chain[v \in Node] == {v} \cup IF v % 2 = 1 THEN {} ELSE Chain[v \div 2]

LEMMA NodesAreFinite == \E N \in Nat : Node \in SUBSET (0 .. N)
<1>1. PICK P : TreeOf(P)
  BY TreeFacts
<1>2. P \in Nat \ {0} /\ Node = 1 .. 2 * P - 1
  BY <1>1 DEF TreeOf
<1>3. 2 * P - 1 \in Nat /\ Node \in SUBSET (0 .. 2 * P - 1)
  BY <1>2
<1>4. QED
  BY <1>3

(* Sets of nodes that grow by a node at each step. *)
LEMMA PathsExist ==
  ASSUME NEW B, 1 \in B
  PROVE  \E f \in [Node -> SUBSET Node] :
           f = [v \in Node |-> {v} \cup IF v \in B THEN {} ELSE f[v \div 2]]
<1>1. PICK S, first, step, smaller :
        /\ S = SUBSET Node
        /\ first = [v \in Node |-> {v}] /\ step = [v \in Node |-> [x \in S |-> {v} \cup x]]
        /\ smaller = [v \in Node |-> v \div 2]
  OBVIOUS
<1>2. first \in [Node -> S] /\ step \in [Node -> [S -> S]]
  BY <1>1
<1>3. \A v \in Node \ B : v \div 2 \in Node /\ smaller[v] \in Node /\ smaller[v] < v
  BY <1>1, NodeFacts
<1>4. Recursion(Node, S, B, first, step, smaller)
  BY <1>2, <1>3, NodesAreFinite DEF Recursion
<1>5. PICK f \in [Node -> S] :
        \A v \in Node : f[v] = IF v \in B THEN first[v] ELSE step[v][f[smaller[v]]]
  BY <1>4, RecursionExists
<1>6. ASSUME NEW v \in Node PROVE f[v] = {v} \cup IF v \in B THEN {} ELSE f[v \div 2]
  <2>1. CASE v \in B
    BY <1>1, <1>5, <2>1
  <2>2. CASE v \notin B
    <3>1. f[v] = step[v][f[v \div 2]] /\ f[v \div 2] \in S
      BY <1>1, <1>3, <1>5, <2>2
    <3>2. QED
      BY <1>1, <2>2, <3>1
  <2>3. QED
    BY <2>1, <2>2
<1>7. f = [v \in Node |-> {v} \cup IF v \in B THEN {} ELSE f[v \div 2]]
  BY <1>5, <1>6
<1>8. QED
  BY <1>1, <1>7

LEMMA UpStep ==
  ASSUME NEW v \in Node
  PROVE  /\ Up[v] \in SUBSET Node /\ v \in Up[v]
         /\ Up[v] = {v} \cup IF v = 1 THEN {} ELSE Up[v \div 2]
<1>0. PICK B : B = {1}
  OBVIOUS
<1>1. PICK f \in [Node -> SUBSET Node] :
        f = [u \in Node |-> {u} \cup IF u \in B THEN {} ELSE f[u \div 2]]
  BY <1>0, PathsExist
<1>2. f = [u \in Node |-> {u} \cup IF u = 1 THEN {} ELSE f[u \div 2]]
  BY <1>0, <1>1
<1>3. Up = [u \in Node |-> {u} \cup IF u = 1 THEN {} ELSE Up[u \div 2]]
  BY <1>2 DEF Up
<1>4. Up[v] = {v} \cup IF v = 1 THEN {} ELSE Up[v \div 2]
  BY <1>3
<1> DEFINE Q == {u \in Node : Up[u] \in SUBSET Node}
<1>5. Node \subseteq Q
  <2>1. ASSUME NEW u \in Node, \A w \in Node : w < u => w \in Q PROVE u \in Q
    <3>1. u # 1 => Up[u \div 2] \in SUBSET Node
      BY <2>1, NodeFacts
    <3>2. Up[u] = {u} \cup IF u = 1 THEN {} ELSE Up[u \div 2]
      BY <1>3
    <3>3. QED
      BY <3>1, <3>2
  <2>2. Node \in SUBSET Nat
    BY NodeFacts
  <2> HIDE DEF Q
  <2>3. QED
    BY <2>1, <2>2, StrongInduction
<1>6. QED
  BY <1>4, <1>5

LEMMA ChainStep ==
  ASSUME NEW v \in Node
  PROVE  Chain[v] = {v} \cup IF v % 2 = 1 THEN {} ELSE Chain[v \div 2]
<1>1. PICK B : B = {u \in Node : u % 2 = 1}
  OBVIOUS
<1>2. 1 \in B
  BY <1>1, NodeFacts
<1>3. PICK f \in [Node -> SUBSET Node] :
        f = [u \in Node |-> {u} \cup IF u \in B THEN {} ELSE f[u \div 2]]
  BY <1>2, PathsExist
<1>4. f = [u \in Node |-> {u} \cup IF u % 2 = 1 THEN {} ELSE f[u \div 2]]
  BY <1>1, <1>3
<1>5. Chain = [u \in Node |-> {u} \cup IF u % 2 = 1 THEN {} ELSE Chain[u \div 2]]
  BY <1>4 DEF Chain
<1>6. QED
  BY <1>5

LEMMA UpFacts ==
  ASSUME NEW v \in Node
  PROVE  /\ 1 \in Up[v]
         /\ \A a \in Up[v] : /\ a \in Node /\ a <= v
                             /\ a # 1 => a \div 2 \in Up[v]
                             /\ a # v => v # 1 /\ a \in Up[v \div 2]
<1> DEFINE Fine(u) == 1 \in Up[u] /\ \A a \in Up[u] : a <= u /\ (a # 1 => a \div 2 \in Up[u])
           Q == {u \in Node : Fine(u)}
<1>1. ASSUME NEW u \in Node, \A w \in Node : w < u => w \in Q PROVE u \in Q
  <2>1. CASE u = 1
    BY <2>1, UpStep
  <2>2. CASE u # 1
    <3>1. u \div 2 \in Node /\ u \div 2 < u /\ u \in Nat
      BY <2>2, NodeFacts
    <3>2. Fine(u \div 2)
      BY <1>1, <3>1
    <3>3. Up[u] = {u} \cup Up[u \div 2] /\ u \div 2 \in Up[u \div 2] /\ Up[u \div 2] \subseteq Nat
      BY <2>2, <3>1, UpStep, NodeFacts
    <3>4. QED
      BY <3>1, <3>2, <3>3
  <2>3. QED
    BY <2>1, <2>2
<1>2. Node \subseteq Q
  <2>1. Node \in SUBSET Nat
    BY NodeFacts
  <2> HIDE DEF Q
  <2>2. QED
    BY <1>1, <2>1, StrongInduction
<1>3. QED
  BY <1>2, UpStep

(* What is above a node of a chain's own chain. *)
LEMMA ChainFacts ==
  ASSUME NEW u \in Node
  PROVE  /\ u \in Chain[u]
         /\ \A a \in Chain[u] : /\ a \in Node /\ a <= u
                                /\ a % 2 = 0 => a \div 2 \in Chain[u]
         /\ \A a, b \in Chain[u] : a <= b => a \in Up[b]
         /\ \A a, b \in Chain[u] : a < b => b % 2 = 0 /\ a <= b \div 2
<1> DEFINE A(w) == \A a \in Chain[w] : a \in Node /\ a <= w /\ (a % 2 = 0 => a \div 2 \in Chain[w])
           B(w) == \A a, b \in Chain[w] : a <= b => a \in Up[b]
           C(w) == \A a, b \in Chain[w] : a < b => b % 2 = 0 /\ a <= b \div 2
           Q == {w \in Node : w \in Chain[w] /\ A(w) /\ B(w) /\ C(w)}
<1>1. ASSUME NEW w \in Node, \A x \in Node : x < w => x \in Q PROVE w \in Q
  <2>1. w \in Nat /\ w \in Up[w] /\ (w % 2 = 0 \/ w % 2 = 1) /\ w \in Chain[w]
    BY NodeFacts, UpStep, ChainStep
  <2>2. CASE w % 2 = 1
    <3>1. Chain[w] = {w}
      BY <2>2, ChainStep
    <3>2. QED
      BY <2>1, <2>2, <3>1
  <2>3. CASE w % 2 = 0
    <3>1. PICK x : x = w \div 2
      OBVIOUS
    <3>2. w # 1 /\ x \in Node /\ x < w /\ x \in Nat
      BY <2>1, <2>3, <3>1, NodeFacts
    <3>3. x \in Chain[x] /\ A(x) /\ B(x) /\ C(x)
      BY <1>1, <3>2
    <3>4. Chain[w] = {w} \cup Chain[x] /\ Up[w] = {w} \cup Up[x]
      BY <2>3, <3>1, <3>2, ChainStep, UpStep
    <3>5. \A a \in Chain[x] : a \in Nat /\ a <= x /\ a < w /\ a \in Up[x]
      BY <2>1, <3>2, <3>3, NodeFacts
    <3>6. A(w)
      BY <2>1, <3>1, <3>3, <3>4, <3>5
    <3>7. B(w)
      <4> SUFFICES ASSUME NEW a \in Chain[w], NEW b \in Chain[w], a <= b PROVE a \in Up[b]
        OBVIOUS
      <4>1. CASE b = w
        BY <2>1, <3>4, <3>5, <4>1
      <4>2. CASE b # w
        BY <2>1, <3>3, <3>4, <3>5, <4>2
      <4>3. QED
        BY <4>1, <4>2
    <3>8. C(w)
      <4> SUFFICES ASSUME NEW a \in Chain[w], NEW b \in Chain[w], a < b
                   PROVE b % 2 = 0 /\ a <= b \div 2
        OBVIOUS
      <4>1. CASE b = w
        BY <2>1, <2>3, <3>1, <3>4, <3>5, <4>1
      <4>2. CASE b # w
        BY <2>1, <3>3, <3>4, <3>5, <4>2
      <4>3. QED
        BY <4>1, <4>2
    <3>9. QED
      BY <2>1, <3>6, <3>7, <3>8
  <2>4. QED
    BY <2>1, <2>2, <2>3
<1>2. Node \subseteq Q
  <2>1. Node \in SUBSET Nat
    BY NodeFacts
  <2> HIDE DEF Q
  <2>2. QED
    BY <1>1, <2>1, StrongInduction
<1>3. QED
  BY <1>2

-----------------------------------------------------------------------------
(* The nodes a call has to merge                                           *)

Halving(S, first, step) == first \in S /\ step \in [Node -> [S -> S]]

LEMMA HalvingExists ==
  ASSUME NEW S, NEW first, NEW step, Halving(S, first, step)
  PROVE  \E f \in [Node -> S] :
           \A v \in Node : f[v] = IF v = 1 THEN first ELSE step[v][f[v \div 2]]
<1>1. PICK B, firsts, smaller :
        /\ B = {1} /\ firsts = [v \in Node |-> first]
        /\ smaller = [v \in Node |-> v \div 2]
  OBVIOUS
<1>2. \A v \in Node \ B : smaller[v] \in Node /\ smaller[v] < v
  BY <1>1, NodeFacts
<1>3. Recursion(Node, S, B, firsts, step, smaller)
  BY <1>1, <1>2, NodesAreFinite DEF Recursion, Halving
<1>4. PICK f \in [Node -> S] :
        \A v \in Node : f[v] = IF v \in B THEN firsts[v] ELSE step[v][f[smaller[v]]]
  BY <1>3, RecursionExists
<1>5. QED
  BY <1>1, <1>4

(* Climbs to the root one after the other, and sequences that have the     *)
(* parent of each node somewhere behind it.                                *)
Climbing(s) ==
  /\ s \in Seq(Internal)
  /\ \A n \in 1 .. Len(s) : s[n] = 1 \/ (n < Len(s) /\ s[n + 1] = s[n] \div 2)

Rising(s) ==
  /\ s \in Seq(Internal)
  /\ \A n \in 1 .. Len(s) : s[n] = 1 \/ \E m \in n + 1 .. Len(s) : s[m] = s[n] \div 2

LEMMA ConcatFacts ==
  ASSUME NEW S, NEW s \in Seq(S), NEW t \in Seq(S)
  PROVE  /\ s \o t \in Seq(S) /\ Len(s \o t) = Len(s) + Len(t)
         /\ Len(s) \in Nat /\ Len(t) \in Nat
         /\ \A n \in 1 .. Len(s) : (s \o t)[n] = s[n]
         /\ \A n \in 1 .. Len(t) : (s \o t)[Len(s) + n] = t[n]
         /\ \A n \in 1 .. Len(s) + Len(t) :
              n \in 1 .. Len(s) \/ \E m \in 1 .. Len(t) : n = Len(s) + m
<1>1. PICK k \in Nat, l \in Nat : k = Len(s) /\ l = Len(t)
  OBVIOUS
<1>2. \A n \in 1 .. k + l : n \in 1 .. k \/ \E m \in 1 .. l : n = k + m
  <2> SUFFICES ASSUME NEW n \in 1 .. k + l, n \notin 1 .. k PROVE \E m \in 1 .. l : n = k + m
    OBVIOUS
  <2>1. n - k \in 1 .. l /\ n = k + (n - k)
    OBVIOUS
  <2>2. QED
    BY <2>1
<1>3. QED
  BY <1>1, <1>2

LEMMA ConcatClimbs ==
  ASSUME NEW s, NEW t, Climbing(s), Climbing(t)
  PROVE  Climbing(s \o t)
<1>0. s \in Seq(Internal) /\ t \in Seq(Internal)
  BY DEF Climbing
<1>a. PICK k \in Nat, l \in Nat : k = Len(s) /\ l = Len(t)
  BY <1>0
<1>b. PICK r : r = s \o t
  OBVIOUS
<1>1. k = Len(s) /\ l = Len(t) /\ r = s \o t
  BY <1>a, <1>b
<1>2. /\ r \in Seq(Internal) /\ Len(r) = k + l
      /\ \A n \in 1 .. k : r[n] = s[n]
      /\ \A n \in 1 .. l : r[k + n] = t[n]
      /\ \A n \in 1 .. k + l : n \in 1 .. k \/ \E m \in 1 .. l : n = k + m
  BY <1>0, <1>1, ConcatFacts
<1>3. ASSUME NEW n \in 1 .. k + l PROVE r[n] = 1 \/ (n < k + l /\ r[n + 1] = r[n] \div 2)
  <2>1. CASE n \in 1 .. k
    <3>1. s[n] = 1 \/ (n < k /\ s[n + 1] = s[n] \div 2)
      BY <1>1, <2>1 DEF Climbing
    <3>2. n < k => n + 1 \in 1 .. k /\ n < k + l
      BY <2>1
    <3>3. QED
      BY <1>2, <2>1, <3>1, <3>2
  <2>2. ASSUME NEW m \in 1 .. l, n = k + m PROVE r[n] = 1 \/ (n < k + l /\ r[n + 1] = r[n] \div 2)
    <3>1. t[m] = 1 \/ (m < l /\ t[m + 1] = t[m] \div 2)
      BY <1>1 DEF Climbing
    <3>2. m < l => m + 1 \in 1 .. l /\ n < k + l /\ n + 1 = k + (m + 1)
      BY <2>2
    <3>3. QED
      BY <1>2, <2>2, <3>1, <3>2
  <2>3. QED
    BY <1>2, <2>1, <2>2
<1>4. QED
  BY <1>1, <1>2, <1>3 DEF Climbing

LEMMA AncestorsClimb ==
  ASSUME NEW v \in Node
  PROVE  /\ Climbing(Ancestors[v])
         /\ v = 1 => Ancestors[v] = <<>>
         /\ v # 1 => Len(Ancestors[v]) \in Nat \ {0} /\ Ancestors[v][1] = v \div 2
<1>0. \A u \in Node : u # 1 => u \div 2 \in Internal /\ u \div 2 \in Node /\ u \div 2 < u
  BY NodeFacts
<1>1. PICK S, step : S = Seq(Internal) /\ step = [u \in Node |-> [x \in S |->
                       IF u = 1 THEN <<>> ELSE <<u \div 2>> \o x]]
  OBVIOUS
<1>2. step \in [Node -> [S -> S]] /\ <<>> \in S
  BY <1>0, <1>1
<1>3. PICK f \in [Node -> S] :
        \A u \in Node : f[u] = IF u = 1 THEN <<>> ELSE step[u][f[u \div 2]]
  <2>1. PICK none \in S : none = <<>>
    BY <1>2
  <2>2. Halving(S, none, step)
    BY <1>2, <2>1 DEF Halving
  <2>3. \E f \in [Node -> S] :
          \A u \in Node : f[u] = IF u = 1 THEN none ELSE step[u][f[u \div 2]]
    BY <2>2, HalvingExists
  <2>4. QED
    BY <2>1, <2>3
<1>4. ASSUME NEW u \in Node PROVE f[u] = IF u = 1 THEN <<>> ELSE <<u \div 2>> \o f[u \div 2]
  BY <1>0, <1>1, <1>3
<1>5. f = [u \in Node |-> IF u = 1 THEN <<>> ELSE <<u \div 2>> \o f[u \div 2]]
  BY <1>4
<1>6. Ancestors = [u \in Node |-> IF u = 1 THEN <<>> ELSE <<u \div 2>> \o Ancestors[u \div 2]]
  BY <1>5 DEF Ancestors
<1> DEFINE Fine(u) ==
             /\ Climbing(Ancestors[u])
             /\ u = 1 => Ancestors[u] = <<>>
             /\ u # 1 => Len(Ancestors[u]) \in Nat \ {0} /\ Ancestors[u][1] = u \div 2
           Q == {u \in Node : Fine(u)}
<1>7. ASSUME NEW u \in Node, \A w \in Node : w < u => w \in Q PROVE u \in Q
  <2>1. CASE u = 1
    <3>1. Ancestors[u] = <<>>
      BY <1>6, <2>1
    <3>2. Climbing(<<>>)
      BY DEF Climbing
    <3>3. QED
      BY <2>1, <3>1, <3>2
  <2>2. CASE u # 1
    <3>1. PICK a, s, r : a = u \div 2 /\ s = Ancestors[a] /\ r = Ancestors[u]
      OBVIOUS
    <3>2. a \in Internal /\ a \in Node /\ a < u
      BY <1>0, <2>2, <3>1
    <3>3. /\ Climbing(s)
          /\ a = 1 => s = <<>>
          /\ a # 1 => Len(s) \in Nat \ {0} /\ s[1] = a \div 2
      BY <1>7, <3>1, <3>2
    <3>4. r = <<a>> \o s
      BY <1>6, <2>2, <3>1
    <3>5. <<a>> \in Seq(Internal) /\ s \in Seq(Internal) /\ Len(<<a>>) = 1 /\ <<a>>[1] = a
      <4>1. s \in Seq(Internal)
        BY <3>3 DEF Climbing
      <4>2. <<a>> \in Seq(Internal) /\ Len(<<a>>) = 1 /\ <<a>>[1] = a
        BY <3>2
      <4>3. QED
        BY <4>1, <4>2
    <3>6. PICK l \in Nat : l = Len(s)
      BY <3>5
    <3>7. /\ r \in Seq(Internal) /\ Len(r) = 1 + l
          /\ \A n \in 1 .. 1 : r[n] = <<a>>[n]
          /\ \A n \in 1 .. l : r[1 + n] = s[n]
          /\ \A n \in 1 .. 1 + l : n \in 1 .. 1 \/ \E m \in 1 .. l : n = 1 + m
      BY <3>4, <3>5, <3>6, ConcatFacts
    <3>8. r[1] = a
      BY <3>5, <3>7
    <3>9. ASSUME NEW n \in 1 .. 1 + l PROVE r[n] = 1 \/ (n < 1 + l /\ r[n + 1] = r[n] \div 2)
      <4>1. CASE n = 1
        <5>1. a # 1 => l > 0 /\ s[1] = a \div 2
          BY <3>3, <3>6
        <5>2. a # 1 => r[1 + 1] = a \div 2
          BY <3>7, <5>1
        <5>3. QED
          BY <3>8, <4>1, <5>1, <5>2
      <4>2. ASSUME NEW m \in 1 .. l, n = 1 + m
            PROVE  r[n] = 1 \/ (n < 1 + l /\ r[n + 1] = r[n] \div 2)
        <5>1. s[m] = 1 \/ (m < l /\ s[m + 1] = s[m] \div 2)
          BY <3>3, <3>6 DEF Climbing
        <5>2. m < l => m + 1 \in 1 .. l /\ n < 1 + l /\ n + 1 = 1 + (m + 1)
          BY <4>2
        <5>3. QED
          BY <3>7, <4>2, <5>1, <5>2
      <4>3. QED
        BY <3>7, <4>1, <4>2
    <3>10. Climbing(r)
      BY <3>7, <3>9 DEF Climbing
    <3>11. QED
      BY <2>2, <3>1, <3>7, <3>8, <3>10
  <2>3. QED
    BY <2>1, <2>2
<1>8. Node \subseteq Q
  <2>1. Node \in SUBSET Nat
    BY NodeFacts
  <2> HIDE DEF Q
  <2>2. QED
    BY <1>7, <2>1, StrongInduction
<1>9. QED
  BY <1>8

LEMMA ClimbsClimb ==
  ASSUME NEW v \in Node
  PROVE  /\ Climbing(Climbs[v])
         /\ v = 1 => Climbs[v] = <<>>
         /\ v # 1 => Len(Climbs[v]) \in Nat \ {0} /\ Climbs[v][1] = v \div 2
<1>0. \A u \in Node : u # 1 => u \div 2 \in Internal /\ u \div 2 \in Node /\ u \div 2 < u
  BY NodeFacts
<1>a. \A u \in Node : Ancestors[u] \in Seq(Internal)
  BY AncestorsClimb DEF Climbing
<1>1. PICK S, step : S = Seq(Internal) /\ step = [u \in Node |-> [x \in S |-> Ancestors[u] \o x]]
  OBVIOUS
<1>2. step \in [Node -> [S -> S]] /\ <<>> \in S
  BY <1>a, <1>1
<1>3. PICK f \in [Node -> S] :
        \A u \in Node : f[u] = IF u = 1 THEN <<>> ELSE step[u][f[u \div 2]]
  <2>1. PICK none \in S : none = <<>>
    BY <1>2
  <2>2. Halving(S, none, step)
    BY <1>2, <2>1 DEF Halving
  <2>3. \E f \in [Node -> S] :
          \A u \in Node : f[u] = IF u = 1 THEN none ELSE step[u][f[u \div 2]]
    BY <2>2, HalvingExists
  <2>4. QED
    BY <2>1, <2>3
<1>4. ASSUME NEW u \in Node PROVE f[u] = IF u = 1 THEN <<>> ELSE Ancestors[u] \o f[u \div 2]
  BY <1>0, <1>1, <1>3
<1>5. f = [u \in Node |-> IF u = 1 THEN <<>> ELSE Ancestors[u] \o f[u \div 2]]
  BY <1>4
<1>6. Climbs = [u \in Node |-> IF u = 1 THEN <<>> ELSE Ancestors[u] \o Climbs[u \div 2]]
  BY <1>5 DEF Climbs
<1> DEFINE Fine(u) ==
             /\ Climbing(Climbs[u])
             /\ u = 1 => Climbs[u] = <<>>
             /\ u # 1 => Len(Climbs[u]) \in Nat \ {0} /\ Climbs[u][1] = u \div 2
           Q == {u \in Node : Fine(u)}
<1>7. ASSUME NEW u \in Node, \A w \in Node : w < u => w \in Q PROVE u \in Q
  <2>1. CASE u = 1
    <3>1. Climbs[u] = <<>>
      BY <1>6, <2>1
    <3>2. Climbing(<<>>)
      BY DEF Climbing
    <3>3. QED
      BY <2>1, <3>1, <3>2
  <2>2. CASE u # 1
    <3>1. PICK s, t, r : s = Ancestors[u] /\ t = Climbs[u \div 2] /\ r = Climbs[u]
      OBVIOUS
    <3>2. Climbing(s) /\ Climbing(t) /\ r = s \o t
      BY <1>0, <1>6, <1>7, <2>2, <3>1, AncestorsClimb
    <3>3. Climbing(r)
      BY <3>2, ConcatClimbs
    <3>4. PICK k \in Nat \ {0}, l \in Nat : k = Len(s) /\ l = Len(t) /\ s[1] = u \div 2
      BY <2>2, <3>1, <3>2, AncestorsClimb DEF Climbing
    <3>5. Len(r) = k + l /\ \A n \in 1 .. k : r[n] = s[n]
      BY <3>2, <3>4, ConcatFacts DEF Climbing
    <3>6. Len(r) \in Nat \ {0} /\ r[1] = u \div 2
      BY <3>4, <3>5
    <3>7. QED
      BY <2>2, <3>1, <3>3, <3>6
  <2>3. QED
    BY <2>1, <2>2
<1>8. Node \subseteq Q
  <2>1. Node \in SUBSET Nat
    BY NodeFacts
  <2> HIDE DEF Q
  <2>2. QED
    BY <1>7, <2>1, StrongInduction
<1>9. QED
  BY <1>8

(* Who is above a node, is above it through one of his children. *)
LEMMA UpByChild ==
  ASSUME NEW v \in Node, NEW q \in Node, v \in Up[q], v # q
  PROVE  v \in Internal /\ (Left(v) \in Up[q] \/ Right(v) \in Up[q])
<1> DEFINE Q == {x \in Node : v \in Up[x] /\ v # x =>
                   v \in Internal /\ (Left(v) \in Up[x] \/ Right(v) \in Up[x])}
<1>1. ASSUME NEW x \in Node, \A y \in Node : y < x => y \in Q PROVE x \in Q
  <2> SUFFICES ASSUME v \in Up[x], v # x
               PROVE  v \in Internal /\ (Left(v) \in Up[x] \/ Right(v) \in Up[x])
    OBVIOUS
  <2>1. x # 1 /\ v \in Up[x \div 2]
    BY UpFacts
  <2>2. /\ x \div 2 \in Internal /\ x \div 2 \in Node /\ x \div 2 < x
        /\ x = Left(x \div 2) \/ x = Right(x \div 2)
    BY <2>1, NodeFacts
  <2>3. Up[x] = {x} \cup Up[x \div 2]
    BY <2>1, UpStep
  <2>4. CASE v = x \div 2
    BY <2>2, <2>3, <2>4
  <2>5. CASE v # x \div 2
    BY <1>1, <2>1, <2>2, <2>3, <2>5
  <2>6. QED
    BY <2>4, <2>5
<1>2. Node \subseteq Q
  <2>1. Node \in SUBSET Nat
    BY NodeFacts
  <2> HIDE DEF Q
  <2>2. QED
    BY <1>1, <2>1, StrongInduction
<1>3. QED
  BY <1>2

LEMMA PostOrderStep ==
  ASSUME NEW v \in Node
  PROVE  /\ PostOrder[v] \in Seq(Internal)
         /\ v \in Leaves => PostOrder[v] = <<>>
         /\ v \notin Leaves => PostOrder[v] = PostOrder[Left(v)] \o PostOrder[Right(v)] \o <<v>>
<1>1. PICK P : TreeOf(P)
  BY TreeFacts
<1>2. /\ P \in Nat \ {0} /\ Node = 1 .. 2 * P - 1 /\ Internal = 1 .. P - 1
      /\ Leaves = P .. 2 * P - 1
  BY <1>1 DEF TreeOf
<1> DEFINE S == Seq(Internal)
           Correct(f, u) == f[u] = IF u \in Leaves THEN <<>>
                                   ELSE f[Left(u)] \o f[Right(u)] \o <<u>>
           Q == {n \in Nat : \E f \in [Node -> S] : \A u \in Node : u > P - 1 - n => Correct(f, u)}
<1>3. \A u \in Node : u \notin Leaves =>
        /\ u \in Internal /\ Left(u) \in Node /\ Right(u) \in Node
        /\ u \in Int /\ u < P /\ Left(u) > u /\ Right(u) > u
  BY <1>2 DEF Left, Right
<1>4. 0 \in Q
  <2>1. [u \in Node |-> <<>>] \in [Node -> S]
    OBVIOUS
  <2>2. \A u \in Node : u > P - 1 - 0 => u \in Leaves
    BY <1>2
  <2>3. \A u \in Node : u > P - 1 - 0 => Correct([w \in Node |-> <<>>], u)
    BY <2>2
  <2>4. QED
    BY <2>1, <2>3
<1>5. ASSUME NEW n \in Nat, n \in Q PROVE n + 1 \in Q
  <2>1. PICK f \in [Node -> S] : \A u \in Node : u > P - 1 - n => Correct(f, u)
    BY <1>5
  <2>2. PICK a \in Int : a = P - 1 - n
    BY <1>2
  <2>3. \A u \in Node : u > P - 1 - (n + 1) => u = a \/ u > P - 1 - n
    BY <1>2, <2>2
  <2>4. CASE a \notin Node
    <3>1. \A u \in Node : u > P - 1 - (n + 1) => Correct(f, u)
      BY <2>1, <2>3, <2>4
    <3> HIDE DEF Correct
    <3>2. QED
      BY <2>1, <3>1
  <2>5. CASE a \in Node
    <3>1. a \notin Leaves /\ a < P /\ a \in Internal
      BY <1>2, <2>2, <2>5
    <3>2. PICK s, t, x : s = f[Left(a)] /\ t = f[Right(a)] /\ x = s \o t \o <<a>>
      OBVIOUS
    <3>3. x \in S
      <4>1. s \in Seq(Internal) /\ t \in Seq(Internal) /\ <<a>> \in Seq(Internal)
        BY <1>3, <2>1, <2>5, <3>1, <3>2
      <4>2. QED
        BY <3>2, <4>1
    <3>4. PICK g : g = [f EXCEPT ![a] = x]
      OBVIOUS
    <3>5. g \in [Node -> S] /\ g[a] = x /\ \A u \in Node : u # a => g[u] = f[u]
      BY <2>1, <2>5, <3>3, <3>4
    <3>6. ASSUME NEW u \in Node, u > P - 1 - (n + 1) PROVE Correct(g, u)
      <4>1. u = a \/ u > a
        BY <2>2, <2>3, <3>6
      <4>2. u \notin Leaves => g[Left(u)] = f[Left(u)] /\ g[Right(u)] = f[Right(u)]
        <5> SUFFICES ASSUME u \notin Leaves
                     PROVE  g[Left(u)] = f[Left(u)] /\ g[Right(u)] = f[Right(u)]
          OBVIOUS
        <5>0. Left(u) \in Node /\ Right(u) \in Node /\ Node \subseteq Int
          BY <1>2, <1>3
        <5>1. PICK b \in Int, c \in Int : b = Left(u) /\ c = Right(u) /\ b \in Node /\ c \in Node
          BY <5>0
        <5>2. b > u /\ c > u /\ u \in Int
          BY <1>3, <5>1
        <5>3. b # a /\ c # a
          BY <4>1, <5>2
        <5>4. QED
          BY <3>5, <5>1, <5>3
      <4>3. CASE u = a
        BY <3>1, <3>2, <3>5, <4>2, <4>3
      <4>4. CASE u > a
        <5>0. u > P - 1 - n /\ u # a
          BY <2>2, <4>4
        <5>1. Correct(f, u) /\ u # a
          BY <2>1, <5>0
        <5>2. g[u] = f[u]
          BY <3>5, <5>1
        <5>3. QED
          BY <4>2, <5>1, <5>2
      <4>5. QED
        BY <4>1, <4>3, <4>4
    <3>7. g \in [Node -> S] /\ \A u \in Node : u > P - 1 - (n + 1) => Correct(g, u)
      BY <3>5, <3>6
    <3> HIDE DEF Correct
    <3>8. QED
      BY <3>7
  <2>6. QED
    BY <2>4, <2>5
<1>6. Nat \subseteq Q
  <2> HIDE DEF Q
  <2>1. QED
    BY <1>4, <1>5, NaturalInduction
<1>7. PICK f \in [Node -> S] : \A u \in Node : u > P - 1 - P => Correct(f, u)
  <2>1. P \in Q
    BY <1>2, <1>6
  <2>2. QED
    BY <2>1
<1>8. \A u \in Node : u > P - 1 - P
  BY <1>2
<1>9. f = [u \in Node |-> IF u \in Leaves THEN <<>> ELSE f[Left(u)] \o f[Right(u)] \o <<u>>]
  BY <1>7, <1>8
<1>10. PostOrder = [u \in Node |-> IF u \in Leaves THEN <<>>
                                   ELSE PostOrder[Left(u)] \o PostOrder[Right(u)] \o <<u>>]
  BY <1>9 DEF PostOrder
<1> DEFINE R == {u \in Node : PostOrder[u] \in Seq(Internal)}
<1>11. ASSUME NEW u \in Node, \A w \in Node : w > u => w \in R PROVE u \in R
  <2>1. CASE u \in Leaves
    BY <1>10, <2>1
  <2>2. CASE u \notin Leaves
    <3>1. PICK s, t : s = PostOrder[Left(u)] /\ t = PostOrder[Right(u)]
      OBVIOUS
    <3>2. s \in Seq(Internal) /\ t \in Seq(Internal) /\ <<u>> \in Seq(Internal)
      BY <1>3, <1>11, <2>2, <3>1
    <3>3. PostOrder[u] = s \o t \o <<u>>
      BY <1>10, <2>2, <3>1
    <3>4. s \o t \o <<u>> \in Seq(Internal)
      BY <3>2
    <3>5. QED
      BY <3>3, <3>4
  <2>3. QED
    BY <2>1, <2>2
<1>12. Node \subseteq R
  <2>1. PICK N \in Nat : Node \in SUBSET (0 .. N)
    BY NodesAreFinite
  <2> HIDE DEF R
  <2>2. QED
    BY <1>11, <2>1, DownwardInduction
<1>13. QED
  BY <1>10, <1>12

(* finalize_bloom_filters merges every inner node, children before parents.*)
LEMMA PostOrderFacts ==
  /\ Rising(PostOrder[1])
  /\ \A q \in Internal : \E n \in 1 .. Len(PostOrder[1]) : PostOrder[1][n] = q
<1> DEFINE Good(s, v) ==
             /\ s \in Seq(Internal)
             /\ \A n \in 1 .. Len(s) : s[n] = v \/ \E m \in n + 1 .. Len(s) : s[m] = s[n] \div 2
             /\ \A q \in Internal : v \in Up[q] => \E n \in 1 .. Len(s) : s[n] = q
           Q == {v \in Node : Good(PostOrder[v], v)}
<1>1. ASSUME NEW v \in Node, \A w \in Node : w > v => w \in Q PROVE v \in Q
  <2>1. CASE v \in Leaves
    <3>1. PostOrder[v] = <<>>
      BY <2>1, PostOrderStep
    <3>2. \A q \in Internal : v \notin Up[q]
      <4>1. PICK P : TreeOf(P)
        BY TreeFacts
      <4>2. P \in Nat \ {0} /\ Internal = 1 .. P - 1 /\ Leaves = P .. 2 * P - 1
        BY <4>1 DEF TreeOf
      <4>3. \A q \in Internal : q < v
        BY <2>1, <4>2
      <4>4. \A q \in Internal : v \in Up[q] => v <= q
        BY UpFacts, NodeFacts
      <4>5. QED
        BY <2>1, <4>2, <4>3, <4>4
    <3>3. Good(<<>>, v)
      BY <3>2
    <3>4. QED
      BY <3>1, <3>3
  <2>2. CASE v \notin Leaves
    <3>1. PICK a, b, s, t, r :
            /\ a = Left(v) /\ b = Right(v)
            /\ s = PostOrder[a] /\ t = PostOrder[b] /\ r = PostOrder[v]
      OBVIOUS
    <3>2. /\ v \in Internal /\ a \in Node /\ b \in Node /\ a > v /\ b > v
          /\ a \div 2 = v /\ b \div 2 = v
      <4>1. v \in Internal /\ a \in Node /\ b \in Node /\ a \div 2 = v /\ b \div 2 = v
        BY <2>2, <3>1, NodeFacts
      <4>2. v \in Nat \ {0}
        BY NodeFacts
      <4>3. QED
        BY <3>1, <4>1, <4>2 DEF Left, Right
    <3>3. Good(s, a) /\ Good(t, b)
      BY <1>1, <3>1, <3>2
    <3>4. r = s \o t \o <<v>>
      BY <2>2, <3>1, PostOrderStep
    <3>5. PICK k \in Nat, l \in Nat : k = Len(s) /\ l = Len(t)
      <4>1. Len(s) \in Nat /\ Len(t) \in Nat
        BY <3>3
      <4>2. QED
        BY <4>1
    <3>6. /\ r \in Seq(Internal) /\ Len(r) = k + l + 1
          /\ \A n \in 1 .. k : r[n] = s[n]
          /\ \A n \in 1 .. l : r[k + n] = t[n]
          /\ r[k + l + 1] = v
      <4>1. s \in Seq(Internal) /\ t \in Seq(Internal) /\ <<v>> \in Seq(Internal)
            /\ Len(<<v>>) = 1 /\ <<v>>[1] = v
        BY <3>2, <3>3
      <4>2. PICK c, w : c = s \o t /\ w = <<v>>
        OBVIOUS
      <4>3. /\ c \in Seq(Internal) /\ Len(c) = k + l
            /\ \A n \in 1 .. k : c[n] = s[n]
            /\ \A n \in 1 .. l : c[k + n] = t[n]
        BY <3>5, <4>1, <4>2, ConcatFacts
      <4>4. r = c \o w /\ w \in Seq(Internal) /\ Len(w) = 1 /\ w[1] = v
        BY <3>4, <4>1, <4>2
      <4>5. /\ r \in Seq(Internal) /\ Len(r) = k + l + 1
            /\ \A n \in 1 .. k + l : r[n] = c[n]
            /\ \A n \in 1 .. Len(w) : r[Len(c) + n] = w[n]
        <5>1. /\ r \in Seq(Internal) /\ Len(r) = Len(c) + Len(w)
              /\ \A n \in 1 .. Len(c) : r[n] = c[n]
              /\ \A n \in 1 .. Len(w) : r[Len(c) + n] = w[n]
          <6>1. c \in Seq(Internal) /\ w \in Seq(Internal)
            BY <4>3, <4>4
          <6>2. /\ c \o w \in Seq(Internal) /\ Len(c \o w) = Len(c) + Len(w)
                /\ \A n \in 1 .. Len(c) : (c \o w)[n] = c[n]
                /\ \A n \in 1 .. Len(w) : (c \o w)[Len(c) + n] = w[n]
            BY <6>1, ConcatFacts
          <6>3. QED
            BY <4>4, <6>2
        <5>2. QED
          BY <4>3, <4>4, <5>1
      <4>6. \A n \in 1 .. k : n \in 1 .. k + l
        OBVIOUS
      <4>7. \A n \in 1 .. l : k + n \in 1 .. k + l
        OBVIOUS
      <4>8. QED
        <5>1. r[k + l + 1] = v
          BY <4>3, <4>4, <4>5
        <5>2. QED
          BY <4>3, <4>5, <4>6, <4>7, <5>1
    <3>7. \A n \in 1 .. k + l + 1 : \/ n \in 1 .. k \/ n = k + l + 1
                                    \/ \E m \in 1 .. l : n = k + m
      <4> SUFFICES ASSUME NEW n \in 1 .. k + l + 1, n \notin 1 .. k, n # k + l + 1
                   PROVE  \E m \in 1 .. l : n = k + m
        OBVIOUS
      <4>1. n - k \in 1 .. l /\ n = k + (n - k)
        OBVIOUS
      <4>2. QED
        BY <4>1
    <3>8. ASSUME NEW n \in 1 .. k + l + 1
          PROVE  r[n] = v \/ \E m \in n + 1 .. k + l + 1 : r[m] = r[n] \div 2
      <4>1. CASE n \in 1 .. k
        <5>1. CASE s[n] = a
          <6>1. k + l + 1 \in n + 1 .. k + l + 1
            BY <4>1
          <6>2. QED
            BY <3>2, <3>6, <4>1, <5>1, <6>1
        <5>2. CASE s[n] # a
          <6>1. PICK m \in n + 1 .. k : s[m] = s[n] \div 2
            BY <3>3, <3>5, <4>1, <5>2
          <6>2. m \in 1 .. k /\ m \in n + 1 .. k + l + 1
            BY <4>1
          <6>3. QED
            BY <3>6, <4>1, <6>1, <6>2
        <5>3. QED
          BY <5>1, <5>2
      <4>2. ASSUME NEW i \in 1 .. l, n = k + i
            PROVE  r[n] = v \/ \E m \in n + 1 .. k + l + 1 : r[m] = r[n] \div 2
        <5>1. CASE t[i] = b
          <6>1. k + l + 1 \in n + 1 .. k + l + 1
            BY <4>2
          <6>2. QED
            BY <3>2, <3>6, <4>2, <5>1, <6>1
        <5>2. CASE t[i] # b
          <6>1. PICK m \in i + 1 .. l : t[m] = t[i] \div 2
            BY <3>3, <3>5, <5>2
          <6>2. m \in 1 .. l /\ k + m \in n + 1 .. k + l + 1
            BY <4>2
          <6>3. QED
            BY <3>6, <4>2, <6>1, <6>2
        <5>3. QED
          BY <5>1, <5>2
      <4>3. QED
        BY <3>6, <3>7, <4>1, <4>2
    <3>9. ASSUME NEW q \in Internal, v \in Up[q] PROVE \E n \in 1 .. k + l + 1 : r[n] = q
      <4>1. CASE q = v
        <5>1. k + l + 1 \in 1 .. k + l + 1
          OBVIOUS
        <5>2. QED
          BY <3>6, <4>1, <5>1
      <4>2. CASE q # v
        <5>1. a \in Up[q] \/ b \in Up[q]
          BY <3>1, <3>9, <4>2, UpByChild, NodeFacts
        <5>2. CASE a \in Up[q]
          <6>1. PICK n \in 1 .. k : s[n] = q
            BY <3>3, <3>5, <5>2
          <6>2. n \in 1 .. k + l + 1
            OBVIOUS
          <6>3. QED
            BY <3>6, <6>1, <6>2
        <5>3. CASE b \in Up[q]
          <6>1. PICK n \in 1 .. l : t[n] = q
            BY <3>3, <3>5, <5>3
          <6>2. k + n \in 1 .. k + l + 1
            OBVIOUS
          <6>3. QED
            BY <3>6, <6>1, <6>2
        <5>4. QED
          BY <5>1, <5>2, <5>3
      <4>3. QED
        BY <4>1, <4>2
    <3>10. Good(r, v)
      BY <3>6, <3>8, <3>9
    <3>11. QED
      BY <3>1, <3>10
  <2>3. QED
    BY <2>1, <2>2
<1>2. Node \subseteq Q
  <2>1. PICK N \in Nat : Node \in SUBSET (0 .. N)
    BY NodesAreFinite
  <2> HIDE DEF Q
  <2>2. QED
    BY <1>1, <2>1, DownwardInduction
<1>3. 1 \in Node /\ \A q \in Internal : 1 \in Up[q]
  BY UpFacts, NodeFacts
<1>4. Good(PostOrder[1], 1)
  BY <1>2, <1>3
<1>5. QED
  BY <1>3, <1>4 DEF Rising

-----------------------------------------------------------------------------
(* Sharing                                                                 *)

(* Nodes that can come to hold one filter: those that are reached from     *)
(* some node through left edges, and right brothers of these.              *)
Spine(u) == Chain[u] \cup {a + 1 : a \in {b \in Chain[u] : b % 2 = 0}}

(* The holders of o lie on the spine of u, and below a holder on the chain *)
(* that is not one of `up`, all of the chain holds o.                      *)
HeldBelow(ptr, up, o, u) ==
  \A v \in Node : ptr[v] = o =>
    /\ v \in Spine(u)
    /\ v \in Chain[u] \ up => \A a \in Chain[u] : a >= v => ptr[a] = o

Held(ptr, up, o) == \E u \in Node : HeldBelow(ptr, up, o, u)

Summary(ptr, heap, p) == heap[ptr[Left(p)]] \cup heap[ptr[Right(p)]] \subseteq heap[ptr[p]]

(* The two outcomes of UpdateParent. *)
Sharing(ptr, heap, p, ptr2, heap2) ==
  LET l == ptr[Left(p)]
      r == ptr[Right(p)]
  IN /\ ptr2 \in [Node -> Obj] /\ heap2 \in [Obj -> SUBSET Bit]
     /\ \A v \in Node : ptr2[v] = IF v \in {p, Left(p), Right(p)} THEN l ELSE ptr[v]
     /\ \A v \in Node : heap2[ptr2[v]] = IF ptr2[v] = l THEN heap[l] \cup heap[r]
                                         ELSE heap[ptr2[v]]

Renewing(ptr, heap, p, ptr2, heap2) ==
  /\ ptr2 \in [Node -> Obj] /\ heap2 \in [Obj -> SUBSET Bit]
  /\ \A v \in Node : ptr2[p] # ptr[v]
  /\ \A v \in Node \ {p} : ptr2[v] = ptr[v] /\ heap2[ptr2[v]] = heap[ptr[v]]
  /\ heap2[ptr2[p]] = heap[ptr[Left(p)]] \cup heap[ptr[Right(p)]]

(* make_shared finds an object that no node holds. *)
LEMMA FreshIsFree ==
  ASSUME NEW ptr \in [Node -> Obj]
  PROVE  FreshObject(ptr) \in Obj /\ \A v \in Node : FreshObject(ptr) # ptr[v]
<1>1. IsFiniteSet(Node) /\ IsFiniteSet(Obj) /\ Cardinality(Node) < Cardinality(Obj)
  BY ObjAssumption
<1>2. PICK S : S = {ptr[v] : v \in Node}
  OBVIOUS
<1>3. IsFiniteSet(S) /\ Cardinality(S) <= Cardinality(Node)
  <2>1. ptr \in Surjection(Node, S)
    BY <1>2 DEF Surjection
  <2>2. QED
    BY <1>1, <2>1, FS_Surjection
<1>4. S \subseteq Obj /\ Live(ptr) = S
  BY <1>2 DEF Live
<1>5. Cardinality(S) \in Nat /\ Cardinality(Node) \in Nat /\ Cardinality(Obj) \in Nat
  BY <1>1, <1>3, FS_CardinalityType
<1>6. S # Obj
  BY <1>1, <1>3, <1>5
<1>7. \E o \in Obj : o \notin Live(ptr)
  BY <1>4, <1>6
<1>8. FreshObject(ptr) \in Obj /\ FreshObject(ptr) \notin Live(ptr)
  BY <1>7 DEF FreshObject
<1>9. QED
  BY <1>2, <1>4, <1>8

LEMMA UpdateShares ==
  ASSUME NEW p \in Internal, bf \in [Node -> Obj], bits \in [Obj -> SUBSET Bit],
         UpdateParent(p)
  PROVE  Sharing(bf, bits, p, bf', bits') \/ Renewing(bf, bits, p, bf', bits')
<1>1. p \in Node /\ Left(p) \in Node /\ Right(p) \in Node
  BY NodeFacts
<1>2. PICK ptr2, heap2 : ptr2 = bf' /\ heap2 = bits'
  OBVIOUS
<1>3. PICK l, r, o, union :
        /\ l = bf[Left(p)] /\ r = bf[Right(p)] /\ o = FreshObject(bf)
        /\ union = Merged(bits[l], bits[r])
  OBVIOUS
<1>4. l \in Obj /\ r \in Obj /\ o \in Obj /\ union = bits[l] \cup bits[r] /\ union \in SUBSET Bit
      /\ \A v \in Node : o # bf[v]
  BY <1>1, <1>3, FreshIsFree DEF Merged
<1>5. CASE Similar(bits[l], bits[r])
  <2>1. /\ ptr2 = [bf EXCEPT ![p] = l, ![Left(p)] = l, ![Right(p)] = l]
        /\ heap2 = Collect(ptr2, [bits EXCEPT ![l] = union])
    BY <1>2, <1>3, <1>5 DEF UpdateParent
  <2>2. ptr2 \in [Node -> Obj]
        /\ \A v \in Node : ptr2[v] = IF v \in {p, Left(p), Right(p)} THEN l ELSE bf[v]
    BY <1>1, <1>4, <2>1
  <2>3. \A v \in Node : ptr2[v] \in Live(ptr2)
    BY <2>2 DEF Live
  <2>4. heap2 \in [Obj -> SUBSET Bit]
        /\ \A x \in Live(ptr2) : heap2[x] = IF x = l THEN union ELSE bits[x]
    BY <1>4, <2>1 DEF Collect, Live
  <2>5. QED
    BY <1>2, <1>3, <1>4, <2>2, <2>3, <2>4 DEF Sharing
<1>6. CASE ~Similar(bits[l], bits[r])
  <2>1. ptr2 = [bf EXCEPT ![p] = o] /\ heap2 = Collect(ptr2, [bits EXCEPT ![o] = union])
    BY <1>2, <1>3, <1>6 DEF UpdateParent
  <2>2. ptr2 \in [Node -> Obj] /\ ptr2[p] = o /\ \A v \in Node \ {p} : ptr2[v] = bf[v]
    BY <1>1, <1>4, <2>1
  <2>3. \A v \in Node : ptr2[v] \in Live(ptr2)
    BY <2>2 DEF Live
  <2>4. heap2 \in [Obj -> SUBSET Bit]
        /\ \A x \in Live(ptr2) : heap2[x] = IF x = o THEN union ELSE bits[x]
    BY <1>4, <2>1 DEF Collect, Live
  <2>5. \A v \in Node \ {p} : heap2[ptr2[v]] = bits[bf[v]]
    BY <1>4, <2>2, <2>3, <2>4
  <2>6. heap2[ptr2[p]] = union
    BY <1>1, <2>2, <2>3, <2>4
  <2>7. QED
    BY <1>2, <1>3, <1>4, <2>2, <2>4, <2>5, <2>6 DEF Renewing
<1>7. QED
  BY <1>5, <1>6

(* Forgetting what is below fewer nodes is what is known of more of them.  *)
LEMMA HeldWeakens ==
  ASSUME NEW ptr, NEW up, NEW more, up \subseteq more, NEW o, Held(ptr, up, o)
  PROVE  Held(ptr, more, o)
BY DEF Held, HeldBelow

(* A node's children and its place on the chain of another. *)
LEMMA SpineFacts ==
  ASSUME NEW u \in Node, NEW p \in Internal, Left(p) \in Spine(u)
  PROVE  /\ Left(p) \in Chain[u] /\ p \in Chain[u] /\ Right(p) \in Spine(u)
         /\ \A a \in Chain[u] : a < Left(p) => a <= p
<1>1. p \in Nat /\ Left(p) = 2 * p /\ Right(p) = 2 * p + 1 /\ Left(p) \div 2 = p
      /\ Left(p) % 2 = 0
  <2>1. p \in Nat
    BY NodeFacts
  <2>2. QED
    BY <2>1 DEF Left, Right
<1>2. \A a \in Chain[u] : a \in Nat
  BY ChainFacts, NodeFacts
<1>3. \A a \in Chain[u] : a % 2 = 0 => Left(p) # a + 1
  BY <1>1, <1>2
<1>4. Left(p) \in Chain[u]
  BY <1>3 DEF Spine
<1>5. p \in Chain[u]
  BY <1>1, <1>4, ChainFacts
<1>6. Right(p) \in Spine(u)
  BY <1>1, <1>4 DEF Spine
<1>7. \A a \in Chain[u] : a < Left(p) => a <= p
  BY <1>1, <1>4, ChainFacts
<1>8. QED
  BY <1>4, <1>5, <1>6, <1>7

(* A chain goes down by doubling: its nodes below p start with p's left    *)
(* child, and those above are on p's way to the root.                      *)
LEMMA SharingHolds ==
  ASSUME NEW p \in Internal, NEW ptr \in [Node -> Obj], NEW heap, NEW ptr2, NEW heap2,
         Sharing(ptr, heap, p, ptr2, heap2), \A o \in Obj : Held(ptr, Up[p], o)
  PROVE  \A o \in Obj : Held(ptr2, Up[p] \ {p}, o)
<1>1. PICK L, R, l : L = Left(p) /\ R = Right(p) /\ l = ptr[L]
  OBVIOUS
<1>2. /\ p \in Node /\ L \in Node /\ R \in Node /\ l \in Obj /\ p \in Nat /\ L \in Nat /\ L > p
      /\ L \div 2 = p /\ R \div 2 = p /\ L # 1 /\ R # 1
  <2>1. p \in Node /\ L \in Node /\ R \in Node /\ L \div 2 = p /\ R \div 2 = p /\ p \in Nat \ {0}
    BY <1>1, NodeFacts
  <2>2. QED
    BY <1>1, <2>1 DEF Left, Right
<1>3. \A v \in Node : ptr2[v] = IF v \in {p, L, R} THEN l ELSE ptr[v]
  BY <1>1 DEF Sharing
<1>4. ASSUME NEW o \in Obj, o # l PROVE Held(ptr2, Up[p] \ {p}, o)
  <2>1. PICK u \in Node : HeldBelow(ptr, Up[p], o, u)
    BY DEF Held
  <2>2. ASSUME NEW v \in Node, ptr2[v] = o
        PROVE  /\ v \in Spine(u)
               /\ v \in Chain[u] \ (Up[p] \ {p}) => \A a \in Chain[u] : a >= v => ptr2[a] = o
    <3>1. ptr[v] = o /\ v # p
      BY <1>3, <1>4, <2>2
    <3>2. v \in Spine(u)
      BY <2>1, <3>1 DEF HeldBelow
    <3>3. ASSUME v \in Chain[u] \ (Up[p] \ {p}), NEW a \in Chain[u], a >= v
          PROVE  ptr2[a] = o
      <4>1. a \in Node /\ v \in Up[a] /\ v \notin Up[p]
        BY <3>1, <3>3, ChainFacts, NodeFacts
      <4>2. ptr[a] = o
        BY <2>1, <3>1, <3>3, <4>1 DEF HeldBelow
      <4>3. a # p
        BY <4>1
      <4>4. a # L
        BY <1>2, <1>3, <1>4, <2>2, <4>1, UpFacts
      <4>5. a # R
        BY <1>2, <1>3, <1>4, <2>2, <4>1, UpFacts
      <4>6. QED
        BY <1>3, <4>1, <4>2, <4>3, <4>4, <4>5
    <3>4. QED
      BY <3>2, <3>3
  <2>3. QED
    BY <2>2 DEF Held, HeldBelow
<1>5. Held(ptr2, Up[p] \ {p}, l)
  <2>1. PICK u \in Node : HeldBelow(ptr, Up[p], l, u)
    BY <1>2 DEF Held
  <2>2. /\ L \in Chain[u] /\ p \in Chain[u] /\ L \in Spine(u) /\ R \in Spine(u) /\ p \in Spine(u)
        /\ \A a \in Chain[u] : a < L => a <= p
    <3>1. L \in Spine(u)
      BY <1>1, <1>2, <2>1 DEF HeldBelow
    <3>2. QED
      BY <1>1, <3>1, SpineFacts DEF Spine
  <2>3. L \notin Up[p]
    BY <1>2, UpFacts
  <2>4. \A a \in Chain[u] : a >= L => ptr[a] = l
    BY <1>1, <1>2, <2>1, <2>2, <2>3 DEF HeldBelow
  <2>5. ASSUME NEW v \in Node, ptr2[v] = l
        PROVE  /\ v \in Spine(u)
               /\ v \in Chain[u] \ (Up[p] \ {p}) => \A a \in Chain[u] : a >= v => ptr2[a] = l
    <3>1. v \in Spine(u)
      <4>1. v \in {p, L, R} \/ ptr[v] = l
        BY <1>3, <2>5
      <4>2. QED
        BY <2>1, <2>2, <4>1 DEF HeldBelow
    <3>2. ASSUME v \in Chain[u] \ (Up[p] \ {p}), NEW a \in Chain[u], a >= v
          PROVE  ptr2[a] = l
      <4>0. a \in Node /\ a \in Nat /\ v \in Nat
        BY ChainFacts, NodeFacts
      <4>1. v >= p
        <5>1. CASE v < p
          <6>1. v \in Up[p] /\ v # p
            BY <1>2, <2>2, <3>2, <4>0, <5>1, ChainFacts
          <6>2. QED
            BY <3>2, <6>1
        <5>2. QED
          BY <1>2, <4>0, <5>1
      <4>2. a = p \/ a >= L
        BY <1>2, <2>2, <3>2, <4>0, <4>1
      <4>3. QED
        BY <1>3, <2>4, <4>0, <4>2
    <3>3. QED
      BY <3>1, <3>2
  <2>6. QED
    BY <2>5 DEF Held, HeldBelow
<1>6. QED
  BY <1>4, <1>5

LEMMA RenewingHolds ==
  ASSUME NEW p \in Internal, NEW ptr \in [Node -> Obj], NEW heap, NEW ptr2, NEW heap2,
         Renewing(ptr, heap, p, ptr2, heap2), \A o \in Obj : Held(ptr, Up[p], o)
  PROVE  \A o \in Obj : Held(ptr2, Up[p] \ {p}, o)
<1>1. p \in Node
  BY NodeFacts
<1>2. (\A v \in Node : ptr2[p] # ptr[v]) /\ \A v \in Node \ {p} : ptr2[v] = ptr[v]
  BY DEF Renewing
<1>3. ASSUME NEW o \in Obj, o # ptr2[p] PROVE Held(ptr2, Up[p] \ {p}, o)
  <2>1. PICK u \in Node : HeldBelow(ptr, Up[p], o, u)
    BY DEF Held
  <2>2. ASSUME NEW v \in Node, ptr2[v] = o
        PROVE  /\ v \in Spine(u)
               /\ v \in Chain[u] \ (Up[p] \ {p}) => \A a \in Chain[u] : a >= v => ptr2[a] = o
    <3>1. ptr[v] = o /\ v # p
      BY <1>2, <1>3, <2>2
    <3>2. v \in Spine(u)
      BY <2>1, <3>1 DEF HeldBelow
    <3>3. ASSUME v \in Chain[u] \ (Up[p] \ {p}), NEW a \in Chain[u], a >= v
          PROVE  ptr2[a] = o
      <4>1. a \in Node /\ v \in Up[a] /\ v \notin Up[p]
        BY <3>1, <3>3, ChainFacts, NodeFacts
      <4>2. ptr[a] = o /\ a # p
        BY <2>1, <3>1, <3>3, <4>1 DEF HeldBelow
      <4>3. QED
        BY <1>2, <4>1, <4>2
    <3>4. QED
      BY <3>2, <3>3
  <2>3. QED
    BY <2>2 DEF Held, HeldBelow
<1>4. Held(ptr2, Up[p] \ {p}, ptr2[p])
  <2>1. \A v \in Node : ptr2[v] = ptr2[p] => v = p
    BY <1>2
  <2>2. p \in Spine(p) /\ \A a \in Chain[p] : a >= p => a = p
    BY <1>1, ChainFacts, NodeFacts DEF Spine
  <2>3. QED
    BY <1>1, <2>1, <2>2 DEF Held, HeldBelow
<1>5. QED
  BY <1>3, <1>4

(* The parent of a node on a spine is above p, or further down the chain.  *)
LEMMA SpineParents ==
  ASSUME NEW u \in Node, NEW p \in Chain[u], NEW c \in Node, c # 1, c \in Spine(u),
         c \div 2 \notin Up[p]
  PROVE  c \div 2 \in Chain[u] /\ c \div 2 > p
<1>1. p \in Node /\ p \in Nat /\ c \in Nat /\ c \div 2 \in Nat /\ (c % 2 = 0 \/ c % 2 = 1)
  BY ChainFacts, NodeFacts
<1>2. c \div 2 \in Chain[u]
  <2>1. CASE c \in Chain[u]
    <3>1. CASE c % 2 = 0
      BY <2>1, <3>1, ChainFacts
    <3>2. CASE c % 2 = 1
      <4>1. ~(p < c)
        BY <2>1, <3>2, ChainFacts
      <4>2. c \in Up[p]
        BY <1>1, <2>1, <4>1, ChainFacts
      <4>3. QED
        BY <1>1, <4>2, UpFacts
    <3>3. QED
      BY <1>1, <3>1, <3>2
  <2>2. CASE c \notin Chain[u]
    <3>1. PICK b \in Chain[u] : b % 2 = 0 /\ c = b + 1
      BY <2>2 DEF Spine
    <3>2. b \in Nat /\ b \div 2 \in Chain[u]
      BY <3>1, ChainFacts, NodeFacts
    <3>3. c \div 2 = b \div 2
      BY <3>1, <3>2
    <3>4. QED
      BY <3>2, <3>3
  <2>3. QED
    BY <2>1, <2>2
<1>3. c \div 2 > p
  <2>1. CASE c \div 2 <= p
    BY <1>2, <2>1, ChainFacts
  <2>2. QED
    BY <1>1, <2>1
<1>4. QED
  BY <1>2, <1>3

LEMMA SharingSummarises ==
  ASSUME NEW p \in Internal, NEW ptr \in [Node -> Obj], NEW heap \in [Obj -> SUBSET Bit],
         NEW ptr2, NEW heap2,
         Sharing(ptr, heap, p, ptr2, heap2), \A o \in Obj : Held(ptr, Up[p], o),
         \A q \in Internal \ Up[p] : Summary(ptr, heap, q)
  PROVE  /\ \A q \in Internal \ (Up[p] \ {p}) : Summary(ptr2, heap2, q)
         /\ \A v \in Node \ {p} : heap[ptr[v]] \subseteq heap2[ptr2[v]]
<1>1. PICK L, R, l, r :
        L = Left(p) /\ R = Right(p) /\ l = ptr[L] /\ r = ptr[R]
  OBVIOUS
<1>2. /\ p \in Node /\ L \in Node /\ R \in Node /\ l \in Obj /\ r \in Obj /\ p \in Nat
      /\ L > p /\ L \in Nat /\ L # p /\ R # p /\ L \div 2 = p /\ R \div 2 = p
  <2>1. p \in Node /\ L \in Node /\ R \in Node /\ L \div 2 = p /\ R \div 2 = p /\ p \in Nat \ {0}
    BY <1>1, NodeFacts
  <2>2. QED
    BY <1>1, <2>1 DEF Left, Right
<1>3. /\ \A v \in Node : ptr2[v] = IF v \in {p, L, R} THEN l ELSE ptr[v]
      /\ \A v \in Node : heap2[ptr2[v]] = IF ptr2[v] = l THEN heap[l] \cup heap[r]
                                          ELSE heap[ptr2[v]]
  BY <1>1 DEF Sharing
<1>4. ASSUME NEW v \in Node \ {p} PROVE heap[ptr[v]] \subseteq heap2[ptr2[v]]
  <2>1. CASE v \in {L, R}
    BY <1>1, <1>2, <1>3, <2>1
  <2>2. CASE v \notin {L, R}
    <3>1. ptr2[v] = ptr[v]
      BY <1>3, <2>2
    <3>2. QED
      BY <1>3, <3>1
  <2>3. QED
    BY <2>1, <2>2
<1>5. ASSUME NEW q \in Internal \ (Up[p] \ {p}) PROVE Summary(ptr2, heap2, q)
  <2>1. CASE q = p
    <3>1. ptr2[p] = l /\ ptr2[L] = l /\ ptr2[R] = l
      BY <1>2, <1>3
    <3>2. QED
      BY <1>1, <2>1, <3>1 DEF Summary
  <2>2. CASE q # p
    <3>1. q \in Node /\ Left(q) \in Node /\ Right(q) \in Node /\ Left(q) # 1 /\ Right(q) # 1
          /\ Left(q) \div 2 = q /\ Right(q) \div 2 = q
      <4>1. q \in Node /\ Left(q) \in Node /\ Right(q) \in Node
            /\ Left(q) \div 2 = q /\ Right(q) \div 2 = q /\ q \in Nat \ {0}
        BY NodeFacts
      <4>2. QED
        BY <4>1 DEF Left, Right
    <3>2. q \notin Up[p] /\ heap[ptr[q]] \subseteq heap2[ptr2[q]]
      BY <1>4, <2>2, <3>1
    <3>3. ASSUME NEW c \in Node, c # 1, c \div 2 = q, heap[ptr[c]] \subseteq heap[ptr[q]]
          PROVE  heap2[ptr2[c]] \subseteq heap2[ptr2[q]]
      <4>1. c # p
        <5>1. p # 1 => p \div 2 \in Up[p]
          BY <1>2, UpFacts, UpStep
        <5>2. QED
          BY <3>2, <3>3, <5>1
      <4>2. c \notin {L, R} /\ ptr2[c] = ptr[c]
        BY <1>2, <1>3, <2>2, <3>3, <4>1
      <4>3. CASE ptr[c] # l
        <5>1. heap2[ptr2[c]] = heap[ptr[c]]
          BY <1>3, <4>2, <4>3
        <5>2. QED
          BY <3>2, <3>3, <5>1
      <4>4. CASE ptr[c] = l
        <5>1. PICK u \in Node : HeldBelow(ptr, Up[p], l, u)
          BY <1>2 DEF Held
        <5>2. L \in Spine(u) /\ c \in Spine(u)
          BY <1>1, <1>2, <4>4, <5>1 DEF HeldBelow
        <5>3. L \in Chain[u] /\ p \in Chain[u] /\ \A a \in Chain[u] : a < L => a <= p
          BY <1>1, <5>2, SpineFacts
        <5>4. q \in Chain[u] /\ q > p
          BY <3>2, <3>3, <5>2, <5>3, SpineParents
        <5>5. q >= L
          <6>1. q \in Nat
            BY NodeFacts
          <6>2. QED
            BY <1>2, <5>3, <5>4, <6>1
        <5>6. L \notin Up[p]
          BY <1>2, UpFacts
        <5>7. ptr[q] = l
          BY <1>1, <1>2, <5>1, <5>3, <5>4, <5>5, <5>6 DEF HeldBelow
        <5>8. ptr2[q] = l
          BY <1>3, <3>1, <5>7
        <5>9. QED
          BY <4>2, <4>4, <5>8
      <4>5. QED
        BY <4>3, <4>4
    <3>4. heap[ptr[Left(q)]] \subseteq heap[ptr[q]] /\ heap[ptr[Right(q)]] \subseteq heap[ptr[q]]
      BY <3>2 DEF Summary
    <3>5. heap2[ptr2[Left(q)]] \subseteq heap2[ptr2[q]] /\ heap2[ptr2[Right(q)]] \subseteq heap2[ptr2[q]]
      BY <3>1, <3>3, <3>4
    <3>6. QED
      BY <3>5 DEF Summary
  <2>3. QED
    BY <2>1, <2>2
<1>6. QED
  BY <1>4, <1>5

LEMMA RenewingSummarises ==
  ASSUME NEW p \in Internal, NEW ptr \in [Node -> Obj], NEW heap \in [Obj -> SUBSET Bit],
         NEW ptr2, NEW heap2,
         Renewing(ptr, heap, p, ptr2, heap2),
         \A q \in Internal \ Up[p] : Summary(ptr, heap, q)
  PROVE  /\ \A q \in Internal \ (Up[p] \ {p}) : Summary(ptr2, heap2, q)
         /\ \A v \in Node \ {p} : heap[ptr[v]] \subseteq heap2[ptr2[v]]
<1>1. /\ \A v \in Node \ {p} : heap2[ptr2[v]] = heap[ptr[v]]
      /\ heap2[ptr2[p]] = heap[ptr[Left(p)]] \cup heap[ptr[Right(p)]]
  BY DEF Renewing
<1>2. \A q \in Internal : /\ q \in Node /\ Left(q) \in Node /\ Right(q) \in Node
                          /\ Left(q) \div 2 = q /\ Right(q) \div 2 = q
                          /\ Left(q) # q /\ Right(q) # q /\ Left(q) # 1 /\ Right(q) # 1
  <2> SUFFICES ASSUME NEW q \in Internal
               PROVE  /\ q \in Node /\ Left(q) \in Node /\ Right(q) \in Node
                      /\ Left(q) \div 2 = q /\ Right(q) \div 2 = q
                      /\ Left(q) # q /\ Right(q) # q /\ Left(q) # 1 /\ Right(q) # 1
    OBVIOUS
  <2>1. q \in Node /\ Left(q) \in Node /\ Right(q) \in Node
        /\ Left(q) \div 2 = q /\ Right(q) \div 2 = q /\ q \in Nat \ {0}
    BY NodeFacts
  <2>2. Left(q) # q /\ Right(q) # q /\ Left(q) # 1 /\ Right(q) # 1
    BY <2>1 DEF Left, Right
  <2>3. QED
    BY <2>1, <2>2
<1>3. ASSUME NEW q \in Internal \ (Up[p] \ {p}) PROVE Summary(ptr2, heap2, q)
  <2>1. CASE q = p
    <3>1. heap2[ptr2[Left(p)]] = heap[ptr[Left(p)]] /\ heap2[ptr2[Right(p)]] = heap[ptr[Right(p)]]
      BY <1>1, <1>2
    <3>2. QED
      BY <1>1, <2>1, <3>1 DEF Summary
  <2>2. CASE q # p
    <3>1. q \notin Up[p]
      BY <2>2
    <3>2. p # 1 => p \div 2 \in Up[p]
      BY <1>2, UpFacts, UpStep
    <3>3. Left(q) # p /\ Right(q) # p
      BY <1>2, <3>1, <3>2
    <3>4. /\ heap2[ptr2[q]] = heap[ptr[q]]
          /\ heap2[ptr2[Left(q)]] = heap[ptr[Left(q)]]
          /\ heap2[ptr2[Right(q)]] = heap[ptr[Right(q)]]
      BY <1>1, <1>2, <2>2, <3>3
    <3>5. QED
      BY <3>1, <3>4 DEF Summary
  <2>3. QED
    BY <2>1, <2>2
<1>4. QED
  BY <1>1, <1>3

Growing(ptr, heap, w, h, heap2) ==
  /\ ptr \in [Node -> Obj] /\ heap \in [Obj -> SUBSET Bit]
  /\ heap2 = [heap EXCEPT ![ptr[w]] = @ \cup h]
  /\ \A o \in Obj : Held(ptr, {}, o)
  /\ \A q \in Internal : Summary(ptr, heap, q)

(* A leaf's filter grows: its holders' parents are above the leaf. *)
LEMMA GrowingSummarises ==
  ASSUME NEW w \in Leaves, NEW ptr, NEW heap, NEW h, NEW heap2,
         Growing(ptr, heap, w, h, heap2)
  PROVE  \A q \in Internal : (w # 1 /\ q \in Up[w \div 2]) \/ Summary(ptr, heap2, q)
<1> USE DEF Growing
<1>1. PICK l : l = ptr[w]
  OBVIOUS
<1>2. w \in Node /\ l \in Obj
  BY <1>1, NodeFacts
<1>3. \A o \in Obj : heap2[o] = IF o = l THEN heap[o] \cup h ELSE heap[o]
  BY <1>1, <1>2
<1>4. PICK u \in Node : HeldBelow(ptr, {}, l, u)
  BY <1>2 DEF Held
<1>5. PICK x \in Leaves : x \in Chain[u] /\ x \div 2 = w \div 2 /\ (x = 1 <=> w = 1)
  <2>1. w \in Spine(u)
    BY <1>1, <1>2, <1>4 DEF HeldBelow
  <2>2. CASE w \notin Chain[u]
    <3>1. PICK b \in Chain[u] : b % 2 = 0 /\ w = b + 1
      BY <2>1, <2>2 DEF Spine
    <3>2. PICK P : TreeOf(P)
      BY TreeFacts
    <3>3. P \in Nat \ {0} /\ Leaves = P .. 2 * P - 1 /\ Node = 1 .. 2 * P - 1
      BY <3>2 DEF TreeOf
    <3>4. b \in Node
      BY ChainFacts
    <3>5. b \div 2 = w \div 2 /\ b # 1 /\ w # 1
      BY <3>1, <3>3, <3>4
    <3>6. b \in Leaves
      <4>1. PICK k \in Nat : k = Height
        BY HeightAssumption
      <4>2. CASE P = b + 1
        <5>1. Height = 0
          <6>1. CASE Height # 0
            <7>1. Height - 1 \in 0 .. Height /\ Power[Height] = 2 * Power[Height - 1]
                  /\ Power[Height - 1] \in Nat
              <8>1. k - 1 \in 0 .. k /\ (k - 1) + 1 = k /\ k - 1 \in 0 .. k + 1
                BY <4>1, <6>1
              <8>2. Power[(k - 1) + 1] = 2 * Power[k - 1] /\ Power[k - 1] \in Nat
                BY <4>1, <8>1, PowerFacts
              <8>3. QED
                BY <4>1, <8>1, <8>2
            <7>2. PICK y \in Nat : P = 2 * y
              BY <3>2, <7>1 DEF TreeOf
            <7>3. QED
              BY <3>1, <3>3, <3>4, <4>2, <7>2
          <6>2. QED
            BY <6>1
        <5>2. P = 1
          BY <3>2, <5>1, PowerFacts DEF TreeOf
        <5>3. QED
          BY <3>3, <3>4, <4>2, <5>2
      <4>3. CASE P # b + 1
        BY <3>1, <3>3, <3>4, <4>3
      <4>4. QED
        BY <4>2, <4>3
    <3>7. QED
      BY <3>1, <3>5, <3>6
  <2>3. QED
    BY <2>2
<1>6. ASSUME NEW q \in Internal, ~(w # 1 /\ q \in Up[w \div 2]) PROVE Summary(ptr, heap2, q)
  <2>0. /\ q \in Node /\ Left(q) \in Node /\ Right(q) \in Node /\ Left(q) # 1 /\ Right(q) # 1
        /\ Left(q) \div 2 = q /\ Right(q) \div 2 = q /\ x \in Node
    <3>1. q \in Node /\ Left(q) \in Node /\ Right(q) \in Node /\ x \in Node
          /\ Left(q) \div 2 = q /\ Right(q) \div 2 = q /\ q \in Nat \ {0}
      BY NodeFacts
    <3>2. QED
      BY <3>1 DEF Left, Right
  <2>1. q < x
    <3>1. PICK P : TreeOf(P)
      BY TreeFacts
    <3>2. P \in Nat \ {0} /\ Leaves = P .. 2 * P - 1 /\ Internal = 1 .. P - 1
      BY <3>1 DEF TreeOf
    <3>3. QED
      BY <3>2
  <2>2. q \notin Up[x]
    <3>1. q # x /\ Up[x] = {x} \cup IF x = 1 THEN {} ELSE Up[x \div 2]
      BY <2>0, NodeFacts, UpStep
    <3>2. QED
      BY <1>5, <1>6, <3>1
  <2>3. ASSUME NEW c \in Node, c # 1, c \div 2 = q PROVE ptr[c] # l
    <3>1. SUFFICES ASSUME ptr[c] = l PROVE FALSE
      OBVIOUS
    <3>2. c \in Spine(u)
      BY <1>4, <3>1 DEF HeldBelow
    <3>3. q > x
      BY <1>5, <2>2, <2>3, <3>2, SpineParents
    <3>4. q \in Nat /\ x \in Nat
      BY <2>0, NodeFacts
    <3>5. QED
      BY <2>1, <3>3, <3>4
  <2>4. ptr[Left(q)] # l /\ ptr[Right(q)] # l
    BY <2>0, <2>3
  <2>5. Summary(ptr, heap, q) /\ ptr[q] \in Obj /\ ptr[Left(q)] \in Obj /\ ptr[Right(q)] \in Obj
    BY <2>0
  <2>6. /\ heap2[ptr[Left(q)]] = heap[ptr[Left(q)]] /\ heap2[ptr[Right(q)]] = heap[ptr[Right(q)]]
        /\ heap[ptr[q]] \subseteq heap2[ptr[q]]
    BY <1>3, <2>4, <2>5
  <2>7. QED
    BY <2>5, <2>6 DEF Summary
<1>7. QED
  BY <1>6

(* Where every inner node has what its children have, it has what any node *)
(* below it has.                                                           *)
LEMMA SummariesReachUp ==
  ASSUME NEW ptr, NEW heap, \A q \in Internal : Summary(ptr, heap, q), NEW w \in Node
  PROVE  \A v \in Up[w] : heap[ptr[w]] \subseteq heap[ptr[v]]
<1> DEFINE Q == {x \in Node : \A v \in Up[x] : heap[ptr[x]] \subseteq heap[ptr[v]]}
<1>1. ASSUME NEW x \in Node, \A y \in Node : y < x => y \in Q PROVE x \in Q
  <2>1. CASE x = 1
    BY <2>1, UpStep
  <2>2. CASE x # 1
    <3>1. x \div 2 \in Internal /\ x \div 2 \in Node /\ x \div 2 < x
          /\ (x = Left(x \div 2) \/ x = Right(x \div 2))
      BY <2>2, NodeFacts
    <3>2. heap[ptr[x]] \subseteq heap[ptr[x \div 2]]
      BY <3>1 DEF Summary
    <3>3. \A v \in Up[x \div 2] : heap[ptr[x \div 2]] \subseteq heap[ptr[v]]
      BY <1>1, <3>1
    <3>4. Up[x] = {x} \cup Up[x \div 2]
      BY <2>2, UpStep
    <3>5. QED
      BY <3>2, <3>3, <3>4
  <2>3. QED
    BY <2>1, <2>2
<1>2. Node \subseteq Q
  <2>1. Node \in SUBSET Nat
    BY NodeFacts
  <2> HIDE DEF Q
  <2>2. QED
    BY <1>1, <2>1, StrongInduction
<1>3. QED
  BY <1>2

-----------------------------------------------------------------------------
(* The invariant                                                           *)

Listed(s) == {s[n] : n \in 1 .. Len(s)}

LEMMA ClimbTail ==
  ASSUME NEW s, Climbing(s), s # <<>>
  PROVE  /\ Climbing(Tail(s)) /\ Head(s) \in Internal
         /\ Head(s) # 1 => Tail(s) # <<>> /\ Head(Tail(s)) = Head(s) \div 2
<1>1. s \in Seq(Internal)
  BY DEF Climbing
<1>2. PICK k \in Nat : Len(s) = k /\ k > 0
  BY <1>1
<1>3. PICK t : t = Tail(s)
  OBVIOUS
<1>4. /\ t \in Seq(Internal) /\ Len(t) = k - 1 /\ Head(s) = s[1] /\ s[1] \in Internal
      /\ \A n \in 1 .. k - 1 : t[n] = s[n + 1]
      /\ k > 1 => t # <<>> /\ Head(t) = t[1]
  BY <1>1, <1>2, <1>3
<1>5. \A n \in 1 .. k : s[n] = 1 \/ (n < k /\ s[n + 1] = s[n] \div 2)
  BY <1>2 DEF Climbing
<1>6. Climbing(t)
  <2>1. ASSUME NEW n \in 1 .. k - 1 PROVE t[n] = 1 \/ (n < k - 1 /\ t[n + 1] = t[n] \div 2)
    <3>1. n + 1 \in 1 .. k /\ (n + 1 < k => n + 1 \in 1 .. k - 1 /\ n < k - 1)
      BY <1>2
    <3>2. s[n + 1] = 1 \/ (n + 1 < k /\ s[(n + 1) + 1] = s[n + 1] \div 2)
      BY <1>5, <3>1
    <3>3. QED
      BY <1>4, <3>1, <3>2
  <2>2. QED
    BY <1>4, <2>1 DEF Climbing
<1>7. s[1] # 1 => k > 1 /\ t[1] = s[1] \div 2
  <2>1. 1 \in 1 .. k /\ (1 < k => 1 \in 1 .. k - 1)
    BY <1>2
  <2>2. QED
    BY <1>4, <1>5, <2>1
<1>8. QED
  BY <1>3, <1>4, <1>6, <1>7

LEMMA RiseTail ==
  ASSUME NEW s, Rising(s), s # <<>>
  PROVE  /\ Rising(Tail(s)) /\ Head(s) \in Internal
         /\ Head(s) # 1 => Head(s) \div 2 \in Listed(Tail(s))
         /\ Listed(s) = {Head(s)} \cup Listed(Tail(s))
<1>1. s \in Seq(Internal)
  BY DEF Rising
<1>2. PICK k \in Nat : Len(s) = k /\ k > 0
  BY <1>1
<1>3. PICK t : t = Tail(s)
  OBVIOUS
<1>4. /\ t \in Seq(Internal) /\ Len(t) = k - 1 /\ Head(s) = s[1] /\ s[1] \in Internal
      /\ \A n \in 1 .. k - 1 : t[n] = s[n + 1]
  BY <1>1, <1>2, <1>3
<1>5. \A n \in 1 .. k : s[n] = 1 \/ \E m \in n + 1 .. k : s[m] = s[n] \div 2
  BY <1>2 DEF Rising
<1>6. \A m \in 2 .. k : m - 1 \in 1 .. k - 1 /\ s[m] = t[m - 1]
  <2>1. \A m \in 2 .. k : m - 1 \in 1 .. k - 1 /\ (m - 1) + 1 = m
    BY <1>2
  <2>2. QED
    BY <1>4, <2>1
<1>7. Rising(t)
  <2>1. ASSUME NEW n \in 1 .. k - 1 PROVE t[n] = 1 \/ \E m \in n + 1 .. k - 1 : t[m] = t[n] \div 2
    <3>1. n + 1 \in 1 .. k
      BY <1>2
    <3>2. s[n + 1] = 1 \/ \E m \in (n + 1) + 1 .. k : s[m] = s[n + 1] \div 2
      BY <1>5, <3>1
    <3>3. CASE s[n + 1] # 1
      <4>1. PICK m \in (n + 1) + 1 .. k : s[m] = s[n + 1] \div 2
        BY <3>2, <3>3
      <4>2. m - 1 \in n + 1 .. k - 1 /\ m \in 2 .. k
        BY <1>2
      <4>3. t[m - 1] = t[n] \div 2
        BY <1>4, <1>6, <4>1, <4>2
      <4>4. QED
        BY <4>2, <4>3
    <3>4. QED
      BY <1>4, <3>3
  <2>2. QED
    BY <1>4, <2>1 DEF Rising
<1>8. s[1] # 1 => s[1] \div 2 \in Listed(t)
  <2> SUFFICES ASSUME s[1] # 1 PROVE s[1] \div 2 \in Listed(t)
    OBVIOUS
  <2>1. 1 \in 1 .. k
    BY <1>2
  <2>2. PICK m \in 1 + 1 .. k : s[m] = s[1] \div 2
    BY <1>5, <2>1
  <2>3. m \in 2 .. k
    OBVIOUS
  <2>4. m - 1 \in 1 .. Len(t) /\ t[m - 1] = s[1] \div 2
    BY <1>4, <1>6, <2>2, <2>3
  <2>5. QED
    BY <2>4 DEF Listed
<1>9. Listed(s) = {s[1]} \cup Listed(t)
  <2>1. ASSUME NEW n \in 1 .. k PROVE s[n] \in {s[1]} \cup Listed(t)
    <3>1. n = 1 \/ n \in 2 .. k
      OBVIOUS
    <3>2. n \in 2 .. k => n - 1 \in 1 .. Len(t) /\ s[n] = t[n - 1]
      BY <1>4, <1>6
    <3>3. QED
      BY <3>1, <3>2 DEF Listed
  <2>2. ASSUME NEW n \in 1 .. k - 1 PROVE t[n] \in Listed(s)
    <3>1. n + 1 \in 1 .. Len(s) /\ t[n] = s[n + 1]
      BY <1>2, <1>4
    <3>2. QED
      BY <3>1 DEF Listed
  <2>3. 1 \in 1 .. k
    BY <1>2
  <2>4. QED
    BY <1>2, <1>4, <2>1, <2>2, <2>3 DEF Listed
<1>10. QED
  BY <1>3, <1>4, <1>7, <1>8, <1>9

Above(s) == IF s = <<>> THEN {} ELSE Up[Head(s)]

Remembered(r, v) == HashOf(keywordsOf[r]) \subseteq bits[bf[v]]

TypesHold ==
  /\ mode \in {"incremental", "deferred"}
  /\ bf \in [Node -> Obj] /\ bits \in [Obj -> SUBSET Bit]
  /\ \A r \in Inserted : slotOf[r] \in Slot /\ keywordsOf[r] \subseteq Keyword

LeavesRemember == \A r \in Inserted : Remembered(r, LeafOf(slotOf[r]))

(* insert_keyword: the call still climbs from Head(todo), and only the     *)
(* nodes above it may lack bits of their children.                         *)
Climbed ==
  /\ pending = {} /\ ~rebuilding /\ Climbing(todo)
  /\ \A o \in Obj : Held(bf, Above(todo), o)
  /\ \A q \in Internal \ Above(todo) : Summary(bf, bits, q)

(* insert_keyword_deferred: nothing is shared, and once a rebuild has      *)
(* started only the nodes still listed lack bits of their children.        *)
Rebuilding ==
  /\ \A v \in Node : bf[v] = v
  /\ todo # <<>> => rebuilding /\ pending = {}
  /\ Rising(todo)
  /\ pending = {} => \A q \in Internal \ Listed(todo) : Summary(bf, bits, q)
  /\ todo = <<>> => \A r \in Inserted \ pending : Remembered(r, 1)

TreeInv ==
  /\ TypesHold /\ LeavesRemember
  /\ mode = "incremental" => Climbed
  /\ mode = "deferred" => Rebuilding

LEMMA NodesAreObjects ==
  Node \subseteq Obj /\ KeywordLists \subseteq SUBSET Keyword
  /\ Modes \subseteq {"incremental", "deferred", "mixed"}
BY HeightAssumption

LEMMA HashesAreBits ==
  \A ks \in SUBSET Keyword : HashOf(ks) \in SUBSET Bit
BY HashAssumption DEF HashOf

LEMMA EmptySequences ==
  Climbing(<<>>) /\ Rising(<<>>) /\ Listed(<<>>) = {} /\ Above(<<>>) = {}
BY DEF Climbing, Rising, Listed, Above

LEMMA InitIsFine == "mixed" \notin Modes /\ Init => TreeInv
<1> SUFFICES ASSUME "mixed" \notin Modes, Init PROVE TreeInv
  OBVIOUS
<1>1. /\ mode \in {"incremental", "deferred"} /\ Inserted = {} /\ pending = {}
      /\ todo = <<>> /\ ~rebuilding
      /\ bf = [v \in Node |-> v] /\ bits = [o \in Obj |-> {}]
  BY NodesAreObjects DEF Init, Inserted
<1>2. bf \in [Node -> Obj] /\ bits \in [Obj -> SUBSET Bit]
      /\ (\A v \in Node : bf[v] = v) /\ \A o \in Obj : bits[o] = {}
  BY <1>1, NodesAreObjects
<1>3. \A q \in Internal : Summary(bf, bits, q)
  BY <1>2, NodeFacts, NodesAreObjects DEF Summary
<1>4. ASSUME NEW o \in Obj PROVE Held(bf, {}, o)
  <2>1. CASE o \in Node
    <3>1. \A v \in Node : bf[v] = o => v = o
      BY <1>2
    <3>2. o \in Spine(o) /\ \A a \in Chain[o] : a >= o => a = o
      BY <2>1, ChainFacts, NodeFacts DEF Spine
    <3>3. QED
      BY <2>1, <3>1, <3>2 DEF Held, HeldBelow
  <2>2. CASE o \notin Node
    BY <1>2, <2>2, NodeFacts DEF Held, HeldBelow
  <2>3. QED
    BY <2>1, <2>2
<1>5. QED
  BY <1>1, <1>2, <1>3, <1>4, EmptySequences
  DEF TreeInv, TypesHold, LeavesRemember, Climbed, Rebuilding

(* What an insert does to the leaf's filter. *)
LEMMA LeafGrows ==
  ASSUME TypesHold, LeavesRemember,
         NEW r \in Record, NEW i \in Slot, NEW ks \in KeywordLists, AddAtLeaf(r, i, ks)
  PROVE  /\ TypesHold' /\ LeavesRemember'
         /\ \A o \in Obj : bits[o] \subseteq bits'[o]
         /\ bits' = [bits EXCEPT ![bf[LeafOf(i)]] = @ \cup HashOf(ks)]
         /\ Inserted' = Inserted \cup {r} /\ r \notin Inserted
         /\ \A x \in Inserted : keywordsOf'[x] = keywordsOf[x]
<1>1. PICK h \in SUBSET Bit : h = HashOf(ks)
  BY HashesAreBits, NodesAreObjects
<1>2. PICK w \in Node, l \in Obj : w = LeafOf(i) /\ l = bf[w]
  BY NodeFacts DEF TypesHold
<1>3. /\ bits' = [bits EXCEPT ![l] = @ \cup h] /\ bf' = bf /\ mode' = mode
      /\ r \notin Inserted
      /\ slotOf' = [x \in Inserted \cup {r} |-> IF x = r THEN i ELSE slotOf[x]]
      /\ keywordsOf' = [x \in Inserted \cup {r} |-> IF x = r THEN ks ELSE keywordsOf[x]]
  BY <1>1, <1>2 DEF AddAtLeaf
<1>4. /\ bits' \in [Obj -> SUBSET Bit]
      /\ \A o \in Obj : bits'[o] = IF o = l THEN bits[o] \cup h ELSE bits[o]
  BY <1>3 DEF TypesHold
<1>5. /\ Inserted' = Inserted \cup {r}
      /\ slotOf'[r] = i /\ keywordsOf'[r] = ks
      /\ \A x \in Inserted : slotOf'[x] = slotOf[x] /\ keywordsOf'[x] = keywordsOf[x]
  BY <1>3 DEF Inserted
<1>6. TypesHold'
  BY <1>3, <1>4, <1>5, NodesAreObjects DEF TypesHold
<1>7. LeavesRemember'
  <2>1. ASSUME NEW x \in Inserted' PROVE Remembered(x, LeafOf(slotOf[x]))'
    <3>1. CASE x = r
      <4>1. bits'[bf'[LeafOf(slotOf'[x])]] = bits[l] \cup h
        BY <1>2, <1>3, <1>4, <1>5, <3>1
      <4>2. HashOf(keywordsOf'[x]) = h
        BY <1>1, <1>5, <3>1
      <4>3. QED
        BY <4>1, <4>2 DEF Remembered, LeafOf
    <3>2. CASE x # r
      <4>1. x \in Inserted /\ slotOf'[x] = slotOf[x] /\ keywordsOf'[x] = keywordsOf[x]
        BY <1>5, <3>2
      <4>2. LeafOf(slotOf[x]) \in Node /\ bf[LeafOf(slotOf[x])] \in Obj
        BY <4>1, NodeFacts DEF TypesHold
      <4>3. HashOf(keywordsOf[x]) \subseteq bits[bf[LeafOf(slotOf[x])]]
        BY <4>1 DEF LeavesRemember, Remembered
      <4>4. bits[bf[LeafOf(slotOf[x])]] \subseteq bits'[bf[LeafOf(slotOf[x])]]
        BY <1>4, <4>2
      <4>5. HashOf(keywordsOf'[x]) \subseteq bits'[bf'[LeafOf(slotOf'[x])]]
        BY <1>3, <4>1, <4>3, <4>4
      <4>6. QED
        BY <4>5 DEF Remembered, LeafOf
    <3>3. QED
      BY <3>1, <3>2
  <2>2. QED
    BY <2>1 DEF LeavesRemember
<1>8. QED
  BY <1>1, <1>2, <1>3, <1>4, <1>5, <1>6, <1>7

LEMMA InsertIsFine ==
  ASSUME TreeInv, NEW r \in Record, NEW i \in Slot, NEW ks \in KeywordLists,
         InsertKeyword(r, i, ks)
  PROVE  TreeInv'
<1>1. /\ mode = "incremental" /\ mode' = mode /\ bf' = bf /\ AddAtLeaf(r, i, ks)
      /\ todo' = Climbs[LeafOf(i)] /\ ~rebuilding' /\ pending' = pending /\ todo = <<>>
  BY DEF InsertKeyword, AddAtLeaf, TreeInv, TypesHold
<1>2. TypesHold /\ LeavesRemember /\ Climbed
  BY <1>1 DEF TreeInv
<1>3. /\ TypesHold' /\ LeavesRemember'
      /\ bits' = [bits EXCEPT ![bf[LeafOf(i)]] = @ \cup HashOf(ks)]
  BY <1>1, <1>2, LeafGrows
<1>4. PICK w \in Leaves : w = LeafOf(i) /\ w \in Node
  BY NodeFacts
<1>5. /\ Climbing(todo')
      /\ w = 1 => todo' = <<>>
      /\ w # 1 => todo' # <<>> /\ Head(todo') = w \div 2
  <2>1. PICK s : s = todo'
    OBVIOUS
  <2>2. /\ Climbing(s)
        /\ w = 1 => s = <<>>
        /\ w # 1 => Len(s) \in Nat \ {0} /\ s[1] = w \div 2
    BY <1>1, <1>4, <2>1, ClimbsClimb
  <2>3. s \in Seq(Internal)
    BY <2>2 DEF Climbing
  <2>4. w # 1 => s # <<>> /\ Head(s) = s[1]
    BY <2>2, <2>3
  <2>5. QED
    BY <2>1, <2>2, <2>4
<1>6. /\ \A o \in Obj : Held(bf, {}, o)
      /\ \A q \in Internal : Summary(bf, bits, q)
      /\ pending = {}
  BY <1>1, <1>2, EmptySequences DEF Climbed
<1>7. \A o \in Obj : Held(bf', Above(todo'), o)
  BY <1>1, <1>6, HeldWeakens
<1>8. \A q \in Internal : (w # 1 /\ q \in Up[w \div 2]) \/ Summary(bf, bits', q)
  <2>1. bf \in [Node -> Obj] /\ bits \in [Obj -> SUBSET Bit]
    BY <1>2 DEF TypesHold
  <2>2. PICK heap2, h : heap2 = bits' /\ h = HashOf(ks)
    OBVIOUS
  <2>3. heap2 = [bits EXCEPT ![bf[w]] = @ \cup h]
    BY <1>3, <1>4, <2>2
  <2>4. \A q \in Internal : (w # 1 /\ q \in Up[w \div 2]) \/ Summary(bf, heap2, q)
    <3>1. (\A o \in Obj : Held(bf, {}, o)) /\ \A q \in Internal : Summary(bf, bits, q)
      BY <1>6
    <3>2. Growing(bf, bits, w, h, heap2)
      BY <2>1, <2>3, <3>1 DEF Growing
    <3>3. QED
      BY <3>2, GrowingSummarises
  <2>5. QED
    BY <2>2, <2>4
<1>9. \A q \in Internal \ Above(todo') : Summary(bf', bits', q)
  <2>1. w # 1 => Above(todo') = Up[w \div 2]
    BY <1>5 DEF Above
  <2>2. QED
    BY <1>1, <1>8, <2>1
<1>10. Climbed'
  BY <1>1, <1>5, <1>6, <1>7, <1>9 DEF Climbed
<1>11. QED
  BY <1>1, <1>3, <1>10 DEF TreeInv

LEMMA DeferredInsertIsFine ==
  ASSUME TreeInv, NEW r \in Record, NEW i \in Slot, NEW ks \in KeywordLists,
         InsertKeywordDeferred(r, i, ks)
  PROVE  TreeInv'
<1>1. /\ mode = "deferred" /\ mode' = mode /\ bf' = bf /\ AddAtLeaf(r, i, ks)
      /\ todo' = todo /\ rebuilding' = rebuilding /\ pending' = pending \cup {r} /\ todo = <<>>
  BY DEF InsertKeywordDeferred, AddAtLeaf, TreeInv, TypesHold
<1>2. TypesHold /\ LeavesRemember /\ Rebuilding
  BY <1>1 DEF TreeInv
<1>3. /\ TypesHold' /\ LeavesRemember'
      /\ \A o \in Obj : bits[o] \subseteq bits'[o]
      /\ Inserted' = Inserted \cup {r}
      /\ \A x \in Inserted : keywordsOf'[x] = keywordsOf[x]
  BY <1>1, <1>2, LeafGrows
<1>4. \A x \in Inserted' \ pending' : Remembered(x, 1)'
  <2>1. ASSUME NEW x \in Inserted' \ pending' PROVE HashOf(keywordsOf'[x]) \subseteq bits'[bf'[1]]
    <3>1. x \in Inserted \ pending /\ keywordsOf'[x] = keywordsOf[x]
      BY <1>1, <1>3
    <3>2. HashOf(keywordsOf[x]) \subseteq bits[bf[1]]
      BY <1>1, <1>2, <3>1 DEF Rebuilding, Remembered
    <3>3. bf[1] \in Obj
      BY <1>2, NodeFacts DEF TypesHold
    <3>4. QED
      BY <1>1, <1>3, <3>1, <3>2, <3>3
  <2>2. QED
    BY <2>1 DEF Remembered
<1>5. (\A v \in Node : bf'[v] = v) /\ Rising(todo') /\ pending' # {}
  BY <1>1, <1>2 DEF Rebuilding
<1>6. Rebuilding'
  BY <1>1, <1>4, <1>5 DEF Rebuilding
<1>7. QED
  BY <1>1, <1>3, <1>6 DEF TreeInv

(* Where all of the tree is merged, the root has what the leaves have. *)
LEMMA RootRemembers ==
  ASSUME TypesHold, LeavesRemember, \A q \in Internal : Summary(bf, bits, q)
  PROVE  \A r \in Inserted : Remembered(r, 1)
<1>1. ASSUME NEW r \in Inserted PROVE Remembered(r, 1)
  <2>1. PICK w \in Node : w = LeafOf(slotOf[r])
    BY NodeFacts DEF TypesHold
  <2>2. 1 \in Up[w]
    BY UpFacts
  <2>3. bits[bf[w]] \subseteq bits[bf[1]]
    BY <2>2, SummariesReachUp
  <2>4. QED
    BY <2>1, <2>3 DEF LeavesRemember, Remembered
<1>2. QED
  BY <1>1

LEMMA FinalizeIsFine ==
  ASSUME TreeInv, FinalizeBloomFilters
  PROVE  TreeInv'
<1>1. /\ mode = "deferred" /\ mode' = mode /\ bf' = bf /\ bits' = bits
      /\ slotOf' = slotOf /\ keywordsOf' = keywordsOf
      /\ todo' = PostOrder[1] /\ rebuilding' /\ pending' = {}
  BY DEF FinalizeBloomFilters, TreeInv, TypesHold
<1>2. TypesHold /\ LeavesRemember /\ Rebuilding
  BY <1>1 DEF TreeInv
<1>3. TypesHold' /\ LeavesRemember' /\ Inserted' = Inserted
      /\ \A r, v : Remembered(r, v)' = Remembered(r, v)
  BY <1>1, <1>2 DEF TypesHold, LeavesRemember, Remembered, Inserted, LeafOf
<1>4. Rising(todo') /\ Internal \subseteq Listed(todo')
  BY <1>1, PostOrderFacts DEF Listed
<1>5. todo' = <<>> => \A r \in Inserted : Remembered(r, 1)
  <2>1. todo' = <<>> => Internal = {}
    BY <1>4, EmptySequences
  <2>2. QED
    BY <1>2, <2>1, RootRemembers
<1>6. Rebuilding'
  <2>1. \A v \in Node : bf'[v] = v
    BY <1>1, <1>2 DEF Rebuilding
  <2>2. \A r \in Inserted' : Remembered(r, 1)' = Remembered(r, 1)
    BY <1>3
  <2>3. QED
    BY <1>1, <1>3, <1>4, <1>5, <2>1, <2>2 DEF Rebuilding
<1>7. QED
  BY <1>1, <1>3, <1>6 DEF TreeInv

LEMMA ClimbIsFine ==
  ASSUME TreeInv, ClimbStep
  PROVE  TreeInv'
<1>1. /\ todo # <<>> /\ ~rebuilding /\ UpdateParent(Head(todo)) /\ todo' = Tail(todo)
      /\ mode' = mode /\ rebuilding' = rebuilding /\ slotOf' = slotOf
      /\ keywordsOf' = keywordsOf /\ pending' = pending
  BY DEF ClimbStep
<1>2. mode = "incremental"
  BY <1>1 DEF TreeInv, TypesHold, Rebuilding
<1>3. TypesHold /\ LeavesRemember /\ Climbed
  BY <1>2 DEF TreeInv
<1>4. bf \in [Node -> Obj] /\ bits \in [Obj -> SUBSET Bit]
  BY <1>3 DEF TypesHold
<1>5. PICK p \in Internal :
        /\ p = Head(todo) /\ Climbing(todo') /\ UpdateParent(p)
        /\ p # 1 => todo' # <<>> /\ Head(todo') = p \div 2
  BY <1>1, <1>3, ClimbTail DEF Climbed
<1>6. Up[p] \ {p} \subseteq Above(todo') /\ Above(todo) = Up[p]
  <2>1. Up[p] = {p} \cup IF p = 1 THEN {} ELSE Up[p \div 2]
    BY UpStep, NodeFacts
  <2>2. QED
    BY <1>1, <1>5, <2>1 DEF Above
<1>7. PICK ptr2, heap2 : ptr2 = bf' /\ heap2 = bits'
  OBVIOUS
<1>8. Sharing(bf, bits, p, ptr2, heap2) \/ Renewing(bf, bits, p, ptr2, heap2)
  BY <1>4, <1>5, <1>7, UpdateShares
<1>9. /\ \A o \in Obj : Held(bf, Up[p], o)
      /\ \A q \in Internal \ Up[p] : Summary(bf, bits, q)
  BY <1>3, <1>6 DEF Climbed
<1>10. /\ \A o \in Obj : Held(ptr2, Up[p] \ {p}, o)
       /\ \A q \in Internal \ (Up[p] \ {p}) : Summary(ptr2, heap2, q)
       /\ \A v \in Node \ {p} : bits[bf[v]] \subseteq heap2[ptr2[v]]
       /\ ptr2 \in [Node -> Obj] /\ heap2 \in [Obj -> SUBSET Bit]
  <2>1. CASE Sharing(bf, bits, p, ptr2, heap2)
    <3>1. \A o \in Obj : Held(ptr2, Up[p] \ {p}, o)
      BY <1>4, <1>9, <2>1, SharingHolds
    <3>2. /\ \A q \in Internal \ (Up[p] \ {p}) : Summary(ptr2, heap2, q)
          /\ \A v \in Node \ {p} : bits[bf[v]] \subseteq heap2[ptr2[v]]
      BY <1>4, <1>9, <2>1, SharingSummarises
    <3>3. ptr2 \in [Node -> Obj] /\ heap2 \in [Obj -> SUBSET Bit]
      BY <2>1 DEF Sharing
    <3>4. QED
      BY <3>1, <3>2, <3>3
  <2>2. CASE Renewing(bf, bits, p, ptr2, heap2)
    <3>1. \A o \in Obj : Held(ptr2, Up[p] \ {p}, o)
      BY <1>4, <1>9, <2>2, RenewingHolds
    <3>2. /\ \A q \in Internal \ (Up[p] \ {p}) : Summary(ptr2, heap2, q)
          /\ \A v \in Node \ {p} : bits[bf[v]] \subseteq heap2[ptr2[v]]
      BY <1>4, <1>9, <2>2, RenewingSummarises
    <3>3. ptr2 \in [Node -> Obj] /\ heap2 \in [Obj -> SUBSET Bit]
      BY <2>2 DEF Renewing
    <3>4. QED
      BY <3>1, <3>2, <3>3
  <2>3. QED
    BY <1>8, <2>1, <2>2
<1>11. \A o \in Obj : Held(ptr2, Above(todo'), o)
  BY <1>6, <1>10, HeldWeakens
<1>12. \A q \in Internal \ Above(todo') : Summary(ptr2, heap2, q)
  BY <1>6, <1>10
<1>13. Climbed'
  BY <1>1, <1>3, <1>5, <1>7, <1>11, <1>12 DEF Climbed
<1>14. TypesHold'
  BY <1>1, <1>3, <1>7, <1>10 DEF TypesHold, Inserted
<1>15. LeavesRemember'
  <2>1. ASSUME NEW r \in Inserted
        PROVE  HashOf(keywordsOf[r]) \subseteq heap2[ptr2[LeafOf(slotOf[r])]]
    <3>1. LeafOf(slotOf[r]) \in Node \ {p}
      BY <1>3, NodeFacts DEF TypesHold
    <3>2. QED
      BY <1>3, <1>10, <3>1 DEF LeavesRemember, Remembered
  <2>2. QED
    BY <1>1, <1>7, <2>1 DEF LeavesRemember, Remembered, Inserted, LeafOf
<1>16. QED
  BY <1>1, <1>2, <1>13, <1>14, <1>15 DEF TreeInv

LEMMA RebuildIsFine ==
  ASSUME TreeInv, RebuildStep
  PROVE  TreeInv'
<1>1. /\ todo # <<>> /\ rebuilding /\ bits' = Rebuilt(Head(todo)) /\ todo' = Tail(todo)
      /\ mode' = mode /\ bf' = bf /\ rebuilding' = rebuilding /\ slotOf' = slotOf
      /\ keywordsOf' = keywordsOf /\ pending' = pending
  BY DEF RebuildStep
<1>2. mode = "deferred"
  BY <1>1 DEF TreeInv, TypesHold, Climbed
<1>3. TypesHold /\ LeavesRemember /\ Rebuilding
  BY <1>2 DEF TreeInv
<1>4. /\ bf \in [Node -> Obj] /\ bits \in [Obj -> SUBSET Bit] /\ pending = {}
      /\ \A v \in Node : bf[v] = v
  BY <1>1, <1>3 DEF TypesHold, Rebuilding
<1>5. PICK p \in Internal :
        /\ p = Head(todo) /\ Rising(todo') /\ (p # 1 => p \div 2 \in Listed(todo'))
        /\ Listed(todo) = {p} \cup Listed(todo')
  BY <1>1, <1>3, RiseTail DEF Rebuilding
<1>6. PICK L, R : L = Left(p) /\ R = Right(p)
  OBVIOUS
<1>7. /\ p \in Node /\ L \in Node /\ R \in Node /\ L # p /\ R # p /\ L \div 2 = p /\ R \div 2 = p
  <2>1. p \in Node /\ L \in Node /\ R \in Node /\ L \div 2 = p /\ R \div 2 = p /\ p \in Nat \ {0}
    BY <1>6, NodeFacts
  <2>2. QED
    BY <1>6, <2>1 DEF Left, Right
<1>8. PICK heap2 : heap2 = bits'
  OBVIOUS
<1>9. /\ heap2 \in [Obj -> SUBSET Bit]
      /\ \A v \in Node : heap2[v] = IF v = p THEN bits[L] \cup bits[R] ELSE bits[v]
  <2>1. PICK emptied, withLeft :
          /\ emptied = [bits EXCEPT ![p] = {}]
          /\ withLeft = [emptied EXCEPT ![p] = @ \cup emptied[L]]
    OBVIOUS
  <2>2. heap2 = [withLeft EXCEPT ![p] = @ \cup withLeft[R]]
    BY <1>1, <1>4, <1>5, <1>6, <1>7, <1>8, <2>1 DEF Rebuilt
  <2>3. p \in Obj /\ L \in Obj /\ R \in Obj
    BY <1>7, NodesAreObjects
  <2>4. /\ emptied \in [Obj -> SUBSET Bit] /\ emptied[p] = {}
        /\ \A v \in Obj \ {p} : emptied[v] = bits[v]
    BY <1>4, <2>1, <2>3
  <2>5. /\ withLeft \in [Obj -> SUBSET Bit] /\ withLeft[p] = bits[L]
        /\ \A v \in Obj \ {p} : withLeft[v] = bits[v]
    BY <1>4, <1>7, <2>1, <2>3, <2>4
  <2>6. /\ heap2 \in [Obj -> SUBSET Bit] /\ heap2[p] = bits[L] \cup bits[R]
        /\ \A v \in Obj \ {p} : heap2[v] = bits[v]
    BY <1>4, <1>7, <2>2, <2>3, <2>5
  <2>7. QED
    BY <2>6, NodesAreObjects
<1>10. ASSUME NEW q \in Internal \ Listed(todo') PROVE Summary(bf, heap2, q)
  <2>1. q \in Node /\ Left(q) \in Node /\ Right(q) \in Node /\ Left(q) # 1 /\ Right(q) # 1
        /\ Left(q) \div 2 = q /\ Right(q) \div 2 = q
    <3>1. q \in Node /\ Left(q) \in Node /\ Right(q) \in Node
          /\ Left(q) \div 2 = q /\ Right(q) \div 2 = q /\ q \in Nat \ {0}
      BY NodeFacts
    <3>2. QED
      BY <3>1 DEF Left, Right
  <2>2. Left(q) # p /\ Right(q) # p
    BY <1>5, <1>10, <2>1
  <2>3. CASE q = p
    <3>1. heap2[p] = bits[L] \cup bits[R] /\ heap2[L] = bits[L] /\ heap2[R] = bits[R]
      BY <1>7, <1>9
    <3>2. QED
      BY <1>4, <1>6, <1>7, <2>3, <3>1 DEF Summary
  <2>4. CASE q # p
    <3>1. Summary(bf, bits, q)
      BY <1>3, <1>4, <1>5, <2>4 DEF Rebuilding
    <3>2. bits[Left(q)] \cup bits[Right(q)] \subseteq bits[q]
      BY <1>4, <2>1, <3>1 DEF Summary
    <3>3. heap2[Left(q)] \cup heap2[Right(q)] \subseteq heap2[q]
      BY <1>9, <2>1, <2>2, <2>4, <3>2
    <3>4. QED
      BY <1>4, <2>1, <3>3 DEF Summary
  <2>5. QED
    BY <2>3, <2>4
<1>11. TypesHold'
  BY <1>1, <1>3, <1>8, <1>9 DEF TypesHold, Inserted
<1>12. LeavesRemember'
  <2>1. ASSUME NEW r \in Inserted
        PROVE  HashOf(keywordsOf[r]) \subseteq heap2[bf[LeafOf(slotOf[r])]]
    <3>1. LeafOf(slotOf[r]) \in Node \ {p}
      BY <1>3, NodeFacts DEF TypesHold
    <3>2. QED
      BY <1>3, <1>4, <1>9, <3>1 DEF LeavesRemember, Remembered
  <2>2. QED
    BY <1>1, <1>8, <2>1 DEF LeavesRemember, Remembered, Inserted, LeafOf
<1>13. todo' = <<>> => \A r \in Inserted' : Remembered(r, 1)'
  <2> SUFFICES ASSUME todo' = <<>> PROVE \A r \in Inserted' : Remembered(r, 1)'
    OBVIOUS
  <2>1. \A q \in Internal : Summary(bf, heap2, q)
    BY <1>10, EmptySequences
  <2>2. ASSUME NEW r \in Inserted PROVE HashOf(keywordsOf[r]) \subseteq heap2[bf[1]]
    <3>1. PICK w \in Node : w = LeafOf(slotOf[r]) /\ w # p
      BY <1>3, NodeFacts DEF TypesHold
    <3>2. heap2[bf[w]] \subseteq heap2[bf[1]]
      BY <2>1, SummariesReachUp, UpFacts
    <3>3. HashOf(keywordsOf[r]) \subseteq heap2[bf[w]]
      BY <1>3, <1>4, <1>9, <3>1 DEF LeavesRemember, Remembered
    <3>4. QED
      BY <3>2, <3>3
  <2>3. QED
    BY <1>1, <1>8, <2>2 DEF Remembered, Inserted
<1>14. Rebuilding'
  <2>1. \A v \in Node : bf'[v] = v
    BY <1>1, <1>4
  <2>2. \A q \in Internal \ Listed(todo') : Summary(bf', bits', q)
    BY <1>1, <1>8, <1>10
  <2>3. QED
    BY <1>1, <1>4, <1>5, <1>13, <2>1, <2>2 DEF Rebuilding
<1>15. QED
  BY <1>1, <1>2, <1>11, <1>12, <1>14 DEF TreeInv

LEMMA TreeInvHolds == "mixed" \notin Modes => (Spec => []TreeInv)
<1> SUFFICES ASSUME "mixed" \notin Modes PROVE Spec => []TreeInv
  OBVIOUS
<1>1. Init => TreeInv
  BY InitIsFine
<1>2. TreeInv /\ [Next]_vars => TreeInv'
  <2> SUFFICES ASSUME TreeInv, [Next]_vars PROVE TreeInv'
    OBVIOUS
  <2>1. CASE \E r \in Record, i \in Slot, ks \in KeywordLists : InsertKeyword(r, i, ks)
    BY <2>1, InsertIsFine
  <2>2. CASE \E r \in Record, i \in Slot, ks \in KeywordLists : InsertKeywordDeferred(r, i, ks)
    BY <2>2, DeferredInsertIsFine
  <2>3. CASE FinalizeBloomFilters
    BY <2>3, FinalizeIsFine
  <2>4. CASE ClimbStep
    BY <2>4, ClimbIsFine
  <2>5. CASE RebuildStep
    BY <2>5, RebuildIsFine
  <2>6. CASE UNCHANGED vars
    BY <2>6 DEF vars, TreeInv, TypesHold, LeavesRemember, Climbed, Rebuilding, Inserted,
                Remembered, LeafOf
  <2>7. QED
    BY <2>1, <2>2, <2>3, <2>4, <2>5, <2>6 DEF Next
<1>3. QED
  BY <1>1, <1>2, PTL DEF Spec

-----------------------------------------------------------------------------
(* Ranges                                                                  *)

LeftHalf(x) == <<x[1], x[1] + (x[2] - x[1]) \div 2>>
RightHalf(x) == <<x[1] + (x[2] - x[1]) \div 2 + 1, x[2]>>

LEMMA RangeStep ==
  ASSUME NEW P, TreeOf(P)
  PROVE  /\ RangeOf \in [Node -> Int \X Int]
         /\ RangeOf[1] = <<0, P - 1>>
         /\ \A v \in Node : v # 1 =>
              RangeOf[v] = IF v % 2 = 0 THEN LeftHalf(RangeOf[v \div 2])
                           ELSE RightHalf(RangeOf[v \div 2])
<1>0. P = Power[Height] /\ P \in Nat
  BY DEF TreeOf
<1>a. \A u \in Node : u # 1 => u \div 2 \in Node
  BY NodeFacts
<1>1. PICK S, first, step :
        /\ S = Int \X Int /\ first = <<0, P - 1>>
        /\ step = [v \in Node |-> [x \in S |->
                     IF v % 2 = 0 THEN LeftHalf(x) ELSE RightHalf(x)]]
  OBVIOUS
<1>2. first \in S /\ step \in [Node -> [S -> S]]
  BY <1>0, <1>1 DEF LeftHalf, RightHalf
<1>3. PICK f \in [Node -> S] :
        \A v \in Node : f[v] = IF v = 1 THEN first ELSE step[v][f[v \div 2]]
  <2>1. Halving(S, first, step)
    BY <1>2 DEF Halving
  <2>2. QED
    BY <2>1, HalvingExists
<1>4. ASSUME NEW v \in Node
      PROVE  f[v] = IF v = 1 THEN <<0, P - 1>>
                    ELSE IF v % 2 = 0 THEN LeftHalf(f[v \div 2]) ELSE RightHalf(f[v \div 2])
  <2>1. CASE v = 1
    BY <1>1, <1>3, <2>1
  <2>2. CASE v # 1
    <3>1. f[v] = step[v][f[v \div 2]] /\ f[v \div 2] \in S
      BY <1>a, <1>3, <2>2
    <3>2. step[v][f[v \div 2]] = IF v % 2 = 0 THEN LeftHalf(f[v \div 2]) ELSE RightHalf(f[v \div 2])
      BY <1>1, <3>1
    <3>3. QED
      BY <2>2, <3>1, <3>2
  <2>3. QED
    BY <2>1, <2>2
<1> DEFINE Halved(g) ==
             [v \in Node |->
                IF v = 1 THEN <<0, Power[Height] - 1>>
                ELSE LET up == g[v \div 2]
                         mid == up[1] + (up[2] - up[1]) \div 2
                     IN IF v % 2 = 0 THEN <<up[1], mid>> ELSE <<mid + 1, up[2]>>]
           H == CHOOSE g : g = Halved(g)
<1>5. f = Halved(f)
  BY <1>0, <1>3, <1>4 DEF LeftHalf, RightHalf
<1>6. H = Halved(H)
  <2> HIDE DEF Halved
  <2>1. QED
    BY <1>5
<1>7. RangeOf = [v \in Node |-> H[v]]
  BY DEF RangeOf
<1>8. RangeOf = H
  <2>1. PICK h : h = H
    OBVIOUS
  <2>2. h = Halved(h)
    <3> HIDE DEF H, Halved
    <3>1. QED
      BY <1>6, <2>1
  <2>3. h = [v \in Node |-> h[v]]
    BY <2>2
  <2>4. QED
    BY <1>7, <2>1, <2>3
<1>9. PICK h : h = RangeOf /\ h = Halved(h)
  BY <1>6, <1>8
<1>10. /\ h[1] = <<0, P - 1>>
       /\ \A v \in Node : v # 1 =>
            h[v] = IF v % 2 = 0 THEN LeftHalf(h[v \div 2]) ELSE RightHalf(h[v \div 2])
  <2>1. 1 \in Node
    BY NodeFacts
  <2>2. QED
    BY <1>0, <1>9, <2>1 DEF LeftHalf, RightHalf
<1>11. h \in [Node -> Int \X Int]
  <2> DEFINE Q == {v \in Node : h[v] \in Int \X Int}
  <2>1. ASSUME NEW v \in Node, \A w \in Node : w < v => w \in Q PROVE v \in Q
    <3>1. CASE v = 1
      <4>1. 0 \in Int /\ P - 1 \in Int
        BY <1>0
      <4>2. h[1] = <<0, P - 1>>
        BY <1>10
      <4>3. h[v] \in Int \X Int
        BY <3>1, <4>1, <4>2
      <4>4. QED
        BY <4>3
    <3>2. CASE v # 1
      <4>1. v \div 2 \in Node /\ v \div 2 < v
        BY <3>2, NodeFacts
      <4>2. h[v \div 2] \in Int \X Int
        BY <2>1, <4>1
      <4>3. LeftHalf(h[v \div 2]) \in Int \X Int /\ RightHalf(h[v \div 2]) \in Int \X Int
        BY <4>2 DEF LeftHalf, RightHalf
      <4>4. QED
        BY <1>10, <3>2, <4>3
    <3>3. QED
      BY <3>1, <3>2
  <2>2. Node \subseteq Q
    <3>1. Node \in SUBSET Nat
      BY NodeFacts
    <3> HIDE DEF Q
    <3>2. QED
      BY <2>1, <3>1, StrongInduction
  <2>3. h = [v \in Node |-> h[v]]
    BY <1>9
  <2>4. QED
    BY <2>2, <2>3
<1>12. QED
  BY <1>9, <1>10, <1>11

(* A node's range: node v of a row of d nodes has the s = P / d slots from *)
(* (v - d) * s on.                                                         *)
Sized(P, v, k, d, s) ==
  /\ k \in 0 .. Height /\ d = Power[k] /\ s = Power[Height - k]
  /\ d \in Nat \ {0} /\ s \in Nat \ {0} /\ s * d = P
  /\ d <= v /\ v < 2 * d
  /\ RangeOf[v] = <<v * s - P, v * s + s - 1 - P>>

LEMMA RangesAreSized ==
  ASSUME NEW P, TreeOf(P), NEW v \in Node
  PROVE  \E k, d, s : Sized(P, v, k, d, s)
<1>0. P = Power[Height] /\ P \in Nat \ {0} /\ Internal = 1 .. P - 1
  BY DEF TreeOf
<1>a. PICK h \in Nat : h = Height
  BY HeightAssumption
<1>b. P \in Int
  BY <1>0
<1> DEFINE Q == {u \in Node : \E k, d, s : Sized(P, u, k, d, s)}
<1>1. ASSUME NEW u \in Node, \A w \in Node : w < u => w \in Q PROVE u \in Q
  <2>1. CASE u = 1
    <3>1. RangeOf[1] = <<0, P - 1>> /\ Power[0] = 1
      BY RangeStep, PowerFacts
    <3>2. 0 \in 0 .. Height /\ Height - 0 = Height
      BY <1>a
    <3>3. Sized(P, 1, 0, 1, P)
      BY <1>0, <3>1, <3>2 DEF Sized
    <3>4. QED
      BY <2>1, <3>3
  <2>2. CASE u # 1
    <3>1. /\ u \div 2 \in Internal /\ u \div 2 \in Node /\ u \div 2 < u
          /\ u % 2 = 0 => u = 2 * (u \div 2)
          /\ u % 2 # 0 => u = 2 * (u \div 2) + 1
      BY <2>2, NodeFacts
    <3>2. PICK v2 \in Nat : v2 = u \div 2 /\ v2 \in Node /\ v2 < P /\ v2 \in Q
      BY <1>0, <1>1, <3>1
    <3>3. PICK k2, d2, s2 : Sized(P, v2, k2, d2, s2)
      BY <3>2
    <3>4. /\ k2 \in 0 .. h /\ d2 = Power[k2] /\ s2 = Power[h - k2]
          /\ d2 \in Nat \ {0} /\ s2 \in Nat \ {0} /\ s2 * d2 = P
          /\ d2 <= v2 /\ v2 < 2 * d2
          /\ RangeOf[v2] = <<v2 * s2 - P, v2 * s2 + s2 - 1 - P>>
      BY <1>a, <3>3 DEF Sized
    <3>5. k2 # h
      BY <1>0, <1>a, <3>2, <3>4
    <3>6. PICK k \in 0 .. h : k = k2 + 1 /\ h - k \in 0 .. h /\ (h - k) + 1 = h - k2
      BY <3>4, <3>5
    <3>7. PICK d \in Nat \ {0}, s \in Nat \ {0} :
            d = Power[k] /\ s = Power[h - k] /\ d = 2 * d2 /\ s2 = 2 * s
      <4>1. k \in 0 .. h + 1 /\ h - k \in 0 .. h + 1
        BY <3>6
      <4>2. Power[k] \in Nat \ {0} /\ Power[h - k] \in Nat \ {0}
        BY <1>a, <4>1, PowerFacts
      <4>3. Power[k2 + 1] = 2 * Power[k2] /\ Power[(h - k) + 1] = 2 * Power[h - k]
        BY <1>a, <3>4, <3>6, PowerFacts
      <4>4. QED
        BY <3>4, <3>6, <4>2, <4>3
    <3>8. s * d = P
      BY <3>4, <3>7
    <3>9. PICK n \in Nat : n = v2 * s
      BY <3>2, <3>7
    <3>10. v2 * s2 = 2 * n
      BY <3>2, <3>7, <3>9
    <3>11. RangeOf[v2] = <<2 * n - P, 2 * n + 2 * s - 1 - P>>
      BY <3>4, <3>7, <3>10
    <3>12. ASSUME NEW a, NEW b, a = 2 * n - P, b = 2 * n + 2 * s - 1 - P
           PROVE  /\ a + (b - a) \div 2 = 2 * n + s - 1 - P
                  /\ a + (b - a) \div 2 + 1 = 2 * n + s - P
      <4>1. a \in Int /\ b \in Int /\ b - a = 2 * s - 1
        BY <1>b, <3>12
      <4>2. (2 * s - 1) \div 2 = s - 1
        OBVIOUS
      <4>3. (b - a) \div 2 = s - 1
        BY <4>1, <4>2
      <4>4. QED
        BY <1>b, <3>12, <4>3
    <3>13. LeftHalf(RangeOf[v2]) = <<2 * n - P, 2 * n + s - 1 - P>>
           /\ RightHalf(RangeOf[v2]) = <<2 * n + s - P, 2 * n + 2 * s - 1 - P>>
      <4>1. PICK a \in Int, b \in Int :
              a = 2 * n - P /\ b = 2 * n + 2 * s - 1 - P /\ RangeOf[v2] = <<a, b>>
        BY <1>b, <3>11
      <4>2. /\ a + (b - a) \div 2 = 2 * n + s - 1 - P
            /\ a + (b - a) \div 2 + 1 = 2 * n + s - P
        BY <3>12, <4>1
      <4>3. QED
        BY <4>1, <4>2 DEF LeftHalf, RightHalf
    <3>14. RangeOf[u] = <<u * s - P, u * s + s - 1 - P>>
      <4>1. CASE u % 2 = 0
        <5>1. u * s = 2 * n
          BY <3>1, <3>2, <3>7, <3>9, <4>1
        <5>2. RangeOf[u] = LeftHalf(RangeOf[v2])
          BY <2>2, <3>2, <4>1, RangeStep
        <5>3. QED
          BY <3>13, <5>1, <5>2
      <4>2. CASE u % 2 # 0
        <5>1. u * s = 2 * n + s
          BY <3>1, <3>2, <3>7, <3>9, <4>2
        <5>2. RangeOf[u] = RightHalf(RangeOf[v2])
          BY <2>2, <3>2, <4>2, RangeStep
        <5>3. u * s + s - 1 - P = 2 * n + 2 * s - 1 - P
          <6>1. PICK m \in Int : m = u * s /\ m = 2 * n + s
            BY <5>1
          <6>2. m + s - 1 - P = 2 * n + 2 * s - 1 - P
            BY <1>0, <6>1
          <6>3. QED
            BY <6>1, <6>2
        <5>4. QED
          <6>1. PICK m \in Int : m = u * s /\ m = 2 * n + s
            BY <5>1
          <6>2. m - P = 2 * n + s - P
            BY <1>b, <6>1
          <6>3. QED
            BY <3>13, <5>2, <5>3, <6>1, <6>2
      <4>3. QED
        BY <4>1, <4>2
    <3>15. d <= u /\ u < 2 * d
      BY <3>1, <3>2, <3>4, <3>7
    <3>16. Sized(P, u, k, d, s)
      BY <1>a, <3>6, <3>7, <3>8, <3>14, <3>15 DEF Sized
    <3>17. QED
      BY <3>16
  <2>3. QED
    BY <2>1, <2>2
<1>2. Node \subseteq Q
  <2>1. Node \in SUBSET Nat
    BY NodeFacts
  <2> HIDE DEF Q
  <2>2. QED
    BY <1>1, <2>1, StrongInduction
<1>3. QED
  BY <1>2

(* Nodes whose range has slot i are above the leaf of i. *)
LEMMA RangesAreAbove ==
  ASSUME NEW i \in Slot, NEW v \in Node, Contains(RangeOf[v], <<i, i>>)
  PROVE  v \in Up[LeafOf(i)]
<1>1. PICK P : TreeOf(P)
  BY TreeFacts
<1>2. /\ P \in Nat \ {0} /\ Slot = 0 .. P - 1 /\ Leaves = P .. 2 * P - 1 /\ Internal = 1 .. P - 1
      /\ Node = 1 .. 2 * P - 1 /\ LeafOf(i) = P + i
  BY <1>1 DEF TreeOf
<1>3. PICK w \in Leaves : w = LeafOf(i) /\ w \in Node /\ w = P + i
  BY <1>2, NodeFacts
<1> DEFINE Q == {u \in Node : Contains(RangeOf[u], <<i, i>>) => u \in Up[w]}
<1>4. ASSUME NEW u \in Node, \A x \in Node : x > u => x \in Q PROVE u \in Q
  <2> SUFFICES ASSUME Contains(RangeOf[u], <<i, i>>) PROVE u \in Up[w]
    OBVIOUS
  <2>0. /\ RangeOf[u] \in Int \X Int /\ RangeOf[u][1] <= i /\ i <= RangeOf[u][2]
    BY <1>1, RangeStep DEF Contains
  <2>1. CASE u \in Leaves
    <3>1. PICK k, d, s : Sized(P, u, k, d, s)
      BY <1>1, RangesAreSized
    <3>2. d \in Nat /\ s \in Nat \ {0} /\ s * d = P /\ u < 2 * d
          /\ RangeOf[u] = <<u * s - P, u * s + s - 1 - P>>
      BY <3>1 DEF Sized
    <3>3. P <= u /\ u \in Nat
      BY <1>2, <2>1
    <3>4. s = 1
      <4>1. CASE s >= 2
        <5>1. s * d >= 2 * d
          BY <3>2, <4>1
        <5>2. QED
          BY <3>2, <3>3, <5>1
      <4>2. QED
        BY <3>2, <4>1
    <3>5. RangeOf[u] = <<u - P, u - P>>
      <4>1. u * s = u /\ u * s + s - 1 - P = u - P
        BY <1>2, <3>3, <3>4
      <4>2. QED
        BY <3>2, <4>1
    <3>6. u - P <= i /\ i <= u - P
      BY <2>0, <3>5
    <3>7. u = w
      BY <1>2, <1>3, <3>3, <3>6
    <3>8. QED
      BY <1>3, <3>7, UpStep
  <2>2. CASE u \notin Leaves
    <3>1. /\ u \in Internal /\ Left(u) \in Node /\ Right(u) \in Node
          /\ Left(u) \div 2 = u /\ Right(u) \div 2 = u /\ u \in Nat \ {0}
      BY <2>2, NodeFacts
    <3>2. /\ Left(u) # 1 /\ Right(u) # 1 /\ Left(u) > u /\ Right(u) > u
          /\ Left(u) % 2 = 0 /\ Right(u) % 2 # 0
      BY <3>1 DEF Left, Right
    <3>3. RangeOf[Left(u)] = LeftHalf(RangeOf[u]) /\ RangeOf[Right(u)] = RightHalf(RangeOf[u])
      BY <1>1, <3>1, <3>2, RangeStep
    <3>4. PICK a \in Int, b \in Int : RangeOf[u] = <<a, b>>
      BY <2>0
    <3>5. PICK m \in Int : m = a + (b - a) \div 2
      OBVIOUS
    <3>6. RangeOf[Left(u)] = <<a, m>> /\ RangeOf[Right(u)] = <<m + 1, b>>
      BY <3>3, <3>4, <3>5 DEF LeftHalf, RightHalf
    <3>7. a <= i /\ i <= b /\ i \in Int
      BY <1>2, <2>0, <3>4
    <3>8. CASE i <= m
      <4>1. Contains(RangeOf[Left(u)], <<i, i>>)
        BY <3>6, <3>7, <3>8 DEF Contains
      <4>2. Left(u) \in Up[w]
        BY <1>4, <3>1, <3>2, <4>1
      <4>3. QED
        BY <1>3, <3>1, <3>2, <4>2, UpFacts
    <3>9. CASE ~(i <= m)
      <4>1. Contains(RangeOf[Right(u)], <<i, i>>)
        BY <3>6, <3>7, <3>9 DEF Contains
      <4>2. Right(u) \in Up[w]
        BY <1>4, <3>1, <3>2, <4>1
      <4>3. QED
        BY <1>3, <3>1, <3>2, <4>2, UpFacts
    <3>10. QED
      BY <3>8, <3>9
  <2>3. QED
    BY <2>1, <2>2
<1>5. Node \subseteq Q
  <2>1. PICK N \in Nat : Node \in SUBSET (0 .. N)
    BY NodesAreFinite
  <2> HIDE DEF Q
  <2>2. QED
    BY <1>4, <2>1, DownwardInduction
<1>6. QED
  BY <1>3, <1>5

(* A range of the tree is within the tree. *)
LEMMA RangesAreInside ==
  ASSUME NEW P, TreeOf(P), NEW v \in Node
  PROVE  /\ RangeOf[v] \in Int \X Int
         /\ 0 <= RangeOf[v][1] /\ RangeOf[v][1] <= RangeOf[v][2] /\ RangeOf[v][2] <= P - 1
<1>1. PICK k, d, s : Sized(P, v, k, d, s)
  BY RangesAreSized
<1>2. /\ d \in Nat /\ s \in Nat \ {0} /\ s * d = P /\ d <= v /\ v < 2 * d
      /\ RangeOf[v] = <<v * s - P, v * s + s - 1 - P>> /\ v \in Nat /\ P \in Nat
  BY <1>1, NodeFacts DEF Sized, TreeOf
<1>3. PICK m \in Nat : m = v * s
  BY <1>2
<1>4. m >= P
  <2>1. s * v >= s * d
    BY <1>2
  <2>2. QED
    BY <1>2, <1>3, <2>1
<1>5. m + s <= 2 * P
  <2>1. v + 1 <= 2 * d
    BY <1>2
  <2>2. s * (v + 1) <= s * (2 * d)
    BY <1>2, <2>1
  <2>3. s * (v + 1) = m + s /\ s * (2 * d) = 2 * P
    BY <1>2, <1>3
  <2>4. QED
    BY <2>2, <2>3
<1>6. RangeOf[v] = <<m - P, m + s - 1 - P>>
  BY <1>2, <1>3
<1>7. m - P \in Int /\ m + s - 1 - P \in Int
  BY <1>2
<1>8. 0 <= m - P /\ m - P <= m + s - 1 - P /\ m + s - 1 - P <= P - 1
  BY <1>2, <1>4, <1>5
<1>9. QED
  BY <1>6, <1>7, <1>8

(* For a tree that is used with one kind of insert: once all inserts are   *)
(* merged, an inner filter has all bits of the leaves below it.            *)
THEOREM InnersSummarise == "mixed" \notin Modes => (Spec => []InnerFiltersSummarise)
<1> SUFFICES ASSUME "mixed" \notin Modes PROVE Spec => []InnerFiltersSummarise
  OBVIOUS
<1>1. TreeInv => InnerFiltersSummarise
  <2> SUFFICES ASSUME TreeInv, todo = <<>>, pending = {},
                      NEW v \in Internal, NEW i \in Slot, Contains(RangeOf[v], <<i, i>>)
               PROVE  bits[bf[LeafOf(i)]] \subseteq bits[bf[v]]
    BY DEF InnerFiltersSummarise
  <2>1. \A q \in Internal : Summary(bf, bits, q)
    BY EmptySequences DEF TreeInv, TypesHold, Climbed, Rebuilding
  <2>2. LeafOf(i) \in Node /\ v \in Up[LeafOf(i)]
    BY RangesAreAbove, NodeFacts
  <2>3. QED
    BY <2>1, <2>2, SummariesReachUp
<1>2. Spec => []TreeInv
  BY TreeInvHolds
<1>3. QED
  BY <1>1, <1>2, PTL

-----------------------------------------------------------------------------
(* Queries                                                                 *)

LEMMA MiddlesAreWithin ==
  ASSUME NEW v \in Node, NEW m \in Middles(v)
  PROVE  /\ m \in Int \X Int
         /\ RangeOf[v][1] <= m[1] /\ m[2] <= RangeOf[v][2]
<1>1. RangeOf[v] \in Int \X Int
  BY TreeFacts, RangesAreInside
<1>2. PICK a \in Int, b \in Int : RangeOf[v] = <<a, b>>
  BY <1>1
<1>3. PICK w \in Int : w = b - a
  OBVIOUS
<1>4. PICK e \in {0, 1} : e = IF w % 4 > 0 THEN 1 ELSE 0
  OBVIOUS
<1>5. w > 1 /\ m = <<a + w \div 2 - w \div 4, a + w \div 2 + w \div 4 + e>>
  BY <1>2, <1>3, <1>4 DEF Middles
<1>6. a <= a + w \div 2 - w \div 4 /\ a + w \div 2 + w \div 4 + e <= b
  BY <1>3, <1>4, <1>5
<1>7. a + w \div 2 - w \div 4 \in Int /\ a + w \div 2 + w \div 4 + e \in Int
  BY <1>4
<1>8. QED
  BY <1>2, <1>5, <1>6, <1>7

LEMMA BestIsUsable ==
  ASSUME NEW q, NEW s
  PROVE  /\ \A x \in Best(q, s) : /\ Contains(x, q) /\ Locate(x) # {}
                                  /\ x \in {Candidates(q, s)[1], Candidates(q, s)[2]}
         /\ \A x \in {Candidates(q, s)[1], Candidates(q, s)[2]} :
              Contains(x, q) /\ Locate(x) # {} => Best(q, s) # {}
<1>1. PICK c : c = Candidates(q, s)
  OBVIOUS
<1>2. PICK usable : usable = {x \in {c[1], c[2]} : Contains(x, q) /\ Locate(x) # {}}
  OBVIOUS
<1>3. Best(q, s) = IF usable = {c[1], c[2]}
                   THEN {IF Load(c[2]) < Load(c[1]) THEN c[2] ELSE c[1]}
                   ELSE usable
  BY <1>1, <1>2 DEF Best
<1>4. Best(q, s) \subseteq usable
  BY <1>3
<1>5. usable # {} => Best(q, s) # {}
  BY <1>3
<1>6. QED
  BY <1>1, <1>2, <1>4, <1>5

(* What locate_node_for_range finds. *)
LEMMA LocatedBlocks ==
  ASSUME NEW x
  PROVE  Locate(x) # {} <=> \E v \in Node : RangeOf[v] = x \/ x \in Middles(v)
<1>1. x \in Blocks <=> \E v \in Node : RangeOf[v] = x \/ x \in Middles(v)
  BY DEF Blocks
<1>2. x \in Blocks => NodesWith[x] = {v \in Node : RangeOf[v] = x \/ x \in Middles(v)}
  BY DEF NodesWith
<1>3. QED
  BY <1>1, <1>2 DEF Locate

(* The only range of the full size is a candidate of that size. *)
LEMMA RootIsCandidate ==
  ASSUME NEW P, TreeOf(P), NEW q \in Slot \X Slot
  PROVE  Best(q, P) # {}
<1>1. P \in Nat \ {0} /\ P = Power[Height] /\ Slot = 0 .. P - 1
  BY DEF TreeOf
<1>2. PICK i \in 0 .. P - 1, j \in 0 .. P - 1 : q = <<i, j>>
  BY <1>1
<1>3. PICK offset \in Nat \ {0} : offset = IF P \div 2 < 1 THEN 1 ELSE P \div 2
  BY <1>1
<1> DEFINE Clamp(x) == IF x < 0 THEN 0 ELSE IF x > 0 THEN 0 ELSE x
<1>4. Candidates(q, P)[1] = <<Clamp((i \div offset) * offset),
                               Clamp((i \div offset) * offset) + P - 1>>
  <2>1. P - P = 0
    BY <1>1
  <2>2. QED
    BY <1>1, <1>2, <1>3, <2>1 DEF Candidates
<1>5. (i \div offset) * offset \in Int
  <2>1. i \div offset \in Int
    BY <1>3
  <2>2. QED
    BY <2>1
<1>6. Clamp((i \div offset) * offset) = 0
  <2>1. ASSUME NEW x \in Int PROVE Clamp(x) = 0
    OBVIOUS
  <2> HIDE DEF Clamp
  <2>2. QED
    BY <1>5, <2>1
<1>7. Candidates(q, P)[1] = <<0, P - 1>>
  <2>1. 0 + P - 1 = P - 1
    BY <1>1
  <2> HIDE DEF Clamp
  <2>2. QED
    BY <1>4, <1>6, <2>1
<1>8. Contains(<<0, P - 1>>, q)
  BY <1>1, <1>2 DEF Contains
<1>9. Locate(<<0, P - 1>>) # {}
  BY RangeStep, NodeFacts, LocatedBlocks
<1>10. QED
  BY <1>7, <1>8, <1>9, BestIsUsable

(* The cover is the best candidate of the least size that has one. *)
LEMMA CoverIsBest ==
  ASSUME NEW q \in Queries, NEW ks
  PROVE  \/ /\ GetSingleRangeCover(q, ks) = {}
            /\ ~(MatchesAny(bits[bf[1]], ks) /\ HasMatchWithin(q, ks))
         \/ \E k \in 0 .. Height :
              /\ GetSingleRangeCover(q, ks) = Best(q, Power[k]) /\ Best(q, Power[k]) # {}
              /\ \A j \in 0 .. Height : Power[j] >= q[2] - q[1] + 1 /\ Best(q, Power[j]) # {}
                                          => Power[k] <= Power[j]
<1>1. PICK P : TreeOf(P)
  BY TreeFacts
<1>2. P \in Nat \ {0} /\ P = Power[Height] /\ Slot = 0 .. P - 1
  BY <1>1 DEF TreeOf
<1>3. PICK sizes : sizes = {s \in {Power[k] : k \in 0 .. Height} :
                              s >= q[2] - q[1] + 1 /\ Best(q, s) # {}}
  OBVIOUS
<1>4. PICK least : least = CHOOSE s \in sizes : \A t \in sizes : s <= t
  OBVIOUS
<1>5. q \in Slot \X Slot
  BY DEF Queries
<1>6. P \in sizes
  <2>1. P >= q[2] - q[1] + 1
    <3>1. PICK i \in 0 .. P - 1, j \in 0 .. P - 1 : q = <<i, j>>
      BY <1>2, <1>5
    <3>2. P >= j - i + 1
      BY <1>2
    <3>3. QED
      BY <3>1, <3>2
  <2>2. Height \in 0 .. Height
    BY HeightAssumption
  <2>3. Best(q, P) # {}
    BY <1>1, <1>5, RootIsCandidate
  <2>4. QED
    BY <1>2, <1>3, <2>1, <2>2, <2>3
<1>7. sizes \in SUBSET Nat
  <2>1. \A k \in 0 .. Height : k \in 0 .. Height + 1
    BY HeightAssumption
  <2>2. \A k \in 0 .. Height : Power[k] \in Nat
    BY <2>1, PowerFacts
  <2>3. QED
    BY <1>3, <2>2
<1>8. \E s \in sizes : \A t \in sizes : s <= t
  BY <1>6, <1>7, NatHasLeast
<1>9. least \in sizes /\ \A t \in sizes : least <= t
  BY <1>4, <1>8
<1>10. PICK k \in 0 .. Height : least = Power[k]
  BY <1>3, <1>9
<1>11. CASE MatchesAny(bits[bf[1]], ks) /\ HasMatchWithin(q, ks)
  <2>1. GetSingleRangeCover(q, ks) = Best(q, least)
    BY <1>3, <1>4, <1>11 DEF GetSingleRangeCover
  <2>2. Best(q, least) # {}
    BY <1>3, <1>9
  <2>3. \A j \in 0 .. Height : Power[j] >= q[2] - q[1] + 1 /\ Best(q, Power[j]) # {}
                                 => Power[j] \in sizes
    BY <1>3
  <2>4. QED
    BY <1>9, <1>10, <2>1, <2>2, <2>3
<1>12. CASE ~(MatchesAny(bits[bf[1]], ks) /\ HasMatchWithin(q, ks))
  <2>1. GetSingleRangeCover(q, ks) = {}
    BY <1>12 DEF GetSingleRangeCover
  <2>2. QED
    BY <1>12, <2>1
<1>13. QED
  BY <1>11, <1>12

(* For a tree that is used with one kind of insert: a query that covers    *)
(* the slot of a settled record and has one of its keywords gets a cover,  *)
(* and the record is filed under that cover.                               *)
THEOREM NothingIsMissed == "mixed" \notin Modes => (Spec => []NoFalseNegative)
<1> SUFFICES ASSUME "mixed" \notin Modes PROVE Spec => []NoFalseNegative
  OBVIOUS
<1>1. TreeInv => NoFalseNegative
  <2> SUFFICES ASSUME TreeInv, todo = <<>>, NEW r \in Inserted \ pending,
                      NEW k \in keywordsOf[r], NEW q \in Queries,
                      Contains(q, <<slotOf[r], slotOf[r]>>)
               PROVE  /\ GetSingleRangeCover(q, {k}) # {}
                      /\ GetSingleRangeCover(q, {k}) \subseteq DescendTree(slotOf[r])
    BY DEF NoFalseNegative
  <2>1. TypesHold /\ LeavesRemember
    BY DEF TreeInv
  <2>2. PICK i \in Slot : i = slotOf[r]
    BY <2>1 DEF TypesHold
  <2>3. Remembered(r, 1)
    <3>1. CASE mode = "incremental"
      <4>1. \A p \in Internal : Summary(bf, bits, p)
        BY <3>1, EmptySequences DEF TreeInv, Climbed
      <4>2. QED
        BY <2>1, <4>1, RootRemembers
    <3>2. CASE mode = "deferred"
      BY <3>2 DEF TreeInv, Rebuilding
    <3>3. QED
      BY <2>1, <3>1, <3>2 DEF TypesHold
  <2>4. Hash[k] \subseteq HashOf(keywordsOf[r])
    BY DEF HashOf
  <2>5. MatchesAny(bits[bf[1]], {k})
    BY <2>3, <2>4 DEF Remembered, MatchesAny, Lookup
  <2>6. q \in Slot \X Slot /\ q[1] <= i /\ i <= q[2]
    BY <2>2 DEF Queries, Contains
  <2>7. PICK P : TreeOf(P)
    BY TreeFacts
  <2>8. Slot = 0 .. P - 1 /\ P \in Nat
    BY <2>7 DEF TreeOf
  <2>9. i \in q[1] .. q[2]
    BY <2>6, <2>8
  <2>10. HasMatchWithin(q, {k})
    <3>1. Hash[k] \subseteq bits[bf[LeafOf(i)]]
      BY <2>1, <2>2, <2>4 DEF LeavesRemember, Remembered
    <3>2. MatchesAny(bits[bf[LeafOf(i)]], {k})
      BY <3>1 DEF MatchesAny, Lookup
    <3>3. QED
      BY <2>9, <3>2 DEF HasMatchWithin
  <2>11. PICK s : GetSingleRangeCover(q, {k}) = Best(q, s) /\ Best(q, s) # {}
    BY <2>5, <2>10, CoverIsBest
  <2>12. ASSUME NEW x \in Best(q, s) PROVE x \in DescendTree(i)
    <3>1. Contains(x, q) /\ Locate(x) # {}
      BY BestIsUsable
    <3>2. PICK v \in Node : RangeOf[v] = x \/ x \in Middles(v)
      BY <3>1, LocatedBlocks
    <3>3. /\ x \in Int \X Int /\ RangeOf[v] \in Int \X Int
          /\ RangeOf[v][1] <= x[1] /\ x[2] <= RangeOf[v][2]
      <4>1. RangeOf[v] \in Int \X Int
        BY <2>7, RangesAreInside
      <4>2. CASE RangeOf[v] = x
        BY <4>1, <4>2
      <4>3. CASE x \in Middles(v)
        BY <4>1, <4>3, MiddlesAreWithin
      <4>4. QED
        BY <3>2, <4>2, <4>3
    <3>4. x[1] <= q[1] /\ q[2] <= x[2]
      BY <2>6, <2>8, <3>1, <3>3 DEF Contains
    <3>5. Contains(x, <<i, i>>) /\ Contains(RangeOf[v], <<i, i>>)
      <4>1. PICK a \in Int, b \in Int, c \in Int, d \in Int, e \in Int, f \in Int :
              /\ x[1] = a /\ x[2] = b /\ RangeOf[v][1] = c /\ RangeOf[v][2] = d
              /\ q[1] = e /\ q[2] = f
        <5>1. q[1] \in Int /\ q[2] \in Int
          BY <2>6, <2>8
        <5>2. x[1] \in Int /\ x[2] \in Int /\ RangeOf[v][1] \in Int /\ RangeOf[v][2] \in Int
          BY <3>3
        <5>3. QED
          BY <5>1, <5>2
      <4>2. i \in Int /\ c <= a /\ a <= e /\ e <= i /\ i <= f /\ f <= b /\ b <= d
        BY <2>6, <2>8, <3>3, <3>4, <4>1
      <4>3. a <= i /\ i <= b /\ c <= i /\ i <= d
        BY <4>2
      <4>4. QED
        BY <4>1, <4>3 DEF Contains
    <3>6. QED
      BY <3>2, <3>5 DEF DescendTree
  <2>13. QED
    BY <2>2, <2>11, <2>12
<1>2. Spec => []TreeInv
  BY TreeInvHolds
<1>3. QED
  BY <1>1, <1>2, PTL

-----------------------------------------------------------------------------
(* The search for the cover tries the right ranges                         *)

LEMMA Quotient ==
  ASSUME NEW y \in Nat, NEW e \in Nat \ {0}, NEW n \in Nat, y * e <= n, n < y * e + e
  PROVE  n \div e = y
<1>1. PICK z \in Nat : z = n \div e
  OBVIOUS
<1>2. z * e <= n /\ n < z * e + e
  BY <1>1
<1>3. ~(z < y)
  <2>1. CASE z + 1 <= y
    <3>1. (z + 1) * e <= y * e
      BY <2>1
    <3>2. (z + 1) * e = z * e + e
      OBVIOUS
    <3>3. z * e \in Nat /\ y * e \in Nat
      OBVIOUS
    <3>4. QED
      BY <1>2, <3>1, <3>2, <3>3
  <2>2. QED
    BY <2>1
<1>4. ~(y < z)
  <2>1. CASE y + 1 <= z
    <3>1. (y + 1) * e <= z * e
      BY <2>1
    <3>2. (y + 1) * e = y * e + e
      OBVIOUS
    <3>3. z * e \in Nat /\ y * e \in Nat
      OBVIOUS
    <3>4. QED
      BY <1>2, <3>1, <3>2, <3>3
  <2>2. QED
    BY <2>1
<1>5. QED
  BY <1>1, <1>3, <1>4

(* A range of t slots that starts at a multiple of half its size. *)
Aligned(P, b, j, t, e, y) ==
  /\ j \in 0 .. Height /\ t = Power[j] /\ t \in Nat \ {0} /\ e \in Nat \ {0} /\ y \in Nat
  /\ (t = 1 /\ e = 1) \/ t = 2 * e
  /\ b = <<y * e, y * e + t - 1>> /\ y * e + t <= P

LEMMA PowersDouble ==
  ASSUME NEW j \in 0 .. Height
  PROVE  /\ Power[j] \in Nat \ {0}
         /\ Power[j] = 1 \/ \E e \in Nat \ {0} : j - 1 \in 0 .. Height /\ e = Power[j - 1] /\ Power[j] = 2 * e
<1>1. PICK h \in Nat : h = Height /\ j \in 0 .. h
  BY HeightAssumption
<1>2. j \in 0 .. h + 1
  BY <1>1
<1>3. Power[j] \in Nat \ {0}
  BY <1>1, <1>2, PowerFacts
<1>4. CASE j = 0
  BY <1>3, <1>4, PowerFacts
<1>5. CASE j # 0
  <2>1. j - 1 \in 0 .. h /\ j - 1 \in 0 .. h + 1 /\ (j - 1) + 1 = j
    BY <1>1, <1>5
  <2>2. Power[j - 1] \in Nat \ {0} /\ Power[(j - 1) + 1] = 2 * Power[j - 1]
    BY <1>1, <2>1, PowerFacts
  <2>3. QED
    BY <1>1, <1>3, <2>1, <2>2
<1>6. QED
  BY <1>4, <1>5

LEMMA RangesAreAligned ==
  ASSUME NEW P, TreeOf(P), NEW v \in Node
  PROVE  \E j, t, e, y : Aligned(P, RangeOf[v], j, t, e, y)
<1>1. PICK k, d, s : Sized(P, v, k, d, s)
  BY RangesAreSized
<1>2. /\ k \in 0 .. Height /\ d \in Nat \ {0} /\ s \in Nat \ {0} /\ s = Power[Height - k]
      /\ d <= v /\ s * d = P /\ v \in Nat /\ P \in Nat
      /\ RangeOf[v] = <<v * s - P, v * s + s - 1 - P>>
  BY <1>1, NodeFacts DEF Sized, TreeOf
<1>3. PICK x \in Nat : x = v - d
  BY <1>2
<1>4. x * s = v * s - P
  <2>1. v = x + d
    BY <1>2, <1>3
  <2>2. v * s = x * s + d * s
    BY <1>2, <2>1
  <2>3. d * s = P
    BY <1>2
  <2>4. PICK m \in Int, n \in Int : m = x * s /\ n = v * s /\ n = m + P
    BY <1>2, <2>2, <2>3
  <2>5. m = n - P
    BY <1>2, <2>4
  <2>6. QED
    BY <2>4, <2>5
<1>5. PICK m \in Nat : m = x * s /\ RangeOf[v] = <<m, m + s - 1>> /\ m + s <= P
  <2>1. PICK m \in Nat, n \in Int : m = x * s /\ n = v * s /\ m = n - P
    BY <1>2, <1>4
  <2>2. RangeOf[v] = <<n - P, n + s - 1 - P>>
    BY <1>2, <2>1
  <2>3. n - P = m /\ n + s - 1 - P = m + s - 1 /\ m + s - 1 \in Int
    BY <1>2, <2>1
  <2>4. RangeOf[v][2] <= P - 1
    BY RangesAreInside
  <2>5. RangeOf[v] = <<m, m + s - 1>>
    BY <2>2, <2>3
  <2>6. m + s <= P
    BY <1>2, <2>1, <2>4, <2>5
  <2>7. QED
    BY <2>1, <2>5, <2>6
<1>6. PICK j \in 0 .. Height : j = Height - k
  BY <1>2, HeightAssumption
<1>7. CASE s = 1
  <2>1. Aligned(P, RangeOf[v], j, 1, 1, m)
    <3>1. m * 1 = m
      OBVIOUS
    <3>2. QED
      BY <1>2, <1>5, <1>6, <1>7, <3>1 DEF Aligned
  <2>2. QED
    BY <2>1
<1>8. CASE s # 1
  <2>1. PICK e \in Nat \ {0} : s = 2 * e
    BY <1>2, <1>6, <1>8, PowersDouble
  <2>2. PICK y \in Nat : y = 2 * x
    OBVIOUS
  <2>3. y * e = m
    BY <1>2, <1>5, <2>1, <2>2
  <2>4. Aligned(P, RangeOf[v], j, s, e, y)
    BY <1>2, <1>5, <1>6, <2>1, <2>3 DEF Aligned
  <2>5. QED
    BY <2>4
<1>9. QED
  BY <1>7, <1>8

LEMMA MiddlesAreAligned ==
  ASSUME NEW P, TreeOf(P), NEW v \in Node, NEW b \in Middles(v)
  PROVE  \E j, t, e, y : Aligned(P, b, j, t, e, y)
<1>1. PICK j2, s, d, x : Aligned(P, RangeOf[v], j2, s, d, x)
  BY RangesAreAligned
<1>2. /\ j2 \in 0 .. Height /\ s = Power[j2] /\ s \in Nat \ {0} /\ d \in Nat \ {0} /\ x \in Nat
      /\ (s = 1 /\ d = 1) \/ s = 2 * d
      /\ RangeOf[v] = <<x * d, x * d + s - 1>> /\ x * d + s <= P
  BY <1>1 DEF Aligned
<1>3. PICK m \in Nat : m = x * d /\ RangeOf[v] = <<m, m + s - 1>> /\ m + s <= P
  BY <1>2
<1>4. PICK w \in Int : w = s - 1 /\ RangeOf[v][2] - RangeOf[v][1] = w
  BY <1>2, <1>3
<1>5. w > 1 /\ b = <<m + w \div 2 - w \div 4, m + w \div 2 + w \div 4 + (IF w % 4 > 0 THEN 1 ELSE 0)>>
  BY <1>3, <1>4 DEF Middles
<1>6. s > 2 /\ s = 2 * d
  BY <1>2, <1>4, <1>5
<1>7. PICK d2 \in Nat : j2 - 1 \in 0 .. Height /\ d2 = Power[j2 - 1] /\ s = 2 * d2
  <2>1. Power[j2] # 1
    BY <1>2, <1>6
  <2>2. \E e \in Nat \ {0} : j2 - 1 \in 0 .. Height /\ e = Power[j2 - 1] /\ Power[j2] = 2 * e
    BY <1>2, <2>1, PowersDouble
  <2>3. QED
    BY <1>2, <2>2
<1>8. d2 = d
  <2>1. d \in Int /\ d2 \in Int /\ s = 2 * d /\ s = 2 * d2
    BY <1>2, <1>6, <1>7
  <2>2. QED
    BY ONLY <2>1
<1>9. PICK e \in Nat \ {0} : d = 2 * e
  <2>1. d # 1
    BY <1>2, <1>6
  <2>2. QED
    BY <1>7, <1>8, <2>1, PowersDouble
<1>10. w = 4 * e - 1
  BY <1>4, <1>6, <1>9
<1>11. w \div 2 = 2 * e - 1 /\ w \div 4 = e - 1 /\ w % 4 = 3
  BY <1>10
<1>12. b = <<m + e, m + e + 2 * e - 1>>
  <2>1. m + w \div 2 - w \div 4 = m + e
    BY <1>11
  <2>2. m + w \div 2 + w \div 4 + 1 = m + e + 2 * e - 1
    BY <1>11
  <2>3. (IF w % 4 > 0 THEN 1 ELSE 0) = 1
    BY <1>11
  <2>4. QED
    BY <1>5, <2>1, <2>2, <2>3
<1>13. m + e + 2 * e <= P
  <2>1. P \in Nat
    BY DEF TreeOf
  <2>2. QED
    BY <1>3, <1>6, <1>9, <2>1
<1>14. PICK y \in Nat : y = 2 * x + 1
  BY <1>2
<1>15. y * e = m + e
  <2>1. m = x * (2 * e)
    BY <1>3, <1>9
  <2>2. y * e = x * (2 * e) + e
    BY <1>2, <1>14
  <2>3. QED
    BY <2>1, <2>2
<1>16. Aligned(P, b, j2 - 1, d, e, y)
  BY <1>7, <1>8, <1>9, <1>12, <1>13, <1>15 DEF Aligned
<1>17. QED
  BY <1>16

(* Such a range that contains the query is one of the two candidates.      *)
LEMMA AlignedIsCandidate ==
  ASSUME NEW P, TreeOf(P), NEW q \in Queries, NEW b, NEW j, NEW t, NEW e, NEW y,
         Aligned(P, b, j, t, e, y), Contains(b, q)
  PROVE  b \in {Candidates(q, t)[1], Candidates(q, t)[2]}
<1>1. /\ t \in Nat \ {0} /\ e \in Nat \ {0} /\ y \in Nat
      /\ (t = 1 /\ e = 1) \/ t = 2 * e
      /\ b = <<y * e, y * e + t - 1>> /\ y * e + t <= P
  BY DEF Aligned
<1>2. P = Power[Height] /\ P \in Nat
  BY DEF TreeOf
<1>3. PICK q1 \in Nat, q2 \in Nat : q = <<q1, q2>> /\ q1 <= q2
  <2>1. Slot = 0 .. P - 1
    BY DEF TreeOf
  <2>2. QED
    BY <1>2, <2>1 DEF Queries
<1>4. PICK m \in Nat : m = y * e /\ b = <<m, m + t - 1>> /\ m + t <= P
  BY <1>1
<1>5. m <= q1 /\ q2 <= m + t - 1
  BY <1>1, <1>3, <1>4 DEF Contains
<1>6. PICK offset : offset = IF t \div 2 < 1 THEN 1 ELSE t \div 2
  OBVIOUS
<1>7. offset = e
  BY <1>1, <1>6
<1> DEFINE Clamp(z) == IF z < 0 THEN 0 ELSE IF z > P - t THEN P - t ELSE z
           First == Clamp((q1 \div e) * e)
           Second == Clamp(((q2 + e) \div e) * e - t)
<1>8. /\ Candidates(q, t)[1] = <<First, First + t - 1>>
      /\ Candidates(q, t)[2] = <<Second, Second + t - 1>>
  BY <1>2, <1>3, <1>6, <1>7 DEF Candidates
<1>9. Clamp(m) = m
  BY <1>1, <1>2, <1>4
<1>10. CASE q1 < m + e
  <2>1. q1 \div e = y
    BY <1>1, <1>4, <1>5, <1>10, Quotient
  <2>2. (q1 \div e) * e = m
    BY <1>4, <2>1
  <2>3. First = m
    <3> HIDE DEF Clamp
    <3>1. QED
      BY <1>9, <2>2
  <2>4. b = <<First, First + t - 1>>
    BY <1>4, <2>3
  <2> HIDE DEF First, Second
  <2>5. QED
    BY <1>8, <2>4
<1>11. CASE ~(q1 < m + e)
  <2>1. t = 2 * e
    BY <1>1, <1>5, <1>3, <1>11
  <2>2. PICK z \in Nat, n \in Nat : z = y + 2 /\ n = q2 + e
    BY <1>1
  <2>3. z * e = m + 2 * e
    BY <1>1, <1>4, <2>2
  <2>4. m + 2 * e <= n /\ n < m + 2 * e + e
    BY <1>1, <1>3, <1>5, <1>11, <2>1, <2>2
  <2>5. n \div e = z
    BY <1>1, <2>3, <2>4, Quotient
  <2>6. ((q2 + e) \div e) * e - t = m
    <3>1. PICK w \in Int : w = ((q2 + e) \div e) * e /\ w = m + 2 * e
      BY <1>1, <2>2, <2>3, <2>5
    <3>2. w - t = m
      BY <1>1, <2>1, <3>1
    <3>3. QED
      BY <3>1, <3>2
  <2>7. Second = m
    <3> HIDE DEF Clamp
    <3>1. QED
      BY <1>9, <2>6
  <2>8. b = <<Second, Second + t - 1>>
    BY <1>4, <2>7
  <2> HIDE DEF First, Second
  <2>9. QED
    BY <1>8, <2>8
<1>12. QED
  BY <1>10, <1>11

(* A candidate has the size it is a candidate of.                          *)
LEMMA CandidateSize ==
  ASSUME NEW q \in Slot \X Slot, NEW s \in Nat \ {0}, NEW x,
         x \in {Candidates(q, s)[1], Candidates(q, s)[2]}
  PROVE  x[1] \in Int /\ x[2] \in Int /\ x[2] - x[1] = s - 1
<1>1. PICK P : TreeOf(P)
  BY TreeFacts
<1>2. P = Power[Height] /\ P \in Nat /\ Slot = 0 .. P - 1
  BY <1>1 DEF TreeOf
<1>3. PICK i \in Int, j \in Int : q = <<i, j>>
  BY <1>2
<1>4. PICK offset \in Nat \ {0} : offset = IF s \div 2 < 1 THEN 1 ELSE s \div 2
  OBVIOUS
<1> DEFINE Clamp(z) == IF z < 0 THEN 0 ELSE IF z > P - s THEN P - s ELSE z
           First == Clamp((i \div offset) * offset)
           Second == Clamp(((j + offset) \div offset) * offset - s)
<1>5. /\ Candidates(q, s)[1] = <<First, First + s - 1>>
      /\ Candidates(q, s)[2] = <<Second, Second + s - 1>>
  BY <1>2, <1>3, <1>4 DEF Candidates
<1>6. \A z \in Int : Clamp(z) \in Int
  BY <1>2
<1>7. (i \div offset) * offset \in Int /\ ((j + offset) \div offset) * offset - s \in Int
  <2>1. i \div offset \in Int /\ (j + offset) \div offset \in Int
    BY <1>4
  <2>2. QED
    BY <2>1
<1>8. First \in Int /\ Second \in Int
  <2> HIDE DEF Clamp
  <2>1. QED
    BY <1>6, <1>7
<1>9. \A z \in Int : z + s - 1 \in Int /\ (z + s - 1) - z = s - 1
  OBVIOUS
<1> HIDE DEF First, Second
<1>10. PICK z \in Int : x = <<z, z + s - 1>>
  BY <1>5, <1>8
<1>11. QED
  BY <1>9, <1>10

(* No range of the tree that contains the query is smaller than its cover, *)
(* though the search tries only two candidates of each size.               *)
THEOREM CoverIsTheSmallest == Spec => []CoverIsMinimal
<1>1. CoverIsMinimal
  <2> SUFFICES ASSUME NEW q \in Queries, NEW ks \in KeywordLists,
                      NEW c \in GetSingleRangeCover(q, ks)
               PROVE  /\ Contains(c, q)
                      /\ \A b \in Blocks : Contains(b, q) => c[2] - c[1] <= b[2] - b[1]
    BY DEF CoverIsMinimal
  <2>1. PICK P : TreeOf(P)
    BY TreeFacts
  <2>2. PICK k \in 0 .. Height :
          /\ c \in Best(q, Power[k])
          /\ \A j \in 0 .. Height : Power[j] >= q[2] - q[1] + 1 /\ Best(q, Power[j]) # {}
                                      => Power[k] <= Power[j]
    BY CoverIsBest
  <2>3. PICK s \in Nat \ {0} : s = Power[k]
    BY PowersDouble
  <2>4. Contains(c, q) /\ c \in {Candidates(q, s)[1], Candidates(q, s)[2]}
    BY <2>2, <2>3, BestIsUsable
  <2>5. q \in Slot \X Slot
    BY DEF Queries
  <2>6. c[1] \in Int /\ c[2] \in Int /\ c[2] - c[1] = s - 1
    BY <2>4, <2>5, CandidateSize
  <2>7. ASSUME NEW b \in Blocks, Contains(b, q) PROVE c[2] - c[1] <= b[2] - b[1]
    <3>1. PICK v \in Node : RangeOf[v] = b \/ b \in Middles(v)
      BY DEF Blocks
    <3>2. PICK j, t, e, y : Aligned(P, b, j, t, e, y)
      BY <2>1, <3>1, RangesAreAligned, MiddlesAreAligned
    <3>3. b \in {Candidates(q, t)[1], Candidates(q, t)[2]}
      BY <2>1, <2>7, <3>2, AlignedIsCandidate
    <3>4. Locate(b) # {}
      BY <3>1, LocatedBlocks
    <3>5. Best(q, t) # {}
      BY <2>7, <3>3, <3>4, BestIsUsable
    <3>6. j \in 0 .. Height /\ t = Power[j] /\ t \in Nat \ {0}
      BY <3>2 DEF Aligned
    <3>7. b[1] \in Int /\ b[2] \in Int /\ b[2] - b[1] = t - 1
      BY <2>5, <3>3, <3>6, CandidateSize
    <3>8. t >= q[2] - q[1] + 1
      <4>1. Slot = 0 .. P - 1 /\ P \in Nat
        BY <2>1 DEF TreeOf
      <4>2. q[1] \in Int /\ q[2] \in Int
        BY <2>5, <4>1
      <4>3. b[1] <= q[1] /\ q[2] <= b[2]
        BY <2>7, <3>7, <4>2 DEF Contains
      <4>4. QED
        BY <3>6, <3>7, <4>2, <4>3
    <3>9. s <= t
      BY <2>2, <2>3, <3>5, <3>6, <3>8
    <3>10. QED
      BY <2>6, <3>6, <3>7, <3>9
  <2>8. QED
    BY <2>4, <2>7
<1>2. QED
  BY <1>1, PTL
=============================================================================
