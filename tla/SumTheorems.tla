---------------------------- MODULE SumTheorems ----------------------------
(***************************************************************************)
(* Induction, recursive functions, and sums over finite sets.              *)
(*                                                                         *)
(* The induction theorems of the library take a predicate as a parameter,  *)
(* which the provers at hand cannot instantiate.  Here the predicate is a  *)
(* set, the elements it holds for.  With it, SumFunctionOnSet of the       *)
(* community modules, a recursive function over the subsets of a set, is   *)
(* shown to add up what its name says.                                     *)
(***************************************************************************)
EXTENDS Integers, FiniteSets, Functions, TLAPS, FiniteSetTheorems,
        WellFoundedInduction

(* Every non-empty set of naturals has a least element. *)
LEMMA NatHasLeast ==
  ASSUME NEW T \in SUBSET Nat, T # {}
  PROVE  \E x \in T : \A y \in T : x <= y
<1> DEFINE R == OpToRel(<, Nat)
<1>1. IsWellFoundedOn(R, Nat)
  BY NatLessThanWellFounded
<1>2. \A x, y \in Nat : x < y => <<x, y>> \in R
  BY DEF OpToRel
<1> HIDE DEF R
<1>3. PICK x \in T : \A y \in T : ~(<<y, x>> \in R)
  BY <1>1, WFMin
<1>4. \A y \in T : ~(y < x)
  BY <1>2, <1>3
<1>5. QED
  BY <1>4

(* A bounded one has a greatest. *)
LEMMA BoundedHasGreatest ==
  ASSUME NEW b \in Nat, NEW T \in SUBSET (0 .. b), T # {}
  PROVE  \E x \in T : \A y \in T : y <= x
<1> DEFINE M == {b - x : x \in T}
<1>1. M \in SUBSET Nat /\ M # {}
  <2>1. \A x \in T : b - x \in Nat
    OBVIOUS
  <2>2. QED
    BY <2>1
<1>2. PICK m \in M : \A n \in M : m <= n
  <2> HIDE DEF M
  <2>1. QED
    BY <1>1, NatHasLeast
<1>3. PICK x \in T : m = b - x
  BY <1>2
<1>4. \A y \in T : b - x <= b - y
  BY <1>2, <1>3
<1>5. \A y \in T : y <= x
  BY <1>4
<1>6. QED
  BY <1>5

(* Induction over the naturals: P is the set of those the claim holds for. *)
THEOREM NaturalInduction ==
  ASSUME NEW P, 0 \in P, \A n \in Nat : n \in P => n + 1 \in P
  PROVE  Nat \subseteq P
<1> DEFINE T == Nat \ P
<1>1. CASE T # {}
  <2>1. PICK n \in T : \A m \in T : n <= m
    BY <1>1, NatHasLeast
  <2>2. n # 0 /\ n - 1 \in Nat /\ n - 1 \notin T
    BY <2>1
  <2>3. (n - 1) + 1 \in P
    BY <2>2
  <2>4. QED
    BY <2>1, <2>3
<1>2. QED
  BY <1>1

(* Induction over the subsets of a finite set, from smaller ones to larger.*)
THEOREM SubsetInduction ==
  ASSUME NEW S, IsFiniteSet(S), NEW P,
         \A s \in SUBSET S : (\A x \in s : s \ {x} \in P) => s \in P
  PROVE  SUBSET S \subseteq P
<1> DEFINE Q == {n \in Nat : \A s \in SUBSET S : Cardinality(s) = n => s \in P}
<1>0. \A s \in SUBSET S : /\ Cardinality(s) \in Nat /\ (Cardinality(s) = 0 <=> s = {})
                          /\ \A x \in s : Cardinality(s \ {x}) = Cardinality(s) - 1
  BY FS_Subset, FS_CardinalityType, FS_EmptySet, FS_RemoveElement
<1>1. 0 \in Q
  BY <1>0
<1>2. ASSUME NEW n \in Nat, n \in Q PROVE n + 1 \in Q
  <2>1. ASSUME NEW s \in SUBSET S, Cardinality(s) = n + 1 PROVE s \in P
    <3>1. \A x \in s : Cardinality(s \ {x}) = n
      BY <1>0, <2>1
    <3>2. QED
      BY <1>2, <3>1
  <2>2. QED
    BY <2>1
<1>3. Nat \subseteq Q
  <2> HIDE DEF Q
  <2>1. QED
    BY <1>1, <1>2, NaturalInduction
<1>4. QED
  BY <1>0, <1>3

-----------------------------------------------------------------------------
(* The equations of the recursion, for the subsets of S of up to n elements. *)
Sums(f, S, n, F) ==
  F = [s \in SUBSET S |->
         IF s = {} \/ Cardinality(s) > n THEN 0
         ELSE f[CHOOSE x \in s : TRUE] + F[s \ {CHOOSE x \in s : TRUE}]]

(* They have a solution for every n. *)
LEMMA SumsExist ==
  ASSUME NEW f, NEW S, IsFiniteSet(S), NEW n \in Nat
  PROVE  \E F : Sums(f, S, n, F)
<1> DEFINE Q == {k \in Nat : \E F : Sums(f, S, k, F)}
<1>0. \A s \in SUBSET S : /\ Cardinality(s) \in Nat /\ (Cardinality(s) = 0 <=> s = {})
                          /\ \A x \in s : Cardinality(s \ {x}) = Cardinality(s) - 1
  BY FS_Subset, FS_CardinalityType, FS_EmptySet, FS_RemoveElement
<1>1. Sums(f, S, 0, [s \in SUBSET S |-> 0])
  BY <1>0 DEF Sums
<1>2. ASSUME NEW k \in Nat, NEW F, Sums(f, S, k, F)
      PROVE  \E G : Sums(f, S, k + 1, G)
  <2> DEFINE c(s) == CHOOSE x \in s : TRUE
             G == [s \in SUBSET S |->
                     IF s = {} \/ Cardinality(s) > k + 1 THEN 0 ELSE f[c(s)] + F[s \ {c(s)}]]
  <2>1. ASSUME NEW s \in SUBSET S, s # {}, Cardinality(s) <= k
        PROVE  G[s] = F[s]
    <3>1. ~(Cardinality(s) > k + 1) /\ ~(Cardinality(s) > k)
      BY <1>0, <2>1
    <3>2. QED
      BY <2>1, <3>1, <1>2 DEF Sums
  <2>2. G[{}] = F[{}]
    BY <1>2 DEF Sums
  <2>3. ASSUME NEW s \in SUBSET S, s # {}, ~(Cardinality(s) > k + 1)
        PROVE  G[s] = f[c(s)] + G[s \ {c(s)}]
    <3>1. c(s) \in s
      BY <2>3
    <3>2. Cardinality(s \ {c(s)}) <= k
      BY <1>0, <2>3, <3>1
    <3>3. G[s \ {c(s)}] = F[s \ {c(s)}]
      BY <2>1, <2>2, <3>2
    <3>4. QED
      BY <2>3, <3>3
  <2>4. Sums(f, S, k + 1, G)
    <3> DEFINE H == [s \in SUBSET S |->
                       IF s = {} \/ Cardinality(s) > k + 1 THEN 0 ELSE f[c(s)] + G[s \ {c(s)}]]
    <3>1. \A s \in SUBSET S : G[s] = H[s]
      BY <2>3
    <3>2. G = H
      BY <3>1
    <3>3. QED
      BY <3>2 DEF Sums
  <2>5. QED
    BY <2>4
<1>3. 0 \in Q /\ \A k \in Nat : k \in Q => k + 1 \in Q
  BY <1>1, <1>2
<1>4. Nat \subseteq Q
  <2> HIDE DEF Q
  <2>1. QED
    BY <1>3, NaturalInduction
<1>5. QED
  BY <1>4

(* The equations without a bound. *)
Adds(f, S, F) ==
  F = [s \in SUBSET S |->
         IF s = {} THEN 0 ELSE f[CHOOSE x \in s : TRUE] + F[s \ {CHOOSE x \in s : TRUE}]]

(* They have a solution, and SumFunctionOnSet takes one. *)
LEMMA SumAdds ==
  ASSUME NEW f, NEW S, IsFiniteSet(S)
  PROVE  \E F : Adds(f, S, F) /\ SumFunctionOnSet(f, S) = F[S]
<1>1. Cardinality(S) \in Nat /\ \A s \in SUBSET S : ~(Cardinality(s) > Cardinality(S))
  BY FS_CardinalityType, FS_Subset
<1>2. PICK F : Sums(f, S, Cardinality(S), F)
  BY <1>1, SumsExist
<1>3. Adds(f, S, F)
  <2>1. [s \in SUBSET S |->
           IF s = {} \/ Cardinality(s) > Cardinality(S) THEN 0
           ELSE f[CHOOSE x \in s : TRUE] + F[s \ {CHOOSE x \in s : TRUE}]]
        = [s \in SUBSET S |->
             IF s = {} THEN 0
             ELSE f[CHOOSE x \in s : TRUE] + F[s \ {CHOOSE x \in s : TRUE}]]
    BY <1>1
  <2>2. QED
    BY <1>2, <2>1 DEF Sums, Adds
<1>4. SumFunctionOnSet(f, S) = (CHOOSE G : Adds(f, S, G))[S]
  BY DEF SumFunctionOnSet, FoldFunctionOnSet, MapThenFoldSet, Adds
<1>5. QED
  BY <1>3, <1>4

(* Any two solutions agree, also over different sets. *)
LEMMA SumIsUnique ==
  ASSUME NEW f, NEW g, NEW S, IsFiniteSet(S), NEW U, NEW F, NEW G, S \subseteq U,
         Adds(f, S, F), Adds(g, U, G), \A x \in S : f[x] = g[x]
  PROVE  F[S] = G[S]
<1> DEFINE P == {s \in SUBSET S : F[s] = G[s]}
<1>1. ASSUME NEW s \in SUBSET S, \A x \in s : s \ {x} \in P
      PROVE  s \in P
  <2>0. s \in SUBSET U
    OBVIOUS
  <2>1. CASE s = {}
    <3>1. F[s] = 0 /\ G[s] = 0
      BY <2>0, <2>1 DEF Adds
    <3>2. QED
      BY <3>1
  <2>2. CASE s # {}
    <3> DEFINE x == CHOOSE y \in s : TRUE
    <3>1. x \in s /\ F[s \ {x}] = G[s \ {x}] /\ f[x] = g[x]
      BY <1>1, <2>2
    <3>2. F[s] = f[x] + F[s \ {x}]
      BY <2>2 DEF Adds
    <3>3. G[s] = g[x] + G[s \ {x}]
      BY <2>0, <2>2 DEF Adds
    <3>4. QED
      BY <3>1, <3>2, <3>3
  <2>3. QED
    BY <2>1, <2>2
<1>2. SUBSET S \subseteq P
  <2> HIDE DEF P
  <2>1. QED
    BY <1>1, SubsetInduction
<1>3. QED
  BY <1>2

(* The sum depends on the summands only. *)
THEOREM SumOfEqualFunctions ==
  ASSUME NEW S, IsFiniteSet(S), NEW f, NEW g, \A x \in S : f[x] = g[x]
  PROVE  SumFunctionOnSet(f, S) = SumFunctionOnSet(g, S)
<1>1. PICK F : Adds(f, S, F) /\ SumFunctionOnSet(f, S) = F[S]
  BY SumAdds
<1>2. PICK G : Adds(g, S, G) /\ SumFunctionOnSet(g, S) = G[S]
  BY SumAdds
<1>3. F[S] = G[S]
  BY <1>1, <1>2, SumIsUnique
<1>4. QED
  BY <1>1, <1>2, <1>3

(* Nothing adds up to zero; the first element chosen is added to the rest. *)
LEMMA SumStep ==
  ASSUME NEW f, NEW S, IsFiniteSet(S)
  PROVE  /\ S = {} => SumFunctionOnSet(f, S) = 0
         /\ S # {} => LET x == CHOOSE y \in S : TRUE IN
                       SumFunctionOnSet(f, S) = f[x] + SumFunctionOnSet(f, S \ {x})
<1>1. PICK F : Adds(f, S, F) /\ SumFunctionOnSet(f, S) = F[S]
  BY SumAdds
<1>2. S = {} => F[S] = 0
  BY <1>1 DEF Adds
<1>3. ASSUME S # {}
      PROVE  LET x == CHOOSE y \in S : TRUE IN
             SumFunctionOnSet(f, S) = f[x] + SumFunctionOnSet(f, S \ {x})
  <2> DEFINE x == CHOOSE y \in S : TRUE
             R == S \ {x}
  <2>1. F[S] = f[x] + F[R]
    BY <1>1, <1>3 DEF Adds
  <2>2. IsFiniteSet(R) /\ R \subseteq S
    BY FS_RemoveElement
  <2>3. PICK G : Adds(f, R, G) /\ SumFunctionOnSet(f, R) = G[R]
    BY <2>2, SumAdds
  <2>4. G[R] = F[R]
    BY <1>1, <2>2, <2>3, SumIsUnique
  <2>5. QED
    BY <1>1, <2>1, <2>3, <2>4
<1>4. QED
  BY <1>1, <1>2, <1>3

(* A sum of naturals is a natural number. *)
THEOREM SumType ==
  ASSUME NEW S, IsFiniteSet(S), NEW f, \A x \in S : f[x] \in Nat
  PROVE  SumFunctionOnSet(f, S) \in Nat
<1> DEFINE P == {s \in SUBSET S : SumFunctionOnSet(f, s) \in Nat}
<1>1. ASSUME NEW s \in SUBSET S, \A x \in s : s \ {x} \in P
      PROVE  s \in P
  <2>1. IsFiniteSet(s)
    BY FS_Subset
  <2>2. CASE s = {}
    <3>1. SumFunctionOnSet(f, s) = 0
      BY <2>1, <2>2, SumStep
    <3>2. QED
      BY <3>1
  <2>3. CASE s # {}
    <3> DEFINE x == CHOOSE y \in s : TRUE
    <3>1. x \in s /\ f[x] \in Nat /\ SumFunctionOnSet(f, s \ {x}) \in Nat
      BY <1>1, <2>3
    <3>2. SumFunctionOnSet(f, s) = f[x] + SumFunctionOnSet(f, s \ {x})
      BY <2>1, <2>3, SumStep
    <3>3. QED
      BY <3>1, <3>2
  <2>4. QED
    BY <2>2, <2>3
<1>2. SUBSET S \subseteq P
  <2> HIDE DEF P
  <2>1. QED
    BY <1>1, SubsetInduction
<1>3. QED
  BY <1>2

(* Any element may be taken out of a sum, not only the one chosen first. *)
THEOREM SumTakeOut ==
  ASSUME NEW S, IsFiniteSet(S), NEW f, \A x \in S : f[x] \in Nat, NEW z \in S
  PROVE  SumFunctionOnSet(f, S) = f[z] + SumFunctionOnSet(f, S \ {z})
<1> DEFINE P == {s \in SUBSET S : \A y \in s :
                   SumFunctionOnSet(f, s) = f[y] + SumFunctionOnSet(f, s \ {y})}
<1>1. ASSUME NEW s \in SUBSET S, \A x \in s : s \ {x} \in P
      PROVE  s \in P
  <2>1. \A t \in SUBSET s : IsFiniteSet(t) /\ SumFunctionOnSet(f, t) \in Nat
    <3>1. \A t \in SUBSET s : IsFiniteSet(t)
      BY FS_Subset
    <3>2. QED
      BY <3>1, SumType
  <2>2. SUFFICES ASSUME NEW y \in s
                 PROVE  SumFunctionOnSet(f, s) = f[y] + SumFunctionOnSet(f, s \ {y})
    OBVIOUS
  <2> DEFINE x == CHOOSE w \in s : TRUE
  <2>3. x \in s /\ SumFunctionOnSet(f, s) = f[x] + SumFunctionOnSet(f, s \ {x})
    BY <2>1, <2>2, SumStep
  <2>4. CASE x = y
    BY <2>3, <2>4
  <2>5. CASE x # y
    <3> HIDE DEF x
    <3>1. SumFunctionOnSet(f, s \ {x}) = f[y] + SumFunctionOnSet(f, (s \ {x}) \ {y})
      BY <1>1, <2>2, <2>3, <2>5
    <3>2. SumFunctionOnSet(f, s \ {y}) = f[x] + SumFunctionOnSet(f, (s \ {y}) \ {x})
      BY <1>1, <2>2, <2>3, <2>5
    <3>3. (s \ {x}) \ {y} = (s \ {y}) \ {x}
      OBVIOUS
    <3>4. /\ f[x] \in Nat /\ f[y] \in Nat
          /\ SumFunctionOnSet(f, (s \ {x}) \ {y}) \in Nat
      BY <2>1, <2>2, <2>3
    <3>5. QED
      BY <2>3, <3>1, <3>2, <3>3, <3>4
  <2>6. QED
    BY <2>4, <2>5
<1>2. SUBSET S \subseteq P
  <2> HIDE DEF P
  <2>1. QED
    BY <1>1, SubsetInduction
<1>3. QED
  BY <1>2

(* Changing one summand changes the sum by as much. *)
THEOREM SumChange ==
  ASSUME NEW S, IsFiniteSet(S), NEW f, NEW g, NEW z \in S,
         \A x \in S : f[x] \in Nat, g[z] \in Nat, \A x \in S \ {z} : g[x] = f[x]
  PROVE  SumFunctionOnSet(g, S) = SumFunctionOnSet(f, S) - f[z] + g[z]
<1> DEFINE R == S \ {z}
<1>1. IsFiniteSet(R)
  BY FS_RemoveElement
<1>2. SumFunctionOnSet(f, S) = f[z] + SumFunctionOnSet(f, R)
  BY SumTakeOut
<1>3. SumFunctionOnSet(g, S) = g[z] + SumFunctionOnSet(g, R)
  BY SumTakeOut
<1>4. SumFunctionOnSet(g, R) = SumFunctionOnSet(f, R) /\ SumFunctionOnSet(f, R) \in Nat
  BY <1>1, SumOfEqualFunctions, SumType
<1>5. QED
  BY <1>2, <1>3, <1>4

(* Zeros add up to zero. *)
THEOREM SumOfZeros ==
  ASSUME NEW S, IsFiniteSet(S), NEW f, \A x \in S : f[x] = 0
  PROVE  SumFunctionOnSet(f, S) = 0
<1> DEFINE P == {s \in SUBSET S : SumFunctionOnSet(f, s) = 0}
<1>1. ASSUME NEW s \in SUBSET S, \A x \in s : s \ {x} \in P
      PROVE  s \in P
  <2>1. IsFiniteSet(s)
    BY FS_Subset
  <2>2. CASE s = {}
    BY <2>1, <2>2, SumStep
  <2>3. CASE s # {}
    <3> DEFINE x == CHOOSE y \in s : TRUE
    <3>1. x \in s /\ f[x] = 0 /\ SumFunctionOnSet(f, s \ {x}) = 0
      BY <1>1, <2>3
    <3>2. SumFunctionOnSet(f, s) = f[x] + SumFunctionOnSet(f, s \ {x})
      BY <2>1, <2>3, SumStep
    <3>3. QED
      BY <3>1, <3>2
  <2>4. QED
    BY <2>2, <2>3
<1>2. SUBSET S \subseteq P
  <2> HIDE DEF P
  <2>1. QED
    BY <1>1, SubsetInduction
<1>3. QED
  BY <1>2

-----------------------------------------------------------------------------
(* Functions that are defined along a path of falling numbers              *)

Recursion(D, S, B, first, step, smaller) ==
  /\ \E N \in Nat : D \in SUBSET (0 .. N)
  /\ first \in [D -> S] /\ step \in [D -> [S -> S]]
  /\ \A d \in D \ B : smaller[d] \in D /\ smaller[d] < d

LEMMA RecursionExists ==
  ASSUME NEW D, NEW S, NEW B, NEW first, NEW step, NEW smaller,
         Recursion(D, S, B, first, step, smaller)
  PROVE  \E f \in [D -> S] :
           \A d \in D : f[d] = IF d \in B THEN first[d] ELSE step[d][f[smaller[d]]]
<1> USE DEF Recursion
<1>0. PICK N \in Nat : D \in SUBSET (0 .. N)
  OBVIOUS
<1> DEFINE Correct(f, d) == f[d] = IF d \in B THEN first[d] ELSE step[d][f[smaller[d]]]
           Q == {n \in Nat : \E f \in [D -> S] : \A d \in D : d < n => Correct(f, d)}
<1>1. 0 \in Q
  <2>1. \A d \in D : ~(d < 0)
    BY <1>0
  <2>2. QED
    BY <2>1
<1>2. ASSUME NEW n \in Nat, n \in Q PROVE n + 1 \in Q
  <2>1. PICK f \in [D -> S] : \A d \in D : d < n => Correct(f, d)
    BY <1>2
  <2>2. CASE n \notin D
    <3>1. \A d \in D : d < n + 1 => d < n
      BY <1>0, <2>2
    <3>2. QED
      BY <2>1, <3>1
  <2>3. CASE n \in D
    <3>1. PICK x : x = IF n \in B THEN first[n] ELSE step[n][f[smaller[n]]]
      OBVIOUS
    <3>2. x \in S
      BY <2>3, <3>1
    <3>3. PICK g : g = [f EXCEPT ![n] = x]
      OBVIOUS
    <3>4. g \in [D -> S] /\ g[n] = x /\ \A d \in D : d # n => g[d] = f[d]
      BY <2>3, <3>2, <3>3
    <3>5. ASSUME NEW d \in D, d < n + 1 PROVE Correct(g, d)
      <4>1. d \notin B => g[smaller[d]] = f[smaller[d]]
        <5>1. d \notin B => smaller[d] \in D /\ smaller[d] # n
          BY <1>0, <3>5
        <5>2. QED
          BY <3>4, <5>1
      <4>2. CASE d = n
        BY <3>1, <3>4, <4>1, <4>2
      <4>3. CASE d # n
        <5>1. d < n
          BY <1>0, <3>5, <4>3
        <5>2. QED
          BY <2>1, <3>4, <4>1, <4>3, <5>1
      <4>4. QED
        BY <4>2, <4>3
    <3>6. QED
      BY <3>4, <3>5
  <2>4. QED
    BY <2>2, <2>3
<1>3. Nat \subseteq Q
  <2> HIDE DEF Q
  <2>1. QED
    BY <1>1, <1>2, NaturalInduction
<1>4. PICK f \in [D -> S] : \A d \in D : d < N + 1 => Correct(f, d)
  <2>1. N + 1 \in Q
    BY <1>3
  <2>2. QED
    BY <2>1
<1>5. \A d \in D : d < N + 1
  BY <1>0
<1>6. QED
  BY <1>4, <1>5

(* Induction along such numbers, smaller ones first. *)
LEMMA StrongInduction ==
  ASSUME NEW D \in SUBSET Nat, NEW Q,
         \A d \in D : (\A e \in D : e < d => e \in Q) => d \in Q
  PROVE  D \subseteq Q
<1> DEFINE T == D \ Q
<1>1. CASE T # {}
  <2>1. PICK d \in T : \A e \in T : d <= e
    BY <1>1, NatHasLeast
  <2>2. \A e \in D : e < d => e \in Q
    BY <2>1
  <2>3. QED
    BY <2>1, <2>2
<1>2. QED
  BY <1>1

(* and larger ones first. *)
LEMMA DownwardInduction ==
  ASSUME NEW N \in Nat, NEW D \in SUBSET (0 .. N), NEW Q,
         \A d \in D : (\A e \in D : e > d => e \in Q) => d \in Q
  PROVE  D \subseteq Q
<1> DEFINE T == D \ Q
<1>1. CASE T # {}
  <2>1. PICK d \in T : \A e \in T : e <= d
    <3>1. T \in SUBSET (0 .. N)
      OBVIOUS
    <3> HIDE DEF T
    <3>2. QED
      BY <1>1, <3>1, BoundedHasGreatest
  <2>2. \A e \in D : e > d => e \in Q
    BY <2>1
  <2>3. QED
    BY <2>1, <2>2
<1>2. QED
  BY <1>1

-----------------------------------------------------------------------------
(* Functions that collect sets along any relation                          *)

(* What a node has itself and what its successors have: the least such     *)
(* function is the intersection of those that hold at least that much.     *)
Spreads(base, succ, F, d) == base[d] \cup UNION {F[e] : e \in succ[d]}

SpreadsOver(D, S, base, succ) == \A d \in D : base[d] \subseteq S /\ succ[d] \subseteq D

THEOREM SpreadExists ==
  ASSUME NEW D, NEW S, NEW base, NEW succ, SpreadsOver(D, S, base, succ)
  PROVE  \E F : \A d \in D : F[d] = Spreads(base, succ, F, d)
<1> USE DEF Spreads, SpreadsOver
<1> DEFINE Pre == {G \in [D -> SUBSET S] : \A d \in D : Spreads(base, succ, G, d) \subseteq G[d]}
<1>1. PICK M : M = [d \in D |-> {s \in S : \A G \in Pre : s \in G[d]}]
  OBVIOUS
<1>2. M \in [D -> SUBSET S] /\ \A d \in D : M[d] = {s \in S : \A G \in Pre : s \in G[d]}
  BY <1>1
<1>3. ASSUME NEW d \in D, NEW s \in Spreads(base, succ, M, d) PROVE s \in M[d]
  <2>1. s \in S
    BY <1>2, <1>3
  <2>2. ASSUME NEW G \in Pre PROVE s \in G[d]
    <3>1. CASE s \in base[d]
      BY <2>2, <3>1
    <3>2. ASSUME NEW e \in succ[d], s \in M[e] PROVE s \in G[d]
      <4>1. e \in D /\ s \in G[e]
        BY <1>2, <2>2, <3>2
      <4>2. QED
        BY <2>2, <3>2, <4>1
    <3>3. QED
      BY <1>3, <3>1, <3>2
  <2>3. QED
    BY <1>2, <2>1, <2>2
<1>4. PICK N : N = [d \in D |-> Spreads(base, succ, M, d)]
  OBVIOUS
<1>5. N \in [D -> SUBSET S] /\ \A d \in D : N[d] = Spreads(base, succ, M, d) /\ N[d] \subseteq M[d]
  <2>1. \A d \in D : N[d] = Spreads(base, succ, M, d)
    BY <1>4
  <2>2. \A d \in D : Spreads(base, succ, M, d) \subseteq M[d] /\ M[d] \in SUBSET S
    BY <1>2, <1>3
  <2>3. \A d \in D : N[d] \in SUBSET S
    BY <2>1, <2>2
  <2>4. N \in [D -> SUBSET S]
    BY <1>4, <2>1, <2>3
  <2>5. QED
    BY <2>1, <2>2, <2>4
<1>6. \A d \in D : Spreads(base, succ, N, d) \subseteq Spreads(base, succ, M, d)
  <2>1. \A d \in D : \A e \in succ[d] : e \in D
    OBVIOUS
  <2>2. QED
    BY <1>5, <2>1
<1>7. N \in Pre
  BY <1>5, <1>6
<1>8. \A d \in D : M[d] = N[d]
  <2>1. \A d \in D : M[d] \subseteq N[d]
    BY <1>2, <1>7
  <2>2. QED
    BY <1>5, <2>1
<1>9. \A d \in D : M[d] = Spreads(base, succ, M, d)
  BY <1>5, <1>8
<1>10. QED
  BY <1>2, <1>9
=============================================================================
