----------------------- MODULE EncryptedSearchProofs ------------------------
(***************************************************************************)
(* Proofs about the two encrypted searches.  First the range search over   *)
(* labels (EncryptedSpatialDB): for any records, axes, ranges and grid an  *)
(* answer misses no record of its box, and the cover of an axis is a       *)
(* smallest one.  Then the join (JoinSearch): for any tables and queries,  *)
(* and whatever the filter of table 2 says, the server's answer by slots   *)
(* is exact and the one by cubes misses nothing; and the client, which     *)
(* reads them by position, loses a row only to a key that decrypts what is *)
(* not its own.                                                            *)
(*                                                                         *)
(* The arithmetic of powers of two, sorted sequences and searches in the   *)
(* multimap comes first; then, for each search, what its cover or its keys *)
(* are, the inductive invariant with a lemma for each action, and the      *)
(* theorems.                                                               *)
(***************************************************************************)
EXTENDS EncryptedSpatialDB, JoinSearch, SumTheorems

-----------------------------------------------------------------------------
(* Powers of two                                                           *)

Doubles(f, n) ==
  /\ f \in [0 .. n -> Nat \ {0}] /\ f[0] = 1
  /\ \A k \in 0 .. n : k < n => f[k + 1] = 2 * f[k]

LEMMA DoublesAgree ==
  ASSUME NEW n \in Nat, NEW m \in Nat, n <= m, NEW f, NEW g, Doubles(f, n), Doubles(g, m)
  PROVE  f[n] = g[n]
<1> DEFINE R == {k \in Nat : k <= n => f[k] = g[k]}
<1>1. 0 \in R
  BY DEF Doubles
<1>2. ASSUME NEW k \in Nat, k \in R PROVE k + 1 \in R
  <2>1. CASE k + 1 <= n
    <3>1. k \in 0 .. n /\ k \in 0 .. m /\ k < n /\ k < m /\ f[k] = g[k]
      BY <1>2, <2>1
    <3>2. f[k + 1] = 2 * f[k] /\ g[k + 1] = 2 * g[k]
      BY <3>1 DEF Doubles
    <3>3. QED
      BY <3>1, <3>2
  <2>2. QED
    BY <2>1
<1>3. QED
  <2>1. Nat \subseteq R
    <3> HIDE DEF R
    <3>1. QED
      BY <1>1, <1>2, NaturalInduction
  <2>2. QED
    BY <2>1

LEMMA DoublesExist ==
  ASSUME NEW n \in Nat
  PROVE  \E f : Doubles(f, n)
<1> DEFINE R == {k \in Nat : \E f : Doubles(f, k)}
<1>1. 0 \in R
  <2>1. PICK f : f = [k \in 0 .. 0 |-> 1]
    OBVIOUS
  <2>2. Doubles(f, 0)
    BY <2>1 DEF Doubles
  <2>3. QED
    BY <2>2
<1>2. ASSUME NEW k \in Nat, k \in R PROVE k + 1 \in R
  <2>1. PICK f : Doubles(f, k)
    BY <1>2
  <2>2. PICK x : x = 2 * f[k]
    OBVIOUS
  <2>3. x \in Nat \ {0}
    BY <2>1, <2>2 DEF Doubles
  <2>4. PICK g : g = [l \in 0 .. k + 1 |-> IF l = k + 1 THEN x ELSE f[l]]
    OBVIOUS
  <2>5. g[k + 1] = x /\ \A l \in 0 .. k : g[l] = f[l]
    BY <2>4
  <2>6. g \in [0 .. k + 1 -> Nat \ {0}]
    BY <2>1, <2>3, <2>4 DEF Doubles
  <2>7. ASSUME NEW l \in 0 .. k + 1, l < k + 1 PROVE g[l + 1] = 2 * g[l]
    <3>1. CASE l = k
      BY <2>2, <2>5, <3>1
    <3>2. CASE l < k
      <4>1. l \in 0 .. k /\ l + 1 \in 0 .. k
        BY <2>7, <3>2
      <4>2. f[l + 1] = 2 * f[l]
        BY <2>1, <3>2, <4>1 DEF Doubles
      <4>3. QED
        BY <2>5, <4>1, <4>2
    <3>3. QED
      BY <2>7, <3>1, <3>2
  <2>8. g[0] = 1
    BY <2>1, <2>5 DEF Doubles
  <2>9. Doubles(g, k + 1)
    BY <2>6, <2>7, <2>8 DEF Doubles
  <2>10. QED
    BY <2>9
<1>3. QED
  <2>1. Nat \subseteq R
    <3> HIDE DEF R
    <3>1. QED
      BY <1>1, <1>2, NaturalInduction
  <2>2. QED
    BY <2>1

LEMMA Pow2Facts ==
  /\ Pow2[0] = 1
  /\ \A k \in Nat : Pow2[k] \in Nat \ {0} /\ Pow2[k + 1] = 2 * Pow2[k]
<1> DEFINE F(f) == [k \in Nat |-> IF k = 0 THEN 1 ELSE 2 * f[k - 1]]
<1>1. PICK P : P = [n \in Nat |-> (CHOOSE f : Doubles(f, n))[n]]
  OBVIOUS
<1>2. ASSUME NEW n \in Nat PROVE \E f : Doubles(f, n) /\ P[n] = f[n]
  BY <1>1, DoublesExist
<1>3. P[0] = 1
  BY <1>2 DEF Doubles
<1>4. ASSUME NEW n \in Nat PROVE P[n + 1] = 2 * P[n]
  <2>1. PICK f : Doubles(f, n) /\ P[n] = f[n]
    BY <1>2
  <2>2. PICK g : Doubles(g, n + 1) /\ P[n + 1] = g[n + 1]
    BY <1>2
  <2>3. f[n] = g[n]
    BY <2>1, <2>2, DoublesAgree
  <2>4. g[n + 1] = 2 * g[n]
    BY <2>2 DEF Doubles
  <2>5. QED
    BY <2>1, <2>2, <2>3, <2>4
<1>5. ASSUME NEW k \in Nat PROVE P[k] = IF k = 0 THEN 1 ELSE 2 * P[k - 1]
  <2>1. CASE k # 0
    <3>1. k - 1 \in Nat /\ (k - 1) + 1 = k
      BY <2>1
    <3>2. P[(k - 1) + 1] = 2 * P[k - 1]
      BY <1>4, <3>1
    <3>3. QED
      BY <2>1, <3>1, <3>2
  <2>2. QED
    BY <1>3, <2>1
<1>6. P = F(P)
  BY <1>1, <1>5
<1>7. Pow2 = F(Pow2)
  <2>1. Pow2 = CHOOSE f : f = F(f)
    BY DEF Pow2
  <2> HIDE DEF F
  <2>2. QED
    BY <1>6, <2>1
<1>8. \A k \in Nat : Pow2[k] = IF k = 0 THEN 1 ELSE 2 * Pow2[k - 1]
  BY <1>7
<1>9. \A k \in Nat : Pow2[k + 1] = 2 * Pow2[k]
  BY <1>8
<1>10. Pow2[0] = 1
  BY <1>8
<1>11. Nat \subseteq {k \in Nat : Pow2[k] \in Nat \ {0}}
  <2> DEFINE R == {k \in Nat : Pow2[k] \in Nat \ {0}}
  <2>1. 0 \in R
    BY <1>10
  <2>2. \A n \in Nat : n \in R => n + 1 \in R
    BY <1>9
  <2>3. QED
    <3> HIDE DEF R
    <3>1. Nat \subseteq R
      BY <2>1, <2>2, NaturalInduction
    <3>2. QED
      BY <3>1 DEF R
<1>12. QED
  BY <1>9, <1>10, <1>11

LEMMA Pow2Grows ==
  /\ \A k \in Nat : k < Pow2[k]
  /\ \A k \in Nat : \A l \in Nat : k <= l => Pow2[k] <= Pow2[l]
<1>1. Nat \subseteq {k \in Nat : k < Pow2[k]}
  <2> DEFINE R == {k \in Nat : k < Pow2[k]}
  <2>1. 0 \in R
    BY Pow2Facts
  <2>2. \A n \in Nat : n \in R => n + 1 \in R
    BY Pow2Facts
  <2>3. QED
    <3> HIDE DEF R
    <3>1. Nat \subseteq R
      BY <2>1, <2>2, NaturalInduction
    <3>2. QED
      BY <3>1 DEF R
<1>2. ASSUME NEW k \in Nat PROVE Nat \subseteq {d \in Nat : Pow2[k] <= Pow2[k + d]}
  <2> DEFINE R == {d \in Nat : Pow2[k] <= Pow2[k + d]}
  <2>1. 0 \in R
    BY Pow2Facts
  <2>2. ASSUME NEW d \in Nat, d \in R PROVE d + 1 \in R
    <3>1. k + d \in Nat /\ k + (d + 1) = (k + d) + 1
      OBVIOUS
    <3>2. Pow2[k + (d + 1)] = 2 * Pow2[k + d] /\ Pow2[k + d] \in Nat /\ Pow2[k] \in Nat
      BY <3>1, Pow2Facts
    <3>3. QED
      BY <2>2, <3>2
  <2>3. QED
    <3> HIDE DEF R
    <3>1. Nat \subseteq R
      BY <2>1, <2>2, NaturalInduction
    <3>2. QED
      BY <3>1 DEF R
<1>3. ASSUME NEW k \in Nat, NEW l \in Nat, k <= l PROVE Pow2[k] <= Pow2[l]
  <2>1. l - k \in Nat /\ k + (l - k) = l
    BY <1>3
  <2>2. l - k \in {d \in Nat : Pow2[k] <= Pow2[k + d]}
    BY <1>2, <2>1
  <2>3. QED
    BY <2>1, <2>2
<1>4. QED
  BY <1>1, <1>3

-----------------------------------------------------------------------------
(* Sorted sequences                                                        *)

(* Ascending holds each number of the set once, and in order: the numbers  *)
(* below x are fewer than those below y if x < y, so that each rank is     *)
(* taken by one number.                                                    *)
LEMMA AscendingFacts ==
  ASSUME NEW S, IsFiniteSet(S), S \subseteq Int
  PROVE  /\ Cardinality(S) \in Nat
         /\ Ascending(S) \in [1 .. Cardinality(S) -> S]
         /\ \A x \in S : \E i \in 1 .. Cardinality(S) : Ascending(S)[i] = x
         /\ \A i, j \in 1 .. Cardinality(S) : i < j => Ascending(S)[i] < Ascending(S)[j]
<1> DEFINE Rank(x) == Cardinality({y \in S : y < x})
<1>1. PICK n \in Nat : n = Cardinality(S)
  BY FS_CardinalityType
<1>2. ASSUME NEW x \in S PROVE Rank(x) \in 0 .. n - 1
  <2>1. PICK B : B = {y \in S : y < x}
    OBVIOUS
  <2>2. PICK R : R = S \ {x}
    OBVIOUS
  <2>3. IsFiniteSet(R) /\ Cardinality(R) = n - 1 /\ B \in SUBSET R
    BY <1>1, <2>1, <2>2, FS_RemoveElement
  <2>4. IsFiniteSet(B) /\ Cardinality(B) <= n - 1
    BY <2>2, <2>3, FS_Subset
  <2>5. Cardinality(B) \in Nat
    BY <2>4, FS_CardinalityType
  <2>6. QED
    BY <1>1, <2>1, <2>4, <2>5
<1>3. ASSUME NEW x \in S, NEW y \in S, x < y PROVE Rank(x) < Rank(y)
  <2>1. PICK B, C : B = {z \in S : z < x} /\ C = {z \in S : z < y}
    OBVIOUS
  <2>2. C \in SUBSET S /\ B \in SUBSET C /\ x \in C /\ x \notin B
    <3>1. \A z \in S : z < x => z < y
      BY <1>3
    <3>2. \A z \in B : z \in C
      BY <2>1, <3>1
    <3>3. x \in C
      BY <1>3, <2>1
    <3>4. x \notin B
      BY <2>1
    <3>5. C \in SUBSET S
      BY <2>1
    <3>6. QED
      BY <3>2, <3>3, <3>4, <3>5
  <2>3. IsFiniteSet(C)
    BY <2>2, FS_Subset
  <2>4. IsFiniteSet(B) /\ Cardinality(B) <= Cardinality(C) /\ Cardinality(B) # Cardinality(C)
    BY <2>2, <2>3, FS_Subset
  <2>5. Cardinality(B) \in Nat /\ Cardinality(C) \in Nat
    BY <2>3, <2>4, FS_CardinalityType
  <2>6. QED
    BY <2>1, <2>4, <2>5
<1>4. \A x, y \in S : Rank(x) = Rank(y) => x = y
  <2>1. ASSUME NEW x \in S, NEW y \in S, x # y PROVE Rank(x) # Rank(y)
    <3>1. x < y \/ y < x
      BY <2>1
    <3>2. Rank(x) \in Int /\ Rank(y) \in Int
      BY <1>2
    <3> HIDE DEF Rank
    <3>3. QED
      BY <1>3, <3>1, <3>2
  <2>2. QED
    BY <2>1
<1>5. PICK f : f = [x \in S |-> Rank(x)]
  OBVIOUS
<1>6. f \in [S -> 0 .. n - 1] /\ \A x \in S : f[x] = Rank(x)
  BY <1>2, <1>5
<1>7. f \in Injection(S, 0 .. n - 1)
  <2> HIDE DEF Rank
  <2>1. \A x, y \in DOMAIN f : f[x] = f[y] => x = y
    BY <1>4, <1>5
  <2>2. f \in [S -> 0 .. n - 1] /\ IsInjective(f)
    BY <1>6, <2>1 DEF IsInjective
  <2>3. QED
    BY <2>2 DEF Injection
<1>8. IsFiniteSet(0 .. n - 1) /\ Cardinality(0 .. n - 1) = n
  BY FS_Interval
<1>9. f \in Surjection(S, 0 .. n - 1)
  BY <1>1, <1>7, <1>8, FS_Injection
<1>10. \A k \in 0 .. n - 1 : \E x \in S : Rank(x) = k
  BY <1>6, <1>9 DEF Surjection
<1>11. PICK s : s = Ascending(S)
  OBVIOUS
<1>12. s = [i \in 1 .. n |-> CHOOSE x \in S : Rank(x) = i - 1]
  BY <1>1, <1>11 DEF Ascending
<1>13. ASSUME NEW i \in 1 .. n PROVE s[i] \in S /\ Rank(s[i]) = i - 1
  <2>1. i - 1 \in 0 .. n - 1
    OBVIOUS
  <2>2. s[i] = CHOOSE x \in S : Rank(x) = i - 1
    BY <1>12
  <2> HIDE DEF Rank
  <2>3. QED
    BY <1>10, <2>1, <2>2
<1>14. s \in [1 .. n -> S]
  BY <1>12, <1>13
<1>15. ASSUME NEW x \in S PROVE \E i \in 1 .. n : s[i] = x
  <2>1. PICK i \in 1 .. n : i - 1 = Rank(x)
    <3>1. Rank(x) + 1 \in 1 .. n /\ (Rank(x) + 1) - 1 = Rank(x)
      BY <1>2
    <3>2. QED
      BY <3>1
  <2> HIDE DEF Rank
  <2>2. s[i] = x
    BY <1>4, <1>13, <2>1
  <2>3. QED
    BY <2>2
<1>16. ASSUME NEW i \in 1 .. n, NEW j \in 1 .. n, i < j PROVE s[i] < s[j]
  <2> HIDE DEF Rank
  <2>1. s[i] \in S /\ s[j] \in S /\ Rank(s[i]) < Rank(s[j])
    BY <1>13, <1>16
  <2>2. PICK x, y : x = s[i] /\ y = s[j]
    OBVIOUS
  <2>3. x \in S /\ y \in S /\ x \in Int /\ y \in Int /\ Rank(x) < Rank(y)
    BY <2>1, <2>2
  <2>4. Rank(x) \in Int /\ Rank(y) \in Int
    BY <1>13, <2>2
  <2>5. x # y
    BY <2>3, <2>4
  <2>6. ~(y < x)
    BY <1>3, <2>3, <2>4
  <2>7. QED
    BY <2>2, <2>3, <2>5, <2>6
<1>17. QED
  BY <1>1, <1>11, <1>14, <1>15, <1>16

LEMMA AscendingIsSeq ==
  ASSUME NEW S, IsFiniteSet(S), S \subseteq Int
  PROVE  /\ Ascending(S) \in Seq(S) /\ Len(Ascending(S)) = Cardinality(S)
         /\ Range(Ascending(S)) = S
<1>1. PICK n, s : n = Cardinality(S) /\ s = Ascending(S)
  OBVIOUS
<1>2. n \in Nat /\ s \in [1 .. n -> S] /\ \A x \in S : \E i \in 1 .. n : s[i] = x
  BY <1>1, AscendingFacts
<1>3. s \in Seq(S) /\ Len(s) = n
  BY <1>2
<1>4. Range(s) = S
  BY <1>2 DEF Range
<1>5. QED
  BY <1>1, <1>3, <1>4

-----------------------------------------------------------------------------
(* The encrypted multimap                                                  *)

(* What a search finds are the values of its labels, all of them and no    *)
(* others: the counting ends where a label's values end.                   *)
LEMMA UpExists ==
  ASSUME NEW t, NEW l
  PROVE  \E Up :
           /\ Search(t, {l}) = Up[0]
           /\ \A i \in Nat : Up[i] = IF <<l, i>> \in DOMAIN t
                                     THEN {t[<<l, i>>]} \cup Up[i + 1] ELSE {}
<1> DEFINE S == {t[x] : x \in DOMAIN t}
           G(U) == [i \in Nat |-> IF <<l, i>> \in DOMAIN t
                                  THEN {t[<<l, i>>]} \cup U[i + 1] ELSE {}]
<1>1. PICK base : base = [i \in Nat |-> IF <<l, i>> \in DOMAIN t THEN {t[<<l, i>>]} ELSE {}]
  OBVIOUS
<1>2. PICK succ : succ = [i \in Nat |-> IF <<l, i>> \in DOMAIN t THEN {i + 1} ELSE {}]
  OBVIOUS
<1>3. SpreadsOver(Nat, S, base, succ)
  BY <1>1, <1>2 DEF SpreadsOver
<1>4. PICK F0 : \A i \in Nat : F0[i] = Spreads(base, succ, F0, i)
  <2> HIDE DEF S
  <2>1. QED
    BY <1>3, SpreadExists
<1>5x. PICK F : F = [i \in Nat |-> F0[i]]
  OBVIOUS
<1>6. ASSUME NEW i \in Nat
      PROVE  F[i] = IF <<l, i>> \in DOMAIN t THEN {t[<<l, i>>]} \cup F[i + 1] ELSE {}
  <2>1. UNION {F0[e] : e \in {i + 1}} = F0[i + 1]
    OBVIOUS
  <2>2. UNION {F0[e] : e \in {}} = {}
    OBVIOUS
  <2> F[i] = F0[i] /\ F[i + 1] = F0[i + 1]
    BY <1>5x
  <2>3. CASE <<l, i>> \in DOMAIN t
    <3>1. base[i] = {t[<<l, i>>]} /\ succ[i] = {i + 1}
      BY <1>1, <1>2, <2>3
    <3>2. QED
      BY <1>4, <2>1, <2>3, <3>1 DEF Spreads
  <2>4. CASE <<l, i>> \notin DOMAIN t
    <3>1. base[i] = {} /\ succ[i] = {}
      BY <1>1, <1>2, <2>4
    <3>2. F[i] = {}
      BY <1>4, <2>2, <3>1 DEF Spreads
    <3>3. QED
      BY <2>4, <3>2
  <2>5. QED
    BY <2>3, <2>4
<1>7. F = G(F)
  BY <1>6, <1>5x
<1>8. PICK Up : Up = CHOOSE U : U = G(U)
  OBVIOUS
<1>9. Up = G(Up)
  <2> HIDE DEF G
  <2>1. QED
    BY <1>7, <1>8
<1>10. \A i \in Nat : Up[i] = IF <<l, i>> \in DOMAIN t
                              THEN {t[<<l, i>>]} \cup Up[i + 1] ELSE {}
  BY <1>9
<1>11. Search(t, {l}) = Up[0]
  BY <1>8 DEF Search
<1>12. QED
  BY <1>10, <1>11

LEMMA SearchAddsUp ==
  ASSUME NEW t, NEW ls
  PROVE  Search(t, ls) = UNION {Search(t, {l}) : l \in ls}
<1> DEFINE From(l) == LET Up[i \in Nat] ==
                            IF <<l, i>> \in DOMAIN t THEN {t[<<l, i>>]} \cup Up[i + 1] ELSE {}
                      IN Up[0]
<1>1. \A ks : Search(t, ks) = UNION {From(l) : l \in ks}
  BY DEF Search
<1> HIDE DEF From
<1>2. \A l : UNION {From(k) : k \in {l}} = From(l)
  OBVIOUS
<1>3. \A l : Search(t, {l}) = From(l)
  BY <1>1, <1>2
<1>4. {From(l) : l \in ls} = {Search(t, {l}) : l \in ls}
  BY <1>3
<1>5. QED
  BY <1>1, <1>4

LEMMA BuiltKeys ==
  ASSUME NEW p
  PROVE  /\ \A l, i : <<l, i>> \in DOMAIN BuildEMM(p) <=>
                        l \in DOMAIN p /\ i \in 0 .. Len(p[l]) - 1
         /\ \A l \in DOMAIN p : \A i \in 0 .. Len(p[l]) - 1 : BuildEMM(p)[<<l, i>>] = p[l][i + 1]
<1>1. PICK keys : keys = UNION {{<<l, i>> : i \in 0 .. Len(p[l]) - 1} : l \in DOMAIN p}
  OBVIOUS
<1>2. BuildEMM(p) = [key \in keys |-> p[key[1]][key[2] + 1]]
  BY <1>1 DEF BuildEMM
<1>3. \A l, i : <<l, i>> \in keys <=> l \in DOMAIN p /\ i \in 0 .. Len(p[l]) - 1
  BY <1>1
<1>4. \A l \in DOMAIN p : \A i \in 0 .. Len(p[l]) - 1 : BuildEMM(p)[<<l, i>>] = p[l][i + 1]
  <2>1. ASSUME NEW l \in DOMAIN p, NEW i \in 0 .. Len(p[l]) - 1
        PROVE  BuildEMM(p)[<<l, i>>] = p[l][i + 1]
    <3>1. PICK key : key = <<l, i>>
      OBVIOUS
    <3>2. key \in keys /\ key[1] = l /\ key[2] = i
      BY <1>3, <3>1
    <3>3. BuildEMM(p)[key] = p[key[1]][key[2] + 1]
      BY <1>2, <3>2
    <3>4. QED
      BY <3>1, <3>2, <3>3
  <2>2. QED
    BY <2>1
<1>5. DOMAIN BuildEMM(p) = keys
  BY <1>2
<1>6. QED
  BY <1>3, <1>4, <1>5

LEMMA SeqOfLarger ==
  ASSUME NEW S, NEW T, S \subseteq T, NEW s \in Seq(S)
  PROVE  s \in Seq(T)
<1>1. PICK n \in Nat : s \in [1 .. n -> S]
  OBVIOUS
<1>2. s \in [1 .. n -> T]
  BY <1>1
<1>3. QED
  BY <1>2

LEMMA SearchOfLabel ==
  ASSUME NEW p, NEW V, \A l \in DOMAIN p : p[l] \in Seq(V), NEW l \in DOMAIN p
  PROVE  Search(BuildEMM(p), {l}) = Range(p[l])
<1>1. PICK t, s, n : t = BuildEMM(p) /\ s = p[l] /\ n = Len(s)
  OBVIOUS
<1>2. s \in Seq(V) /\ n \in Nat /\ DOMAIN s = 1 .. n
  BY <1>1
<1>3. PICK Up : /\ Search(t, {l}) = Up[0]
                /\ \A i \in Nat : Up[i] = IF <<l, i>> \in DOMAIN t
                                          THEN {t[<<l, i>>]} \cup Up[i + 1] ELSE {}
  BY UpExists
<1>4. \A i \in Nat : <<l, i>> \in DOMAIN t <=> i < n
  <2>1. \A i : <<l, i>> \in DOMAIN t <=> i \in 0 .. n - 1
    BY <1>1, BuiltKeys
  <2>2. QED
    BY <1>2, <2>1
<1>5. \A i \in Nat : i < n => t[<<l, i>>] = s[i + 1]
  <2>1. \A i \in 0 .. n - 1 : t[<<l, i>>] = s[i + 1]
    BY <1>1, BuiltKeys
  <2>2. QED
    BY <1>2, <2>1
<1> DEFINE After(i) == {s[j] : j \in i + 1 .. n}
           R == {d \in Nat : d <= n => Up[n - d] = After(n - d)}
<1>6. 0 \in R
  <2>1. n \in Nat /\ ~(n < n) /\ n - 0 = n
    BY <1>2
  <2>2. Up[n] = {}
    BY <1>3, <1>4, <2>1
  <2>3. n + 1 .. n = {}
    BY <1>2
  <2>4. QED
    BY <2>1, <2>2, <2>3
<1>7. ASSUME NEW d \in Nat, d \in R PROVE d + 1 \in R
  <2>1. SUFFICES ASSUME d + 1 <= n PROVE Up[n - (d + 1)] = After(n - (d + 1))
    OBVIOUS
  <2>2. PICK i \in Nat : i = n - (d + 1)
    BY <1>2, <2>1
  <2>3. i < n /\ i + 1 = n - d /\ d <= n
    BY <1>2, <2>1, <2>2
  <2>4. Up[i] = {s[i + 1]} \cup Up[i + 1]
    <3>1. <<l, i>> \in DOMAIN t /\ t[<<l, i>>] = s[i + 1]
      BY <1>4, <1>5, <2>3
    <3>2. QED
      BY <1>3, <3>1
  <2>5. Up[i + 1] = After(i + 1)
    BY <1>7, <2>3
  <2>6. After(i) = {s[i + 1]} \cup After(i + 1)
    <3>1. \A j \in i + 1 .. n : j = i + 1 \/ j \in i + 2 .. n
      OBVIOUS
    <3>2. i + 1 \in i + 1 .. n /\ \A j \in i + 2 .. n : j \in i + 1 .. n
      BY <1>2, <2>3
    <3>3. (i + 1) + 1 = i + 2
      OBVIOUS
    <3>4. QED
      BY <3>1, <3>2, <3>3
  <2>7. QED
    BY <2>2, <2>4, <2>5, <2>6
<1>8. n \in R
  <2> HIDE DEF R
  <2>1. Nat \subseteq R
    BY <1>6, <1>7, NaturalInduction
  <2>2. QED
    BY <1>2, <2>1
<1>9. Up[0] = {s[j] : j \in 1 .. n}
  <2>1. n - n = 0 /\ 0 + 1 = 1
    BY <1>2
  <2>2. Up[n - n] = After(n - n)
    BY <1>2, <1>8
  <2>3. QED
    BY <2>1, <2>2
<1>10. Range(s) = {s[j] : j \in 1 .. n}
  BY <1>2 DEF Range
<1>11. QED
  BY <1>1, <1>3, <1>9, <1>10

LEMMA SearchOfOther ==
  ASSUME NEW p, NEW l, l \notin DOMAIN p
  PROVE  Search(BuildEMM(p), {l}) = {}
<1>1. PICK t : t = BuildEMM(p)
  OBVIOUS
<1>2. PICK Up : /\ Search(t, {l}) = Up[0]
                /\ \A i \in Nat : Up[i] = IF <<l, i>> \in DOMAIN t
                                          THEN {t[<<l, i>>]} \cup Up[i + 1] ELSE {}
  BY UpExists
<1>3. <<l, 0>> \notin DOMAIN t
  BY <1>1, BuiltKeys
<1>4. QED
  BY <1>1, <1>2, <1>3

(* For any labels. *)
LEMMA SearchIsExact ==
  ASSUME NEW p, NEW V, \A l \in DOMAIN p : p[l] \in Seq(V), NEW ls, NEW r
  PROVE  r \in Search(BuildEMM(p), ls) <=> \E l \in ls : l \in DOMAIN p /\ r \in Range(p[l])
<1>1. PICK t : t = BuildEMM(p)
  OBVIOUS
<1>2. Search(t, ls) = UNION {Search(t, {l}) : l \in ls}
  BY SearchAddsUp
<1>3. \A l \in ls : r \in Search(t, {l}) <=> l \in DOMAIN p /\ r \in Range(p[l])
  <2>1. ASSUME NEW l \in ls PROVE r \in Search(t, {l}) <=> l \in DOMAIN p /\ r \in Range(p[l])
    <3>1. CASE l \in DOMAIN p
      <4>1. Search(t, {l}) = Range(p[l])
        BY <1>1, <3>1, SearchOfLabel
      <4>2. QED
        BY <3>1, <4>1
    <3>2. CASE l \notin DOMAIN p
      <4>1. Search(t, {l}) = {}
        BY <1>1, <3>2, SearchOfOther
      <4>2. QED
        BY <3>2, <4>1
    <3>3. QED
      BY <3>1, <3>2
  <2>2. QED
    BY <2>1
<1>4. r \in UNION {Search(t, {l}) : l \in ls} <=> \E l \in ls : r \in Search(t, {l})
  OBVIOUS
<1>5. QED
  BY <1>1, <1>2, <1>3, <1>4

-----------------------------------------------------------------------------
(* The ranges of a Tdag                                                    *)

LEMMA HalvesFacts ==
  ASSUME NEW r \in Nat \X Nat
  PROVE  /\ Midpoint(r) \in Nat
         /\ LeftHalf(r) \in Nat \X Nat /\ RightHalf(r) \in Nat \X Nat
         /\ r[1] < r[2] => r[1] <= Midpoint(r) /\ Midpoint(r) < r[2]
<1>1. PICK a \in Nat, b \in Nat : r = <<a, b>>
  OBVIOUS
<1>2. PICK h \in Int : h = (b - a) \div 2
  OBVIOUS
<1>3. 2 * h <= b - a /\ b - a <= 2 * h + 1
  BY <1>2
<1>4. Midpoint(r) = a + h
  BY <1>1, <1>2 DEF Midpoint
<1>5. a + h \in Nat
  BY <1>3
<1>6. LeftHalf(r) = <<a, a + h>> /\ RightHalf(r) = <<a + h + 1, b>>
  BY <1>1, <1>4 DEF LeftHalf, RightHalf
<1>7. r[1] < r[2] => r[1] <= Midpoint(r) /\ Midpoint(r) < r[2]
  BY <1>1, <1>3, <1>4
<1>8. QED
  BY <1>4, <1>5, <1>6, <1>7

(* One step of each of the three walks through the tree. *)
PathStep(val, r, down) ==
  {r} \cup {m \in Middles(r) : Encloses(m, <<val, val>>)}
    \cup (IF r[1] = r[2] THEN {} ELSE down)

NextOnPath(val, r) == IF val <= Midpoint(r) THEN LeftHalf(r) ELSE RightHalf(r)

LEMMA DescendUnfolds ==
  ASSUME NEW val, NEW r \in Nat \X Nat
  PROVE  DescendTree(val, r) = PathStep(val, r, DescendTree(val, NextOnPath(val, r)))
<1> DEFINE D == Nat \X Nat
           Own(d) == {d} \cup {m \in Middles(d) : Encloses(m, <<val, val>>)}
           S == UNION {Own(d) : d \in D}
           G(U) == [d \in D |-> {d} \cup {m \in Middles(d) : Encloses(m, <<val, val>>)}
                      \cup (IF d[1] = d[2] THEN {}
                            ELSE U[IF val <= Midpoint(d) THEN LeftHalf(d) ELSE RightHalf(d)])]
<1>1. \A d \in D : NextOnPath(val, d) \in D
  BY HalvesFacts DEF NextOnPath
<1>2. PICK base, succ : /\ base = [d \in D |-> Own(d)]
                        /\ succ = [d \in D |-> IF d[1] = d[2] THEN {} ELSE {NextOnPath(val, d)}]
  OBVIOUS
<1>3. SpreadsOver(D, S, base, succ)
  <2>1. \A d \in D : base[d] \subseteq S
    BY <1>2
  <2>2. \A d \in D : succ[d] \subseteq D
    BY <1>1, <1>2
  <2>3. QED
    BY <2>1, <2>2 DEF SpreadsOver
<1>4. PICK F0 : \A d \in D : F0[d] = Spreads(base, succ, F0, d)
  <2> HIDE DEF S, D
  <2>1. QED
    BY <1>3, SpreadExists
<1>5. PICK F : F = [d \in D |-> F0[d]]
  OBVIOUS
<1>6. ASSUME NEW d \in D PROVE F[d] = PathStep(val, d, F[NextOnPath(val, d)])
  <2>1. F[d] = F0[d] /\ F[NextOnPath(val, d)] = F0[NextOnPath(val, d)]
    BY <1>1, <1>5
  <2>2. base[d] = Own(d) /\ succ[d] = IF d[1] = d[2] THEN {} ELSE {NextOnPath(val, d)}
    BY <1>2
  <2>3. F0[d] = base[d] \cup UNION {F0[e] : e \in succ[d]}
    BY <1>4 DEF Spreads
  <2>4. UNION {F0[e] : e \in succ[d]} = IF d[1] = d[2] THEN {} ELSE F0[NextOnPath(val, d)]
    BY <2>2
  <2>5. QED
    BY <2>1, <2>2, <2>3, <2>4 DEF PathStep
<1>7. F = G(F)
  <2>1. \A d \in D : F[d] = G(F)[d]
    BY <1>6 DEF PathStep, NextOnPath
  <2>2. QED
    BY <1>5, <2>1
<1>8. PICK P : P = CHOOSE U : U = G(U)
  OBVIOUS
<1>9. P = G(P)
  <2> HIDE DEF G
  <2>1. QED
    BY <1>7, <1>8
<1>10. \A d : DescendTree(val, d) = P[d]
  BY <1>8 DEF DescendTree
<1>11. P[r] = PathStep(val, r, P[NextOnPath(val, r)])
  BY <1>9 DEF PathStep, NextOnPath
<1>12. QED
  BY <1>10, <1>11

TreeStep(r, left, right) == {r} \cup Middles(r) \cup (IF r[1] = r[2] THEN {} ELSE left \cup right)

LEMMA RangesUnfold ==
  ASSUME NEW r \in Nat \X Nat
  PROVE  TreeRanges(r) = TreeStep(r, TreeRanges(LeftHalf(r)), TreeRanges(RightHalf(r)))
<1> DEFINE D == Nat \X Nat
           Own(d) == {d} \cup Middles(d)
           S == UNION {Own(d) : d \in D}
           G(U) == [d \in D |-> {d} \cup Middles(d)
                      \cup (IF d[1] = d[2] THEN {} ELSE U[LeftHalf(d)] \cup U[RightHalf(d)])]
<1>1. \A d \in D : LeftHalf(d) \in D /\ RightHalf(d) \in D
  BY HalvesFacts
<1>2. PICK base, succ : /\ base = [d \in D |-> Own(d)]
                        /\ succ = [d \in D |-> IF d[1] = d[2] THEN {}
                                               ELSE {LeftHalf(d), RightHalf(d)}]
  OBVIOUS
<1>3. SpreadsOver(D, S, base, succ)
  <2>1. \A d \in D : base[d] \subseteq S
    BY <1>2
  <2>2. \A d \in D : succ[d] \subseteq D
    BY <1>1, <1>2
  <2>3. QED
    BY <2>1, <2>2 DEF SpreadsOver
<1>4. PICK F0 : \A d \in D : F0[d] = Spreads(base, succ, F0, d)
  <2> HIDE DEF S, D
  <2>1. QED
    BY <1>3, SpreadExists
<1>5. PICK F : F = [d \in D |-> F0[d]]
  OBVIOUS
<1>6. ASSUME NEW d \in D PROVE F[d] = TreeStep(d, F[LeftHalf(d)], F[RightHalf(d)])
  <2>1. F[d] = F0[d] /\ F[LeftHalf(d)] = F0[LeftHalf(d)] /\ F[RightHalf(d)] = F0[RightHalf(d)]
    BY <1>1, <1>5
  <2>2. base[d] = Own(d) /\ succ[d] = IF d[1] = d[2] THEN {} ELSE {LeftHalf(d), RightHalf(d)}
    BY <1>2
  <2>3. F0[d] = base[d] \cup UNION {F0[e] : e \in succ[d]}
    BY <1>4 DEF Spreads
  <2>4. UNION {F0[e] : e \in succ[d]}
          = IF d[1] = d[2] THEN {} ELSE F0[LeftHalf(d)] \cup F0[RightHalf(d)]
    BY <2>2
  <2>5. QED
    BY <2>1, <2>2, <2>3, <2>4 DEF TreeStep
<1>7. F = G(F)
  <2>1. \A d \in D : F[d] = G(F)[d]
    BY <1>6 DEF TreeStep
  <2>2. QED
    BY <1>5, <2>1
<1>8. PICK P : P = CHOOSE U : U = G(U)
  OBVIOUS
<1>9. P = G(P)
  <2> HIDE DEF G
  <2>1. QED
    BY <1>7, <1>8
<1>10. \A d : TreeRanges(d) = P[d]
  BY <1>8 DEF TreeRanges
<1>11. P[r] = TreeStep(r, P[LeftHalf(r)], P[RightHalf(r)])
  BY <1>9 DEF TreeStep
<1>12. QED
  BY <1>10, <1>11

GoesLeft(r, q) == r[1] < r[2] /\ Encloses(LeftHalf(r), q)
GoesRight(r, q) == ~GoesLeft(r, q) /\ r[1] < r[2] /\ Encloses(RightHalf(r), q)
EndOfWalk(r, q) ==
  IF \E m \in Middles(r) : Encloses(m, q) THEN CHOOSE m \in Middles(r) : TRUE ELSE r

LEMMA CoverUnfolds ==
  ASSUME NEW q, NEW r \in Nat \X Nat
  PROVE  /\ GoesLeft(r, q) => SingleRangeCover(r, q) = SingleRangeCover(LeftHalf(r), q)
         /\ GoesRight(r, q) => SingleRangeCover(r, q) = SingleRangeCover(RightHalf(r), q)
         /\ ~GoesLeft(r, q) /\ ~GoesRight(r, q) => SingleRangeCover(r, q) = EndOfWalk(r, q)
<1> DEFINE D == Nat \X Nat
           S == {EndOfWalk(d, q) : d \in D}
           G(U) == [d \in D |->
                      IF d[1] < d[2] /\ Encloses(LeftHalf(d), q) THEN U[LeftHalf(d)]
                      ELSE IF d[1] < d[2] /\ Encloses(RightHalf(d), q) THEN U[RightHalf(d)]
                      ELSE IF \E m \in Middles(d) : Encloses(m, q)
                           THEN CHOOSE m \in Middles(d) : TRUE
                      ELSE d]
<1>1. \A d \in D : LeftHalf(d) \in D /\ RightHalf(d) \in D
  BY HalvesFacts
<1>2. PICK base, succ :
        /\ base = [d \in D |-> IF GoesLeft(d, q) \/ GoesRight(d, q) THEN {} ELSE {EndOfWalk(d, q)}]
        /\ succ = [d \in D |-> IF GoesLeft(d, q) THEN {LeftHalf(d)}
                               ELSE IF GoesRight(d, q) THEN {RightHalf(d)} ELSE {}]
  OBVIOUS
<1>3. SpreadsOver(D, S, base, succ)
  <2>1. \A d \in D : base[d] \subseteq S
    BY <1>2
  <2>2. \A d \in D : succ[d] \subseteq D
    BY <1>1, <1>2
  <2>3. QED
    BY <2>1, <2>2 DEF SpreadsOver
<1>4. PICK F0 : \A d \in D : F0[d] = Spreads(base, succ, F0, d)
  <2> HIDE DEF S, D
  <2>1. QED
    BY <1>3, SpreadExists
<1>5. PICK F : F = [d \in D |-> CHOOSE x \in F0[d] : TRUE]
  OBVIOUS
<1>6. ASSUME NEW d \in D
      PROVE  F[d] = IF GoesLeft(d, q) THEN F[LeftHalf(d)]
                    ELSE IF GoesRight(d, q) THEN F[RightHalf(d)] ELSE EndOfWalk(d, q)
  <2>1. F0[d] = base[d] \cup UNION {F0[e] : e \in succ[d]}
    BY <1>4 DEF Spreads
  <2>2. CASE GoesLeft(d, q)
    <3>1. base[d] = {} /\ succ[d] = {LeftHalf(d)}
      BY <1>2, <2>2
    <3>2. F0[d] = F0[LeftHalf(d)]
      BY <2>1, <3>1
    <3>3. QED
      BY <1>1, <1>5, <2>2, <3>2
  <2>3. CASE GoesRight(d, q)
    <3>1. ~GoesLeft(d, q)
      BY <2>3 DEF GoesRight
    <3>2. base[d] = {} /\ succ[d] = {RightHalf(d)}
      BY <1>2, <2>3, <3>1
    <3>3. F0[d] = F0[RightHalf(d)]
      BY <2>1, <3>2
    <3>4. QED
      BY <1>1, <1>5, <2>3, <3>1, <3>3
  <2>4. CASE ~GoesLeft(d, q) /\ ~GoesRight(d, q)
    <3>1. base[d] = {EndOfWalk(d, q)} /\ succ[d] = {}
      BY <1>2, <2>4
    <3>2. F0[d] = {EndOfWalk(d, q)}
      BY <2>1, <3>1
    <3>3. F[d] = EndOfWalk(d, q)
      BY <1>5, <3>2
    <3>4. QED
      BY <2>4, <3>3
  <2>5. QED
    BY <2>2, <2>3, <2>4
<1>7. F = G(F)
  <2>1. \A d \in D : F[d] = G(F)[d]
    BY <1>6 DEF GoesLeft, GoesRight, EndOfWalk
  <2>2. QED
    BY <1>5, <2>1
<1>8. PICK C : C = CHOOSE U : U = G(U)
  OBVIOUS
<1>9. C = G(C)
  <2> HIDE DEF G
  <2>1. QED
    BY <1>7, <1>8
<1>10. \A d : SingleRangeCover(d, q) = C[d]
  BY <1>8 DEF SingleRangeCover
<1>11. C[r] = IF GoesLeft(r, q) THEN C[LeftHalf(r)]
              ELSE IF GoesRight(r, q) THEN C[RightHalf(r)] ELSE EndOfWalk(r, q)
  BY <1>9 DEF GoesLeft, GoesRight, EndOfWalk
<1>12. GoesRight(r, q) => ~GoesLeft(r, q)
  BY DEF GoesRight
<1>13. QED
  BY <1>10, <1>11, <1>12

LEMMA MiddleFacts ==
  ASSUME NEW r \in Nat \X Nat, NEW m \in Middles(r)
  PROVE  /\ m \in Nat \X Nat /\ r[1] <= m[1] /\ m[1] <= m[2] /\ m[2] <= r[2]
         /\ Middles(r) = {m}
<1>1. PICK a \in Nat, b \in Nat : r = <<a, b>>
  OBVIOUS
<1>2. PICK h \in Int, c \in Int : h = (b - a) \div 2 /\ c = (b - a) \div 4
  OBVIOUS
<1>3. PICK d \in {0, 1} : d = IF (b - a) % 4 > 0 THEN 1 ELSE 0
  OBVIOUS
<1>4. Midpoint(r) = a + h
  BY <1>1, <1>2 DEF Midpoint
<1>5. Middles(r) = IF b - a <= 1 THEN {} ELSE {<<a + h - c, a + h + c + d>>}
  <2>1. r[1] = a /\ r[2] = b
    BY <1>1
  <2>2. Middles(r) = IF b - a <= 1 THEN {} ELSE {<<Midpoint(r) - c, Midpoint(r) + c + d>>}
    BY <1>2, <1>3, <2>1 DEF Middles
  <2>3. QED
    BY <1>4, <2>2
<1>6. ~(b - a <= 1) /\ m = <<a + h - c, a + h + c + d>>
  BY <1>5
<1>7. /\ 2 * h <= b - a /\ b - a <= 2 * h + 1 /\ 4 * c <= b - a /\ b - a <= 4 * c + 3
      /\ d = 1 => 4 * c < b - a
  <2>1. b - a \in Int
    OBVIOUS
  <2>2. PICK w \in Int : w = b - a
    BY <2>1
  <2>3. 2 * h <= w /\ w <= 2 * h + 1
    BY <1>2, <2>2
  <2>4. 4 * c <= w /\ w <= 4 * c + 3
    BY <1>2, <2>2
  <2>5. d = 1 => 4 * c # w
    BY <1>2, <1>3, <2>2
  <2>6. QED
    BY <2>2, <2>3, <2>4, <2>5
<1>8. 0 <= c /\ c <= h /\ h + c + d <= b - a
  BY <1>6, <1>7
<1>9. QED
  BY <1>1, <1>5, <1>6, <1>8

(* The range that covers a query is among those the queried values are     *)
(* filed under.                                                            *)
LEMMA CoverIsOnPath ==
  ASSUME NEW q \in Int \X Int, NEW val \in Int, q[1] <= val, val <= q[2],
         NEW full \in Nat \X Nat, Encloses(full, q)
  PROVE  SingleRangeCover(full, q) \in DescendTree(val, full)
<1> DEFINE Good(r) == Encloses(r, q) => SingleRangeCover(r, q) \in DescendTree(val, r)
           R == {n \in Nat : \A r \in Nat \X Nat : r[2] - r[1] = n => Good(r)}
<1>1. ASSUME NEW n \in Nat, \A e \in Nat : e < n => e \in R PROVE n \in R
  <2>1. SUFFICES ASSUME NEW r \in Nat \X Nat, r[2] - r[1] = n, Encloses(r, q)
                 PROVE  SingleRangeCover(r, q) \in DescendTree(val, r)
    OBVIOUS
  <2>2. DescendTree(val, r) = PathStep(val, r, DescendTree(val, NextOnPath(val, r)))
    BY DescendUnfolds
  <2>3. CASE GoesLeft(r, q) \/ GoesRight(r, q)
    <3>1. PICK h : /\ SingleRangeCover(r, q) = SingleRangeCover(h, q) /\ Encloses(h, q)
                   /\ h = NextOnPath(val, r) /\ h \in Nat \X Nat /\ h[2] - h[1] \in Nat
                   /\ h[2] - h[1] < n /\ r[1] # r[2]
      <4>1. CASE GoesLeft(r, q)
        <5>1. r[1] <= Midpoint(r) /\ Midpoint(r) < r[2] /\ Midpoint(r) \in Nat
          BY <4>1, HalvesFacts DEF GoesLeft
        <5>2. LeftHalf(r) = <<r[1], Midpoint(r)>>
          BY DEF LeftHalf
        <5>3. val <= Midpoint(r)
          BY <4>1, <5>1, <5>2 DEF GoesLeft, Encloses
        <5>4. NextOnPath(val, r) = LeftHalf(r)
          BY <5>3 DEF NextOnPath
        <5>5. SingleRangeCover(r, q) = SingleRangeCover(LeftHalf(r), q)
          BY <4>1, CoverUnfolds
        <5>6. Encloses(LeftHalf(r), q) /\ r[1] # r[2]
          BY <4>1 DEF GoesLeft
        <5>7. LeftHalf(r) \in Nat \X Nat
          BY HalvesFacts
        <5>8. LeftHalf(r)[2] - LeftHalf(r)[1] \in Nat /\ LeftHalf(r)[2] - LeftHalf(r)[1] < n
          BY <2>1, <5>1, <5>2
        <5>9. QED
          BY <5>4, <5>5, <5>6, <5>7, <5>8
      <4>2. CASE GoesRight(r, q)
        <5>1. r[1] <= Midpoint(r) /\ Midpoint(r) < r[2] /\ Midpoint(r) \in Nat
          BY <4>2, HalvesFacts DEF GoesRight
        <5>2. RightHalf(r) = <<Midpoint(r) + 1, r[2]>>
          BY DEF RightHalf
        <5>3. ~(val <= Midpoint(r))
          BY <4>2, <5>1, <5>2 DEF GoesRight, Encloses
        <5>4. NextOnPath(val, r) = RightHalf(r)
          BY <5>3 DEF NextOnPath
        <5>5. SingleRangeCover(r, q) = SingleRangeCover(RightHalf(r), q)
          BY <4>2, CoverUnfolds
        <5>6. Encloses(RightHalf(r), q) /\ r[1] # r[2]
          BY <4>2 DEF GoesRight
        <5>7. RightHalf(r) \in Nat \X Nat
          BY HalvesFacts
        <5>8. RightHalf(r)[2] - RightHalf(r)[1] \in Nat /\ RightHalf(r)[2] - RightHalf(r)[1] < n
          BY <2>1, <5>1, <5>2
        <5>9. QED
          BY <5>4, <5>5, <5>6, <5>7, <5>8
      <4>3. QED
        BY <2>3, <4>1, <4>2
    <3>2. SingleRangeCover(h, q) \in DescendTree(val, h)
      BY <1>1, <3>1
    <3>3. QED
      BY <2>2, <3>1, <3>2 DEF PathStep
  <2>4. CASE ~GoesLeft(r, q) /\ ~GoesRight(r, q)
    <3>1. SingleRangeCover(r, q) = EndOfWalk(r, q)
      BY <2>4, CoverUnfolds
    <3>2. CASE \E m \in Middles(r) : Encloses(m, q)
      <4>1. PICK m \in Middles(r) : Encloses(m, q)
        BY <3>2
      <4>2. m \in Nat \X Nat /\ Middles(r) = {m}
        BY MiddleFacts
      <4>3. EndOfWalk(r, q) = m
        BY <4>1, <4>2 DEF EndOfWalk
      <4>4. Encloses(m, <<val, val>>)
        BY <4>1, <4>2 DEF Encloses
      <4>5. QED
        BY <2>2, <3>1, <4>1, <4>3, <4>4 DEF PathStep
    <3>3. CASE ~\E m \in Middles(r) : Encloses(m, q)
      <4>1. EndOfWalk(r, q) = r
        BY <3>3 DEF EndOfWalk
      <4>2. QED
        BY <2>2, <3>1, <4>1 DEF PathStep
    <3>4. QED
      BY <3>2, <3>3
  <2>5. QED
    BY <2>3, <2>4
<1>2. Nat \subseteq R
  <2> HIDE DEF R
  <2>1. Nat \in SUBSET Nat
    OBVIOUS
  <2>2. QED
    BY <1>1, <2>1, StrongInduction
<1>3. full[2] - full[1] \in Nat
  BY DEF Encloses
<1>4. QED
  BY <1>2, <1>3

(* The tree over a power of two. *)
Block(s, k) == <<s, s + Pow2[k] - 1>>

LEMMA BlockFacts ==
  ASSUME NEW s \in Nat, NEW k \in Nat
  PROVE  /\ Block(s, k) \in Nat \X Nat /\ Block(s, k)[1] <= Block(s, k)[2]
         /\ Block(s, 0)[1] = Block(s, 0)[2]
         /\ Block(s, k + 1)[1] < Block(s, k + 1)[2]
         /\ Midpoint(Block(s, k + 1)) = s + Pow2[k] - 1
         /\ LeftHalf(Block(s, k + 1)) = Block(s, k)
         /\ RightHalf(Block(s, k + 1)) = Block(s + Pow2[k], k)
<1>1. PICK p \in Nat \ {0} : p = Pow2[k]
  BY Pow2Facts
<1>2. Pow2[k + 1] = 2 * p /\ Pow2[0] = 1
  BY <1>1, Pow2Facts
<1>3. Block(s, k) = <<s, s + p - 1>> /\ Block(s, k + 1) = <<s, s + 2 * p - 1>>
  BY <1>1, <1>2 DEF Block
<1>4. (s + 2 * p - 1 - s) \div 2 = p - 1
  OBVIOUS
<1>5. Midpoint(Block(s, k + 1)) = s + p - 1
  BY <1>3, <1>4 DEF Midpoint
<1>6. Block(s + Pow2[k], k) = <<s + p, s + 2 * p - 1>>
  BY <1>1 DEF Block
<1>7. LeftHalf(Block(s, k + 1)) = Block(s, k)
  BY <1>3, <1>5 DEF LeftHalf
<1>8. RightHalf(Block(s, k + 1)) = Block(s + Pow2[k], k)
  BY <1>3, <1>5, <1>6 DEF RightHalf
<1>9. Block(s, 0) = <<s, s>>
  BY <1>2 DEF Block
<1>10. QED
  BY <1>1, <1>3, <1>5, <1>7, <1>8, <1>9

LEMMA BlockMiddles ==
  ASSUME NEW s \in Nat, NEW k \in Nat
  PROVE  /\ Middles(Block(s, 0)) = {} /\ Middles(Block(s, 1)) = {}
         /\ Middles(Block(s, k + 2)) = {Block(s + Pow2[k], k + 1)}
<1>1. PICK p \in Nat \ {0} : p = Pow2[k]
  BY Pow2Facts
<1>2. Pow2[k + 1] = 2 * p /\ Pow2[k + 2] = 4 * p /\ Pow2[0] = 1 /\ Pow2[1] = 2
  <2>1. k + 1 \in Nat /\ (k + 1) + 1 = k + 2 /\ 0 + 1 = 1
    OBVIOUS
  <2>2. Pow2[(k + 1) + 1] = 2 * Pow2[k + 1] /\ Pow2[0 + 1] = 2 * Pow2[0]
    BY <2>1, Pow2Facts
  <2>3. QED
    BY <1>1, <2>1, <2>2, Pow2Facts
<1>3. Middles(Block(s, 0)) = {} /\ Middles(Block(s, 1)) = {}
  <2>1. Block(s, 0) = <<s, s>> /\ Block(s, 1) = <<s, s + 1>>
    BY <1>2 DEF Block
  <2>2. QED
    BY <2>1 DEF Middles
<1>4. Block(s, k + 2) = <<s, s + 4 * p - 1>> /\ Block(s + Pow2[k], k + 1) = <<s + p, s + 3 * p - 1>>
  BY <1>1, <1>2 DEF Block
<1>5. /\ s + 4 * p - 1 - s = 4 * p - 1 /\ (4 * p - 1) \div 4 = p - 1 /\ (4 * p - 1) % 4 = 3
      /\ (4 * p - 1) \div 2 = 2 * p - 1
  OBVIOUS
<1>6. Midpoint(Block(s, k + 2)) = s + 2 * p - 1
  BY <1>4, <1>5 DEF Midpoint
<1>7. Middles(Block(s, k + 2)) = {<<s + 2 * p - 1 - (p - 1), s + 2 * p - 1 + (p - 1) + 1>>}
  BY <1>4, <1>5, <1>6 DEF Middles
<1>8. QED
  BY <1>3, <1>4, <1>7

(* What the tree over Block(s, k + 1) is made of. *)
LEMMA BlockRanges ==
  ASSUME NEW s \in Nat, NEW k \in Nat
  PROVE  /\ TreeRanges(Block(s, 0)) = {Block(s, 0)}
         /\ TreeRanges(Block(s, k + 1)) =
              {Block(s, k + 1)} \cup Middles(Block(s, k + 1))
                \cup TreeRanges(Block(s, k)) \cup TreeRanges(Block(s + Pow2[k], k))
<1>1. 0 \in Nat /\ k + 1 \in Nat
  OBVIOUS
<1>2. TreeRanges(Block(s, 0)) = {Block(s, 0)}
  <2>1. Block(s, 0) \in Nat \X Nat /\ Block(s, 0)[1] = Block(s, 0)[2] /\ Middles(Block(s, 0)) = {}
    BY <1>1, BlockFacts, BlockMiddles
  <2>2. QED
    BY <2>1, RangesUnfold DEF TreeStep
<1>3. PICK b : b = Block(s, k + 1)
  OBVIOUS
<1>4. /\ b \in Nat \X Nat /\ b[1] # b[2]
      /\ LeftHalf(b) = Block(s, k) /\ RightHalf(b) = Block(s + Pow2[k], k)
  <2>1. b \in Nat \X Nat
    BY <1>1, <1>3, BlockFacts
  <2>2. b[1] < b[2] /\ LeftHalf(b) = Block(s, k) /\ RightHalf(b) = Block(s + Pow2[k], k)
    BY <1>3, BlockFacts
  <2>3. QED
    BY <2>1, <2>2
<1>5. TreeRanges(b) = TreeStep(b, TreeRanges(Block(s, k)), TreeRanges(Block(s + Pow2[k], k)))
  BY <1>4, RangesUnfold
<1>6. QED
  BY <1>2, <1>3, <1>4, <1>5 DEF TreeStep

LEMMA RangesInside ==
  ASSUME NEW k \in Nat, NEW s \in Nat, NEW b \in TreeRanges(Block(s, k))
  PROVE  b \in Nat \X Nat /\ b[1] <= b[2] /\ Encloses(Block(s, k), b)
<1> DEFINE Good(t, l) == \A c \in TreeRanges(Block(t, l)) :
                           c \in Nat \X Nat /\ c[1] <= c[2] /\ Encloses(Block(t, l), c)
           R == {l \in Nat : \A t \in Nat : Good(t, l)}
<1>1. 0 \in R
  <2>1. ASSUME NEW t \in Nat PROVE Good(t, 0)
    <3>1. Block(t, 0) \in Nat \X Nat /\ Block(t, 0)[1] <= Block(t, 0)[2]
      BY BlockFacts
    <3>2. TreeRanges(Block(t, 0)) = {Block(t, 0)}
      BY BlockRanges
    <3>3. QED
      BY <3>1, <3>2 DEF Encloses
  <2>2. QED
    BY <2>1
<1>2. ASSUME NEW l \in Nat, l \in R PROVE l + 1 \in R
  <2>1. ASSUME NEW t \in Nat, NEW c \in TreeRanges(Block(t, l + 1))
        PROVE  c \in Nat \X Nat /\ c[1] <= c[2] /\ Encloses(Block(t, l + 1), c)
    <3>1. PICK p \in Nat \ {0} : p = Pow2[l]
      BY Pow2Facts
    <3>2. Pow2[l + 1] = 2 * p
      BY <3>1, Pow2Facts
    <3>3. Block(t, l + 1) = <<t, t + 2 * p - 1>> /\ Block(t, l) = <<t, t + p - 1>>
          /\ Block(t + Pow2[l], l) = <<t + p, t + p + p - 1>>
      BY <3>1, <3>2 DEF Block
    <3>4. CASE c = Block(t, l + 1)
      BY <3>3, <3>4 DEF Encloses
    <3>5. CASE c \in Middles(Block(t, l + 1))
      <4>1. Block(t, l + 1) \in Nat \X Nat
        BY <3>3
      <4>2. c \in Nat \X Nat /\ Block(t, l + 1)[1] <= c[1] /\ c[1] <= c[2] /\ c[2] <= Block(t, l + 1)[2]
        BY <3>5, <4>1, MiddleFacts
      <4>3. QED
        BY <4>2 DEF Encloses
    <3>6. CASE c \in TreeRanges(Block(t, l))
      <4>1. c \in Nat \X Nat /\ c[1] <= c[2] /\ Encloses(Block(t, l), c)
        BY <1>2, <3>6
      <4>2. QED
        BY <3>3, <4>1 DEF Encloses
    <3>7. CASE c \in TreeRanges(Block(t + Pow2[l], l))
      <4>1. t + Pow2[l] \in Nat
        BY <3>1
      <4>2. c \in Nat \X Nat /\ c[1] <= c[2] /\ Encloses(Block(t + Pow2[l], l), c)
        BY <1>2, <3>7, <4>1
      <4>3. QED
        BY <3>3, <4>2 DEF Encloses
    <3>8. TreeRanges(Block(t, l + 1)) =
            {Block(t, l + 1)} \cup Middles(Block(t, l + 1))
              \cup TreeRanges(Block(t, l)) \cup TreeRanges(Block(t + Pow2[l], l))
      BY BlockRanges
    <3>9. QED
      BY <3>4, <3>5, <3>6, <3>7, <3>8
  <2>2. QED
    BY <2>1
<1>3. Nat \subseteq R
  <2> HIDE DEF R
  <2>1. QED
    BY <1>1, <1>2, NaturalInduction
<1>4. QED
  BY <1>3

(* A value is filed under the ranges of the tree that contain it, all of   *)
(* them and no others.                                                     *)
LEMMA PathIsExact ==
  ASSUME NEW k \in Nat, NEW s \in Nat, NEW val \in Int, s <= val, val <= s + Pow2[k] - 1, NEW b
  PROVE  b \in DescendTree(val, Block(s, k)) <=>
           b \in TreeRanges(Block(s, k)) /\ b[1] <= val /\ val <= b[2]
<1> DEFINE Good(t, l) ==
             t <= val /\ val <= t + Pow2[l] - 1 =>
               (b \in DescendTree(val, Block(t, l)) <=>
                  b \in TreeRanges(Block(t, l)) /\ b[1] <= val /\ val <= b[2])
           R == {l \in Nat : \A t \in Nat : Good(t, l)}
<1>1. 0 \in R
  <2>1. ASSUME NEW t \in Nat, t <= val, val <= t + Pow2[0] - 1
        PROVE  b \in DescendTree(val, Block(t, 0)) <=>
                 b \in TreeRanges(Block(t, 0)) /\ b[1] <= val /\ val <= b[2]
    <3>1. PICK r : r = Block(t, 0)
      OBVIOUS
    <3>2. r = <<t, t>> /\ val = t
      BY <2>1, <3>1, Pow2Facts DEF Block
    <3>3. TreeRanges(r) = {r} /\ Middles(r) = {}
      BY <3>1, BlockRanges, BlockMiddles
    <3>4. DescendTree(val, r) = {r}
      BY <3>2, <3>3, DescendUnfolds DEF PathStep
    <3>5. QED
      BY <3>1, <3>2, <3>3, <3>4
  <2>2. QED
    BY <2>1
<1>2. ASSUME NEW l \in Nat, l \in R PROVE l + 1 \in R
  <2>1. SUFFICES ASSUME NEW t \in Nat, t <= val, val <= t + Pow2[l + 1] - 1
        PROVE  b \in DescendTree(val, Block(t, l + 1)) <=>
                 b \in TreeRanges(Block(t, l + 1)) /\ b[1] <= val /\ val <= b[2]
    OBVIOUS
  <2>2. PICK p \in Nat \ {0} : p = Pow2[l]
    BY Pow2Facts
  <2>3. Pow2[l + 1] = 2 * p
    BY <2>2, Pow2Facts
  <2>4. PICK r, left, right : r = Block(t, l + 1) /\ left = Block(t, l) /\ right = Block(t + p, l)
    OBVIOUS
  <2>5. r = <<t, t + 2 * p - 1>> /\ left = <<t, t + p - 1>> /\ right = <<t + p, t + p + p - 1>>
    BY <2>2, <2>3, <2>4 DEF Block
  <2>6. /\ TreeRanges(r) = {r} \cup Middles(r) \cup TreeRanges(left) \cup TreeRanges(right)
        /\ Midpoint(r) = t + p - 1 /\ LeftHalf(r) = left /\ RightHalf(r) = right
    BY <2>2, <2>4, BlockRanges, BlockFacts
  <2>7. DescendTree(val, r) = {r} \cup {m \in Middles(r) : Encloses(m, <<val, val>>)}
                                \cup DescendTree(val, IF val <= t + p - 1 THEN left ELSE right)
    <3>1. r \in Nat \X Nat /\ r[1] # r[2]
      BY <2>5
    <3>2. DescendTree(val, r) = PathStep(val, r, DescendTree(val, NextOnPath(val, r)))
      BY <3>1, DescendUnfolds
    <3>3. QED
      BY <2>6, <3>1, <3>2 DEF PathStep, NextOnPath
  <2>8. b = r => b[1] <= val /\ val <= b[2]
    BY <2>1, <2>3, <2>5
  <2>9. b \in Middles(r) => (Encloses(b, <<val, val>>) <=> b[1] <= val /\ val <= b[2])
    <3>1. b \in Middles(r) => b \in Nat \X Nat
      BY <2>5, MiddleFacts
    <3>2. QED
      BY <3>1 DEF Encloses
  <2>10. /\ b \in TreeRanges(left) => b \in Nat \X Nat /\ b[2] <= t + p - 1
         /\ b \in TreeRanges(right) => b \in Nat \X Nat /\ t + p <= b[1]
    <3>1. t + p \in Nat
      OBVIOUS
    <3>2. b \in TreeRanges(left) => b \in Nat \X Nat /\ Encloses(left, b)
      BY <2>4, RangesInside
    <3>3. b \in TreeRanges(right) => b \in Nat \X Nat /\ Encloses(right, b)
      BY <2>4, <3>1, RangesInside
    <3>4. QED
      BY <2>5, <3>2, <3>3 DEF Encloses
  <2>11. CASE val <= t + p - 1
    <3>1. b \in DescendTree(val, left) <=> b \in TreeRanges(left) /\ b[1] <= val /\ val <= b[2]
      BY <1>2, <2>1, <2>2, <2>4, <2>11
    <3>2. ~(b \in TreeRanges(right) /\ b[1] <= val)
      BY <2>10, <2>11
    <3>3. QED
      BY <2>4, <2>6, <2>7, <2>8, <2>9, <2>11, <3>1, <3>2
  <2>12. CASE ~(val <= t + p - 1)
    <3>1. b \in DescendTree(val, right) <=> b \in TreeRanges(right) /\ b[1] <= val /\ val <= b[2]
      <4>1. t + p \in Nat /\ t + p <= val /\ val <= t + p + Pow2[l] - 1
        BY <2>1, <2>2, <2>3, <2>12
      <4>2. QED
        BY <1>2, <2>4, <4>1
    <3>2. ~(b \in TreeRanges(left) /\ val <= b[2])
      BY <2>10, <2>12
    <3>3. QED
      BY <2>4, <2>6, <2>7, <2>8, <2>9, <2>12, <3>1, <3>2
  <2>13. QED
    BY <2>11, <2>12
<1>3. Nat \subseteq R
  <2> HIDE DEF R
  <2>1. QED
    BY <1>1, <1>2, NaturalInduction
<1>4. Good(s, k)
  BY <1>3
<1>5. QED
  BY <1>4

(* The cover is a range of the tree, and no range of the tree around the   *)
(* query is smaller.                                                       *)
Width2(b) == b[2] - b[1]

LEMMA CoverIsLeast ==
  ASSUME NEW k \in Nat, NEW s \in Nat, NEW q \in Int \X Int, q[1] <= q[2],
         Encloses(Block(s, k), q)
  PROVE  /\ SingleRangeCover(Block(s, k), q) \in TreeRanges(Block(s, k))
         /\ \A b \in TreeRanges(Block(s, k)) :
              Encloses(b, q) => Width2(SingleRangeCover(Block(s, k), q)) <= Width2(b)
<1> DEFINE Good(t, l) ==
             Encloses(Block(t, l), q) =>
               /\ SingleRangeCover(Block(t, l), q) \in TreeRanges(Block(t, l))
               /\ \A b \in TreeRanges(Block(t, l)) :
                    Encloses(b, q) => Width2(SingleRangeCover(Block(t, l), q)) <= Width2(b)
           R == {l \in Nat : \A t \in Nat : Good(t, l)}
<1>1. 0 \in R
  <2>1. ASSUME NEW t \in Nat, Encloses(Block(t, 0), q) PROVE Good(t, 0)
    <3>1. PICK r : r = Block(t, 0)
      OBVIOUS
    <3>2. r = <<t, t>>
      BY <3>1, Pow2Facts DEF Block
    <3>3. TreeRanges(r) = {r} /\ Middles(r) = {}
      BY <3>1, BlockRanges, BlockMiddles
    <3>4. ~GoesLeft(r, q) /\ ~GoesRight(r, q)
      BY <3>2 DEF GoesLeft, GoesRight
    <3>5. SingleRangeCover(r, q) = EndOfWalk(r, q) /\ EndOfWalk(r, q) = r
      BY <3>2, <3>3, <3>4, CoverUnfolds DEF EndOfWalk
    <3>6. Width2(r) <= Width2(r)
      BY <3>2 DEF Width2
    <3>7. QED
      BY <3>1, <3>3, <3>5, <3>6
  <2>2. QED
    BY <2>1
<1>2. ASSUME NEW l \in Nat, l \in R PROVE l + 1 \in R
  <2>1. SUFFICES ASSUME NEW t \in Nat, Encloses(Block(t, l + 1), q) PROVE Good(t, l + 1)
    OBVIOUS
  <2>2. PICK p \in Nat \ {0} : p = Pow2[l]
    BY Pow2Facts
  <2>3. Pow2[l + 1] = 2 * p
    BY <2>2, Pow2Facts
  <2>4. PICK r, left, right : r = Block(t, l + 1) /\ left = Block(t, l) /\ right = Block(t + p, l)
    OBVIOUS
  <2>5. r = <<t, t + 2 * p - 1>> /\ left = <<t, t + p - 1>> /\ right = <<t + p, t + p + p - 1>>
    BY <2>2, <2>3, <2>4 DEF Block
  <2>6. /\ TreeRanges(r) = {r} \cup Middles(r) \cup TreeRanges(left) \cup TreeRanges(right)
        /\ LeftHalf(r) = left /\ RightHalf(r) = right
    BY <2>2, <2>4, BlockRanges, BlockFacts
  <2>7. PICK c : c = SingleRangeCover(r, q)
    OBVIOUS
  <2>8. /\ GoesLeft(r, q) => c = SingleRangeCover(left, q)
        /\ GoesRight(r, q) => c = SingleRangeCover(right, q)
        /\ ~GoesLeft(r, q) /\ ~GoesRight(r, q) => c = EndOfWalk(r, q)
    <3>1. r \in Nat \X Nat
      BY <2>5
    <3>2. QED
      BY <2>6, <2>7, <3>1, CoverUnfolds
  <2>9. r[1] < r[2] /\ Width2(r) = 2 * p - 1 /\ Width2(left) = p - 1 /\ Width2(right) = p - 1
    BY <2>5 DEF Width2
  <2>10. \A m \in Middles(r) : m \in Nat \X Nat /\ Width2(m) = p - 1 /\ Middles(r) = {m}
    <3>1. CASE l = 0
      <4>1. Middles(r) = {}
        BY <2>4, <3>1, BlockMiddles
      <4>2. QED
        BY <4>1
    <3>2. CASE l # 0
      <4>1. PICK j \in Nat : j + 1 = l /\ j + 2 = l + 1
        <5>1. l - 1 \in Nat /\ (l - 1) + 1 = l /\ (l - 1) + 2 = l + 1
          BY <3>2
        <5>2. QED
          BY <5>1
      <4>2. Middles(r) = {Block(t + Pow2[j], l)}
        BY <2>4, <4>1, BlockMiddles
      <4>3. PICK u \in Nat : u = t + Pow2[j]
        BY Pow2Facts
      <4>4. Block(u, l) = <<u, u + p - 1>>
        BY <2>2 DEF Block
      <4>5. QED
        BY <4>2, <4>3, <4>4 DEF Width2
    <3>3. QED
      BY <3>1, <3>2
  <2>11. /\ \A b \in TreeRanges(left) : b \in Nat \X Nat /\ Encloses(left, b)
         /\ \A b \in TreeRanges(right) : b \in Nat \X Nat /\ Encloses(right, b)
    <3>1. t + p \in Nat
      OBVIOUS
    <3>2. \A b \in TreeRanges(left) : b \in Nat \X Nat /\ Encloses(left, b)
      BY <2>4, RangesInside
    <3>3. \A b \in TreeRanges(right) : b \in Nat \X Nat /\ Encloses(right, b)
      BY <2>4, <3>1, RangesInside
    <3>4. QED
      BY <3>2, <3>3
  <2>12. \A b \in TreeRanges(left) : Encloses(b, q) => Encloses(left, q)
    BY <2>5, <2>11 DEF Encloses
  <2>13. \A b \in TreeRanges(right) : Encloses(b, q) => Encloses(right, q)
    BY <2>5, <2>11 DEF Encloses
  <2>14. ~(Encloses(left, q) /\ Encloses(right, q))
    BY <2>5 DEF Encloses
  <2>15. left \in TreeRanges(left) /\ right \in TreeRanges(right)
    <3>1. left \in Nat \X Nat /\ right \in Nat \X Nat
      BY <2>5
    <3>2. QED
      BY <3>1, RangesUnfold DEF TreeStep
  <2>16. CASE GoesLeft(r, q)
    <3>1. Encloses(left, q) /\ c = SingleRangeCover(left, q)
      BY <2>6, <2>8, <2>16 DEF GoesLeft
    <3>2. /\ c \in TreeRanges(left)
          /\ \A b \in TreeRanges(left) : Encloses(b, q) => Width2(c) <= Width2(b)
      BY <1>2, <2>4, <3>1
    <3>3. c \in Nat \X Nat /\ Width2(c) \in Int /\ Width2(c) <= p - 1
      BY <2>9, <2>11, <2>15, <3>1, <3>2 DEF Width2
    <3>4. ASSUME NEW b \in TreeRanges(r), Encloses(b, q) PROVE Width2(c) <= Width2(b)
      <4>1. CASE b = r
        BY <2>9, <3>3, <4>1
      <4>2. CASE b \in Middles(r)
        BY <2>10, <3>3, <4>2
      <4>3. CASE b \in TreeRanges(left)
        BY <3>2, <3>4, <4>3
      <4>4. CASE b \in TreeRanges(right)
        BY <2>13, <2>14, <3>1, <3>4, <4>4
      <4>5. QED
        BY <2>6, <3>4, <4>1, <4>2, <4>3, <4>4
    <3>5. QED
      BY <2>4, <2>6, <2>7, <3>2, <3>4
  <2>17. CASE GoesRight(r, q)
    <3>1. Encloses(right, q) /\ c = SingleRangeCover(right, q)
      BY <2>6, <2>8, <2>17 DEF GoesRight
    <3>2. /\ c \in TreeRanges(right)
          /\ \A b \in TreeRanges(right) : Encloses(b, q) => Width2(c) <= Width2(b)
      <4>1. t + p \in Nat
        OBVIOUS
      <4>2. QED
        BY <1>2, <2>4, <3>1, <4>1
    <3>3. c \in Nat \X Nat /\ Width2(c) \in Int /\ Width2(c) <= p - 1
      BY <2>9, <2>11, <2>15, <3>1, <3>2 DEF Width2
    <3>4. ASSUME NEW b \in TreeRanges(r), Encloses(b, q) PROVE Width2(c) <= Width2(b)
      <4>1. CASE b = r
        BY <2>9, <3>3, <4>1
      <4>2. CASE b \in Middles(r)
        BY <2>10, <3>3, <4>2
      <4>3. CASE b \in TreeRanges(right)
        BY <3>2, <3>4, <4>3
      <4>4. CASE b \in TreeRanges(left)
        BY <2>12, <2>14, <3>1, <3>4, <4>4
      <4>5. QED
        BY <2>6, <3>4, <4>1, <4>2, <4>3, <4>4
    <3>5. QED
      BY <2>4, <2>6, <2>7, <3>2, <3>4
  <2>18. CASE ~GoesLeft(r, q) /\ ~GoesRight(r, q)
    <3>1. ~Encloses(left, q) /\ ~Encloses(right, q)
      BY <2>6, <2>9, <2>18 DEF GoesLeft, GoesRight
    <3>2. \A b \in TreeRanges(r) : Encloses(b, q) => b = r \/ b \in Middles(r)
      BY <2>6, <2>12, <2>13, <3>1
    <3>3. c = EndOfWalk(r, q)
      BY <2>8, <2>18
    <3>4. CASE \E m \in Middles(r) : Encloses(m, q)
      <4>1. PICK m \in Middles(r) : Encloses(m, q)
        BY <3>4
      <4>2. Middles(r) = {m} /\ Width2(m) = p - 1
        BY <2>10
      <4>3. c = m
        BY <3>3, <4>1, <4>2 DEF EndOfWalk
      <4>4. \A b \in TreeRanges(r) : Encloses(b, q) => Width2(c) <= Width2(b)
        BY <2>9, <3>2, <4>2, <4>3
      <4>5. c \in TreeRanges(r)
        BY <2>6, <4>3
      <4>6. QED
        BY <2>4, <2>7, <4>4, <4>5
    <3>5. CASE ~\E m \in Middles(r) : Encloses(m, q)
      <4>1. c = r
        BY <3>3, <3>5 DEF EndOfWalk
      <4>2. \A b \in TreeRanges(r) : Encloses(b, q) => b = r
        BY <3>2, <3>5
      <4>3. Width2(r) <= Width2(r)
        BY <2>9
      <4>4. QED
        BY <2>4, <2>6, <2>7, <4>1, <4>2, <4>3
    <3>6. QED
      BY <3>4, <3>5
  <2>19. QED
    BY <2>16, <2>17, <2>18
<1>3. Nat \subseteq R
  <2> HIDE DEF R
  <2>1. QED
    BY <1>1, <1>2, NaturalInduction
<1>4. Good(s, k)
  BY <1>3
<1>5. QED
  BY <1>4

(* The tree for n values is the lowest that has a leaf for each. *)
LEMMA HeightFacts ==
  ASSUME NEW n \in Nat, n # 0
  PROVE  /\ HeightForDomain(n) \in Nat /\ Pow2[HeightForDomain(n)] >= n
         /\ \A g \in Nat : g < HeightForDomain(n) => Pow2[g] < n
<1> DEFINE T == {h \in Nat : Pow2[h] >= n}
<1>1. T \in SUBSET Nat /\ n \in T
  <2>1. n < Pow2[n] /\ Pow2[n] \in Nat
    BY Pow2Facts, Pow2Grows
  <2>2. QED
    BY <2>1
<1>2. PICK h \in T : \A g \in T : h <= g
  <2> HIDE DEF T
  <2>1. QED
    BY <1>1, NatHasLeast
<1>3. h \in 0 .. n /\ Pow2[h] >= n
  BY <1>1, <1>2
<1>4. ASSUME NEW g \in 0 .. h - 1 PROVE Pow2[g] < n
  <2>1. g \in Nat /\ g \notin T
    BY <1>2
  <2>2. Pow2[g] \in Nat
    BY <2>1, Pow2Facts
  <2>3. QED
    BY <2>1, <2>2
<1>5. PICK x : x = HeightForDomain(n)
  OBVIOUS
<1>6. x \in 0 .. n /\ Pow2[x] >= n /\ \A g \in 0 .. x - 1 : Pow2[g] < n
  BY <1>3, <1>4, <1>5 DEF HeightForDomain
<1>7. \A g \in Nat : g < x => g \in 0 .. x - 1
  BY <1>6
<1>8. QED
  BY <1>5, <1>6, <1>7

LEMMA FullRangeFacts ==
  ASSUME NEW n \in Nat, n # 0
  PROVE  /\ FullRange(n) = Block(0, HeightForDomain(n)) /\ HeightForDomain(n) \in Nat
         /\ FullRange(n) \in Nat \X Nat
         /\ FullRange(n)[1] = 0 /\ n - 1 <= FullRange(n)[2]
<1>1. PICK h \in Nat : h = HeightForDomain(n) /\ Pow2[h] >= n
  BY HeightFacts
<1>2. Pow2[h] \in Nat \ {0}
  BY Pow2Facts
<1>3. Block(0, h) = <<0, Pow2[h] - 1>> /\ FullRange(n) = <<0, Pow2[h] - 1>>
  BY <1>1, <1>2 DEF Block, FullRange
<1>4. QED
  BY <1>1, <1>2, <1>3

LEMMA FullGrid ==
  ASSUME NEW k \in Nat
  PROVE  FullRange(Pow2[k]) = Block(0, k)
<1>1. PICK n \in Nat : n = Pow2[k] /\ n # 0
  BY Pow2Facts
<1>2. PICK h \in Nat : h = HeightForDomain(n) /\ Pow2[h] >= n /\ \A g \in Nat : g < h => Pow2[g] < n
  BY <1>1, HeightFacts
<1>3. ~(k < h)
  BY <1>1, <1>2
<1>4. h <= k /\ Pow2[h] <= Pow2[k] /\ Pow2[h] \in Nat
  BY <1>3, Pow2Facts, Pow2Grows
<1>5. Pow2[h] = Pow2[k]
  BY <1>1, <1>2, <1>4
<1>6. FullRange(n) = Block(0, h)
  BY <1>1, <1>2, FullRangeFacts
<1>7. QED
  BY <1>1, <1>5, <1>6 DEF Block

-----------------------------------------------------------------------------
(* Rounding coordinates to cells                                           *)

LEMMA ProductOrder ==
  ASSUME NEW c \in Nat \ {0}, NEW a \in Int, NEW b \in Int
  PROVE  /\ c * a \in Int
         /\ a < b => c * a + c <= c * b
         /\ c * a <= c * b => a <= b
<1>1. ASSUME NEW x \in Int, NEW y \in Int, x < y PROVE c * x + c <= c * y
  <2>1. PICK d \in Nat : y = (x + 1) + d
    <3>1. y - x - 1 \in Nat /\ y = (x + 1) + (y - x - 1)
      BY <1>1
    <3>2. QED
      BY <3>1
  <2>2. c * y = (c * x + c) + c * d
    BY <2>1
  <2>3. c * d \in Nat /\ c * x \in Int
    OBVIOUS
  <2>4. QED
    BY <2>2, <2>3
<1>2. c * a \in Int /\ c * b \in Int
  OBVIOUS
<1>3. a < b => c * a + c <= c * b
  BY <1>1
<1>4. b < a => c * b + c <= c * a
  BY <1>1
<1>5. QED
  BY <1>2, <1>3, <1>4

LEMMA DivisionFacts ==
  ASSUME NEW x \in Int, NEW y \in Nat \ {0}
  PROVE  /\ x \div y \in Int /\ y * (x \div y) \in Int
         /\ y * (x \div y) <= x /\ x < y * (x \div y) + y
         /\ x % y = x - y * (x \div y)
<1>1. PICK d \in Int : d = x \div y
  OBVIOUS
<1>2. y * d <= x /\ x < y * d + y
  BY <1>1
<1>3. x % y = x - y * d
  BY <1>1
<1>4. y * d \in Int
  OBVIOUS
<1>5. QED
  BY <1>1, <1>2, <1>3, <1>4

(* Rounded down is at most rounded up, and the same only of multiples.     *)
LEMMA RoundingFacts ==
  ASSUME NEW a \in Nat, NEW b \in Nat, a <= b, NEW y \in Nat \ {0}
  PROVE  /\ a \div y \in Nat /\ CeilDiv(b, y) \in Nat
         /\ a \div y <= b \div y
         /\ a \div y <= CeilDiv(b, y)
         /\ a \div y = CeilDiv(b, y) => a = b /\ a % y = 0
<1>1. PICK d, e, f : d = a \div y /\ e = b \div y /\ f = (b + y - 1) \div y
  OBVIOUS
<1>2. d \in Int /\ y * d \in Int /\ y * d <= a /\ a < y * d + y /\ a % y = a - y * d
  BY <1>1, DivisionFacts
<1>3. e \in Int /\ y * e \in Int /\ y * e <= b /\ b < y * e + y
  BY <1>1, DivisionFacts
<1>4. f \in Int /\ y * f \in Int /\ y * f <= b + y - 1 /\ b + y - 1 < y * f + y
  <2>1. b + y - 1 \in Int
    OBVIOUS
  <2>2. QED
    BY <1>1, <2>1, DivisionFacts
<1>5. 0 <= d
  <2>1. ~(d < 0)
    <3>1. d < 0 => y * d + y <= y * 0
      BY <1>2, ProductOrder
    <3>2. y * 0 = 0
      OBVIOUS
    <3>3. QED
      BY <1>2, <3>1, <3>2
  <2>2. QED
    BY <1>2, <2>1
<1>6. d <= e
  <2>1. e < d => y * e + y <= y * d
    BY <1>2, <1>3, ProductOrder
  <2>2. QED
    BY <1>2, <1>3, <2>1
<1>7. d <= f
  <2>1. y * d <= y * f
    BY <1>2, <1>4
  <2>2. QED
    BY <1>2, <1>4, <2>1, ProductOrder
<1>8. d = f => a = b /\ a % y = 0
  BY <1>2, <1>4
<1>9. QED
  BY <1>1, <1>2, <1>4, <1>5, <1>6, <1>7, <1>8 DEF CeilDiv

LEMMA GridFacts ==
  /\ GridSize \in Nat \ {0} /\ GridMax \in Nat /\ GridSize = GridMax + 1
  /\ MaxDomain = GridSize
  /\ AxisFull = Block(0, GridBits) /\ AxisFull = <<0, GridMax>>
<1>1. GridBits \in Nat
  BY SpatialAssumption
<1>2. Pow2[GridBits] \in Nat \ {0} /\ FullRange(Pow2[GridBits]) = Block(0, GridBits)
  BY <1>1, Pow2Facts, FullGrid
<1>3. QED
  BY <1>2 DEF GridSize, GridMax, MaxDomain, AxisFull, Block

(* Cell and EndCell for an axis with range n. *)
LEMMA CellFacts ==
  ASSUME NEW a, range[a] \in Nat, NEW v \in Int
  PROVE  Cell(a, v) \in 0 .. GridMax /\ EndCell(a, v) \in 0 .. GridSize
<1>1. PICK n \in Nat : n = range[a]
  OBVIOUS
<1>2. GridMax \in Nat /\ GridSize = GridMax + 1
  BY GridFacts
<1>3. CASE n = 0
  BY <1>1, <1>2, <1>3 DEF Cell, EndCell
<1>4. CASE n # 0 /\ v < 0
  BY <1>1, <1>2, <1>4 DEF Cell, EndCell
<1>5. CASE n # 0 /\ ~(v < 0)
  <2>1. PICK p \in Nat : p = v * GridMax
    BY <1>2, <1>5
  <2>2. PICK d \in Nat, f \in Nat : d = p \div n /\ f = CeilDiv(p, n)
    <3>1. n \in Nat \ {0} /\ p <= p
      BY <1>5
    <3>2. p \div n \in Nat /\ CeilDiv(p, n) \in Nat
      BY <3>1, RoundingFacts
    <3>3. QED
      BY <3>2
  <2>3. Cell(a, v) = ClampTo(0, GridMax, d) /\ EndCell(a, v) = ClampTo(0, GridSize, f)
    BY <1>1, <1>5, <2>1, <2>2 DEF Cell, EndCell
  <2>4. QED
    BY <1>2, <2>2, <2>3 DEF ClampTo
<1>6. QED
  BY <1>3, <1>4, <1>5

(* A coordinate between the ends of a side is in a cell between theirs,    *)
(* below the end unless it is on the upper face, or the side is one cell.  *)
OnFace(a, v, hi) == range[a] # 0 /\ v = hi /\ (v * GridMax) % range[a] = 0

LEMMA CellsAreOrdered ==
  ASSUME NEW a, range[a] \in Nat, NEW v \in Int, NEW w \in Int, v <= w
  PROVE  Cell(a, v) <= Cell(a, w) /\ Cell(a, v) <= EndCell(a, w)
<1>1. PICK n \in Nat : n = range[a]
  OBVIOUS
<1>2. GridMax \in Nat /\ GridSize = GridMax + 1
  BY GridFacts
<1>3. CASE n = 0
  BY <1>1, <1>2, <1>3 DEF Cell, EndCell
<1>4. CASE n # 0 /\ v < 0
  <2>1. Cell(a, v) = 0
    BY <1>1, <1>4 DEF Cell
  <2>2. Cell(a, w) \in 0 .. GridMax /\ EndCell(a, w) \in 0 .. GridSize
    BY CellFacts
  <2>3. QED
    BY <1>2, <2>1, <2>2
<1>5. CASE n # 0 /\ ~(v < 0)
  <2>1. PICK p \in Nat, q \in Nat : p = v * GridMax /\ q = w * GridMax
    BY <1>2, <1>5
  <2>2. p <= q
    <3>1. PICK d \in Nat : w = v + d
      <4>1. w - v \in Nat /\ w = v + (w - v)
        OBVIOUS
      <4>2. QED
        BY <4>1
    <3>2. q = p + d * GridMax /\ d * GridMax \in Nat
      BY <1>2, <2>1, <3>1
    <3>3. QED
      BY <3>2
  <2>3. PICK d, e, f : d = p \div n /\ e = q \div n /\ f = CeilDiv(q, n)
    OBVIOUS
  <2>4. d \in Nat /\ e \in Nat /\ f \in Nat /\ d <= e /\ d <= f
    <3>1. n \in Nat \ {0} /\ q <= q
      BY <1>5
    <3>2. e \in Nat
      BY <2>3, <3>1, RoundingFacts
    <3>3. d \in Nat /\ f \in Nat /\ d <= e /\ d <= f
      BY <2>2, <2>3, <3>1, RoundingFacts
    <3>4. QED
      BY <3>2, <3>3
  <2>5. /\ Cell(a, v) = ClampTo(0, GridMax, d) /\ Cell(a, w) = ClampTo(0, GridMax, e)
        /\ EndCell(a, w) = ClampTo(0, GridSize, f)
    BY <1>1, <1>5, <2>1, <2>3 DEF Cell, EndCell
  <2>6. QED
    BY <1>2, <2>4, <2>5 DEF ClampTo
<1>6. QED
  BY <1>3, <1>4, <1>5

LEMMA EndIsBeyond ==
  ASSUME NEW a, range[a] \in Nat, NEW v \in Nat, NEW hi \in Int, v <= hi, v <= range[a],
         Cell(a, v) = EndCell(a, hi)
  PROVE  OnFace(a, v, hi) \/ GridMax = 0
<1>1. PICK n \in Nat : n = range[a]
  OBVIOUS
<1>2. GridMax \in Nat /\ GridSize = GridMax + 1
  BY GridFacts
<1>3. n # 0
  <2>1. CASE n = 0
    <3>1. Cell(a, v) = 0
      BY <1>1, <2>1 DEF Cell
    <3>2. EndCell(a, hi) = GridSize
      BY <1>1, <2>1 DEF EndCell
    <3>3. GridSize # 0
      BY <1>2
    <3>4. QED
      BY <3>1, <3>2, <3>3
  <2>2. QED
    BY <2>1
<1>4. PICK p \in Nat, q \in Nat, x \in Nat : p = v * GridMax /\ q = hi * GridMax /\ x = hi - v
  BY <1>2
<1>5. q = p + x * GridMax /\ x * GridMax \in Nat /\ p <= q
  BY <1>2, <1>4
<1>6. PICK d, f : d = p \div n /\ f = CeilDiv(q, n)
  OBVIOUS
<1>7. d \in Nat /\ f \in Nat /\ d <= f /\ (d = f => p = q /\ p % n = 0)
  BY <1>3, <1>5, <1>6, RoundingFacts
<1>8. Cell(a, v) = ClampTo(0, GridMax, d) /\ EndCell(a, hi) = ClampTo(0, GridSize, f)
  BY <1>1, <1>3, <1>4, <1>6 DEF Cell, EndCell
<1>9. d <= GridMax
  <2>1. n * d \in Int /\ n * d <= p
    BY <1>3, <1>6, DivisionFacts
  <2>2. PICK y \in Nat : y = n - v
    BY <1>1
  <2>3. n * GridMax = p + y * GridMax /\ y * GridMax \in Nat
    <3>1. n = v + y
      BY <2>2
    <3>2. QED
      BY <1>2, <1>4, <3>1
  <2>4. n * d <= n * GridMax
    BY <2>1, <2>3
  <2>5. QED
    BY <1>2, <1>3, <1>7, <2>4, ProductOrder
<1>10. d = f
  <2>1. ClampTo(0, GridMax, d) = d
    BY <1>2, <1>7, <1>9 DEF ClampTo
  <2>2. ClampTo(0, GridSize, f) = f \/ (ClampTo(0, GridSize, f) = GridSize /\ GridSize # d)
    BY <1>2, <1>7, <1>9 DEF ClampTo
  <2>3. ClampTo(0, GridMax, d) = ClampTo(0, GridSize, f)
    BY <1>8
  <2>4. QED
    BY <2>1, <2>2, <2>3
<1>11. x * GridMax = 0 /\ p % n = 0
  BY <1>5, <1>7, <1>10
<1>12. x = 0 \/ GridMax = 0
  BY <1>2, <1>11
<1>13. QED
  BY <1>1, <1>3, <1>4, <1>11, <1>12 DEF OnFace

(* A side that ends within the data ends at a cell. *)
LEMMA EndIsCell ==
  ASSUME NEW a, range[a] \in Nat, range[a] # 0, NEW hi \in Int, hi <= range[a]
  PROVE  EndCell(a, hi) <= GridMax
<1>1. PICK n \in Nat \ {0} : n = range[a]
  OBVIOUS
<1>2. GridMax \in Nat /\ GridSize = GridMax + 1
  BY GridFacts
<1>3. CASE hi < 0
  BY <1>1, <1>2, <1>3 DEF EndCell
<1>4. CASE ~(hi < 0)
  <2>1. PICK q \in Nat, y \in Nat : q = hi * GridMax /\ y = n - hi
    BY <1>1, <1>2, <1>4
  <2>2. n * GridMax = q + y * GridMax /\ y * GridMax \in Nat
    <3>1. n = hi + y
      BY <2>1
    <3>2. QED
      BY <1>2, <2>1, <3>1
  <2>3. PICK f : f = (q + n - 1) \div n
    OBVIOUS
  <2>4. f \in Int /\ n * f \in Int /\ n * f <= q + n - 1
    <3>1. q + n - 1 \in Int
      OBVIOUS
    <3>2. QED
      BY <2>3, <3>1, DivisionFacts
  <2>5. ~(GridMax < f)
    <3>1. GridMax < f => n * GridMax + n <= n * f
      BY <1>2, <2>4, ProductOrder
    <3>2. QED
      BY <2>2, <2>4, <3>1
  <2>6. EndCell(a, hi) = ClampTo(0, GridSize, f)
    BY <1>1, <1>4, <2>1, <2>3 DEF EndCell, CeilDiv
  <2>7. QED
    BY <1>2, <2>4, <2>5, <2>6 DEF ClampTo
<1>5. QED
  BY <1>3, <1>4

-----------------------------------------------------------------------------
(* The cubes of a quad-tree                                                *)

Cube == [start : [Axis -> Int], width : Int]

CubesWith(cubes, p) == {c \in cubes : CubeHasPoint(c, p)}
ChildrenOfAll(cubes) == UNION {ChildrenOf(c) : c \in cubes}

LEMMA ChildrenType ==
  ASSUME NEW c \in Cube
  PROVE  ChildrenOf(c) \subseteq Cube
<1>1. PICK w \in Int, s \in [Axis -> Int] : w = c.width /\ s = c.start
  BY DEF Cube
<1>2. PICK half \in Int : half = w \div 2
  OBVIOUS
<1>3. PICK step \in Int : step = IF half >= 2 THEN half \div 2 ELSE half
  BY <1>2
<1>4. PICK places : places = IF half >= 2 THEN 0 .. 2 ELSE {0, 1}
  OBVIOUS
<1>5. places \subseteq Int
  BY <1>4
<1>6. ASSUME NEW d \in [Axis -> places]
      PROVE  [start |-> [a \in Axis |-> s[a] + d[a] * step], width |-> half] \in Cube
  <2>1. \A a \in Axis : d[a] \in Int /\ d[a] * step \in Int
    <3>1. \A a \in Axis : d[a] \in Int
      BY <1>5
    <3>2. \A x \in Int : x * step \in Int
      OBVIOUS
    <3>3. QED
      BY <3>1, <3>2
  <2>2. [a \in Axis |-> s[a] + d[a] * step] \in [Axis -> Int]
    BY <2>1
  <2>3. QED
    BY <2>2 DEF Cube
<1>7. ChildrenOf(c) = IF w <= 1 THEN {}
        ELSE {[start |-> [a \in Axis |-> s[a] + d[a] * step], width |-> half] :
                d \in [Axis -> places]}
  BY <1>1, <1>2, <1>3, <1>4 DEF ChildrenOf
<1>8. QED
  BY <1>6, <1>7

LEMMA ContainingUnfolds ==
  ASSUME NEW p
  PROVE  \E Gen : /\ ContainingCubes(p) = UNION {Gen[g] : g \in 0 .. GridBits}
                  /\ Gen[0] = CubesWith({Root}, p)
                  /\ \A g \in 1 .. GridBits : Gen[g] = CubesWith(ChildrenOfAll(Gen[g - 1]), p)
<1> DEFINE D == 0 .. GridBits
           G(U) == [g \in D |->
                      IF g = 0 THEN {c \in {Root} : CubeHasPoint(c, p)}
                      ELSE {c \in UNION {ChildrenOf(d) : d \in U[g - 1]} : CubeHasPoint(c, p)}]
<1>1. GridBits \in Nat
  BY SpatialAssumption
<1>2. PICK S : S = SUBSET Cube
  OBVIOUS
<1>3. CubesWith({Root}, p) \in S
  <2>1. Root \in Cube
    <3>1. MaxDomain \in Int
      BY GridFacts
    <3>2. [a \in Axis |-> 0] \in [Axis -> Int]
      OBVIOUS
    <3>3. QED
      BY <3>1, <3>2 DEF Root, Cube
  <2>2. QED
    BY <1>2, <2>1 DEF CubesWith
<1>4. \A s \in S : CubesWith(ChildrenOfAll(s), p) \in S
  <2>1. ASSUME NEW s \in S PROVE CubesWith(ChildrenOfAll(s), p) \in S
    <3>1. \A c \in s : ChildrenOf(c) \subseteq Cube
      BY <1>2, ChildrenType
    <3>2. ChildrenOfAll(s) \subseteq Cube
      BY <3>1 DEF ChildrenOfAll
    <3>3. QED
      BY <1>2, <3>2 DEF CubesWith
  <2>2. QED
    BY <2>1
<1>5. PICK B, first, step, smaller :
        /\ B = {0}
        /\ first = [k \in D |-> CubesWith({Root}, p)]
        /\ step = [k \in D |-> [s \in S |-> CubesWith(ChildrenOfAll(s), p)]]
        /\ smaller = [k \in D |-> k - 1]
  OBVIOUS
<1>6. Recursion(D, S, B, first, step, smaller)
  <2>1. D \in SUBSET (0 .. GridBits)
    OBVIOUS
  <2>2. first \in [D -> S]
    BY <1>3, <1>5
  <2>3. step \in [D -> [S -> S]]
    BY <1>4, <1>5
  <2>4. \A d \in D \ B : smaller[d] \in D /\ smaller[d] < d
    BY <1>1, <1>5
  <2>5. QED
    BY <1>1, <2>1, <2>2, <2>3, <2>4 DEF Recursion
<1>7. PICK f \in [D -> S] : \A d \in D : f[d] = IF d \in B THEN first[d] ELSE step[d][f[smaller[d]]]
  <2> HIDE DEF D
  <2>1. QED
    BY <1>6, RecursionExists
<1>8. ASSUME NEW g \in D
      PROVE  f[g] = IF g = 0 THEN CubesWith({Root}, p) ELSE CubesWith(ChildrenOfAll(f[g - 1]), p)
  <2>1. CASE g = 0
    <3>1. g \in B /\ first[g] = CubesWith({Root}, p)
      BY <1>5, <2>1
    <3>2. QED
      BY <1>7, <2>1, <3>1
  <2>2. CASE g # 0
    <3>1. g \notin B /\ smaller[g] = g - 1 /\ g - 1 \in D
      BY <1>1, <1>5, <2>2
    <3>2. f[g - 1] \in S
      BY <1>7, <3>1
    <3>3. step[g][f[g - 1]] = CubesWith(ChildrenOfAll(f[g - 1]), p)
      BY <1>5, <3>2
    <3>4. f[g] = step[g][f[g - 1]]
      BY <1>7, <3>1
    <3>5. QED
      BY <2>2, <3>3, <3>4
  <2>3. QED
    BY <2>1, <2>2
<1>9. f = G(f)
  <2>1. \A g \in D : f[g] = G(f)[g]
    BY <1>8 DEF CubesWith, ChildrenOfAll
  <2>2. QED
    BY <1>7, <2>1
<1>10. PICK Gen : Gen = CHOOSE U : U = G(U)
  OBVIOUS
<1>11. Gen = G(Gen)
  <2> HIDE DEF G
  <2>1. QED
    BY <1>9, <1>10
<1>12. ContainingCubes(p) = UNION {Gen[g] : g \in 0 .. GridBits}
  BY <1>10 DEF ContainingCubes
<1>13. Gen[0] = CubesWith({Root}, p)
  <2>1. 0 \in D
    BY <1>1
  <2>2. QED
    BY <1>11, <2>1 DEF CubesWith
<1>14. \A g \in 1 .. GridBits : Gen[g] = CubesWith(ChildrenOfAll(Gen[g - 1]), p)
  <2>1. \A g \in 1 .. GridBits : g \in D /\ g # 0
    BY <1>1
  <2>2. QED
    BY <1>11, <2>1 DEF CubesWith, ChildrenOfAll
<1>15. QED
  BY <1>12, <1>13, <1>14

(* Starts of cubes are multiples of half their width. *)
IsMultiple(x, h) == \E j \in Int : x = h * j
StepOf(w) == IF w >= 2 THEN w \div 2 ELSE 1

LEMMA Pow2Divides ==
  ASSUME NEW g \in Nat, NEW l \in Nat, l <= g, NEW w, w = Pow2[l]
  PROVE  \E m \in Nat : Pow2[g] = w * m
<1> DEFINE R == {d \in Nat : \E m \in Nat : Pow2[l + d] = w * m}
<1>1. w \in Nat
  BY Pow2Facts
<1>2. 0 \in R
  <2>1. l + 0 = l /\ w = w * 1
    BY <1>1
  <2>2. Pow2[l + 0] = w * 1 /\ 1 \in Nat
    BY <2>1
  <2>3. QED
    BY <2>2
<1>3. ASSUME NEW d \in Nat, d \in R PROVE d + 1 \in R
  <2>1. PICK m \in Nat : Pow2[l + d] = w * m
    BY <1>3
  <2>2. l + (d + 1) = (l + d) + 1 /\ l + d \in Nat
    OBVIOUS
  <2>3. Pow2[l + (d + 1)] = 2 * (w * m)
    BY <2>1, <2>2, Pow2Facts
  <2>4. 2 * (w * m) = w * (2 * m) /\ 2 * m \in Nat
    BY <1>1
  <2>5. QED
    BY <2>3, <2>4
<1>4. Nat \subseteq R
  <2> HIDE DEF R
  <2>1. QED
    BY <1>2, <1>3, NaturalInduction
<1>5. g - l \in R /\ l + (g - l) = g
  <2>1. g - l \in Nat /\ l + (g - l) = g
    OBVIOUS
  <2>2. QED
    BY <1>4, <2>1
<1>6. QED
  BY <1>5

(* Each side of a cube lies in a side of a cube twice as wide, at a place  *)
(* where that cube's children start.                                       *)
LEMMA ParentSide ==
  ASSUME NEW w \in Nat \ {0}, w = 1 \/ \E h \in Nat : w = 2 * h,
         NEW M \in Nat, 2 * w <= M, IsMultiple(M, w),
         NEW s \in Int, 0 <= s, s + w <= M, IsMultiple(s, StepOf(w))
  PROVE  \E S \in Int : \E e \in (IF w >= 2 THEN 0 .. 2 ELSE {0, 1}) :
           /\ s = S + e * (IF w >= 2 THEN w \div 2 ELSE w)
           /\ 0 <= S /\ S + 2 * w <= M /\ IsMultiple(S, w)
<1>1. CASE w = 1
  <2>1. \A x \in Int : IsMultiple(x, w)
    <3>1. \A x \in Int : x = w * x
      BY <1>1
    <3>2. QED
      BY <3>1 DEF IsMultiple
  <2>2. CASE s + 2 <= M
    <3>1. s = s + 0 * w /\ s + 2 * w <= M /\ 0 \in {0, 1} /\ ~(w >= 2)
      BY <1>1, <2>2
    <3>2. QED
      BY <2>1, <3>1
  <2>3. CASE ~(s + 2 <= M)
    <3>1. PICK S \in Int : S = s - 1
      OBVIOUS
    <3>2. s = S + 1 * w /\ 0 <= S /\ S + 2 * w <= M /\ 1 \in {0, 1} /\ ~(w >= 2)
      BY <1>1, <2>3, <3>1
    <3>3. QED
      BY <2>1, <3>2
  <2>4. QED
    BY <2>2, <2>3
<1>2. CASE w # 1
  <2>1. PICK h \in Nat \ {0} : w = 2 * h
    BY <1>2
  <2>2. w >= 2 /\ w \div 2 = h /\ StepOf(w) = h
    BY <2>1 DEF StepOf
  <2>3. PICK j \in Int : s = h * j
    BY <2>2 DEF IsMultiple
  <2>4. PICK m \in Int : M = w * m
    BY DEF IsMultiple
  <2>5. PICK i \in Int : j = 2 * i \/ j = 2 * i + 1
    <3>1. j \div 2 \in Int /\ (j = 2 * (j \div 2) \/ j = 2 * (j \div 2) + 1)
      OBVIOUS
    <3>2. QED
      BY <3>1
  <2>6. \A x \in Int : h * (2 * x) = w * x /\ h * (2 * x + 1) = w * x + h
                       /\ w * (x + 1) = w * x + w /\ w * (x - 1) = w * x - w /\ w * x \in Int
    BY <2>1
  <2>7. CASE j = 2 * i
    <3>1. s = w * i
      BY <2>3, <2>6, <2>7
    <3>2. CASE s + 2 * w <= M
      <4>1. s = s + 0 * h /\ 0 \in 0 .. 2
        OBVIOUS
      <4>2. QED
        BY <2>2, <3>1, <3>2, <4>1 DEF IsMultiple
    <3>3. CASE ~(s + 2 * w <= M)
      <4>1. PICK S \in Int : S = w * (i - 1)
        OBVIOUS
      <4>2. S = s - w /\ s = S + 2 * h
        BY <2>1, <2>6, <3>1, <4>1
      <4>3. i + 1 = m
        <5>1. w * (i + 1) <= w * m /\ w * m < w * (i + 2)
          <6>1. w * (i + 2) = w * (i + 1) + w
            <7>1. i + 2 = (i + 1) + 1 /\ i + 1 \in Int
              OBVIOUS
            <7>2. QED
              BY <2>6, <7>1
          <6>2. QED
            BY <2>4, <2>6, <3>1, <3>3, <6>1
        <5>2. i + 1 <= m /\ ~(i + 2 <= m)
          <6>1. i + 1 <= m
            BY <5>1, ProductOrder
          <6>2. i + 2 < m => w * (i + 2) + w <= w * m
            BY ProductOrder
          <6>3. w * (i + 2) \in Int /\ w * m \in Int
            BY <2>6
          <6>4. QED
            BY <5>1, <6>1, <6>2, <6>3
        <5>3. QED
          BY <5>2
      <4>4. 0 <= S
        <5>1. w * 2 <= w * m
          BY <2>4
        <5>2. 2 <= m
          BY <5>1, ProductOrder
        <5>3. w * 0 <= w * (i - 1)
          <6>1. i - 1 = 0 \/ 0 < i - 1
            BY <4>3, <5>2
          <6>2. 0 < i - 1 => w * 0 + w <= w * (i - 1)
            BY ProductOrder
          <6>3. QED
            BY <6>1, <6>2
        <5>4. QED
          BY <4>1, <5>3
      <4>5. S + 2 * w <= M /\ 2 \in 0 .. 2
        BY <4>2
      <4>6. IsMultiple(S, w)
        <5>1. i - 1 \in Int
          OBVIOUS
        <5>2. QED
          BY <4>1, <5>1 DEF IsMultiple
      <4>7. QED
        BY <2>2, <4>2, <4>4, <4>5, <4>6
    <3>4. QED
      BY <3>2, <3>3
  <2>8. CASE j = 2 * i + 1
    <3>1. s = w * i + h
      BY <2>3, <2>6, <2>8
    <3>2. PICK S \in Int : S = w * i
      OBVIOUS
    <3>3. s = S + 1 * h /\ 1 \in 0 .. 2
      BY <3>1, <3>2
    <3>4. 0 <= S
      <4>1. ~(i < 0)
        <5>1. i < 0 => w * i + w <= w * 0
          BY ProductOrder
        <5>2. w * 0 = 0
          OBVIOUS
        <5>3. QED
          BY <2>1, <2>6, <3>1, <5>1, <5>2
      <4>2. 0 < i => w * 0 + w <= w * i
        BY ProductOrder
      <4>3. QED
        BY <3>2, <4>1, <4>2
    <3>5. S + 2 * w <= M
      <4>1. w * (i + 1) < w * m /\ w * (i + 1) = S + w
        BY <2>4, <2>6, <3>1, <3>2
      <4>2. i + 1 < m
        <5>1. m <= i + 1 => m < i + 1 \/ m = i + 1
          OBVIOUS
        <5>2. m < i + 1 => w * m + w <= w * (i + 1)
          BY ProductOrder
        <5>3. w * m \in Int
          BY <2>6
        <5>4. QED
          BY <4>1, <5>1, <5>2, <5>3
      <4>3. w * (i + 1) + w <= w * m
        BY <4>2, ProductOrder
      <4>4. QED
        BY <2>4, <4>1, <4>3
    <3>6. QED
      BY <2>2, <3>2, <3>3, <3>4, <3>5 DEF IsMultiple
  <2>9. QED
    BY <2>5, <2>7, <2>8
<1>3. QED
  BY <1>1, <1>2

Aligned(c) ==
  \A a \in Axis : /\ 0 <= c.start[a] /\ c.start[a] + c.width <= MaxDomain
                  /\ IsMultiple(c.start[a], StepOf(c.width))

(* Every such cube of the grid that contains a point is found on the way   *)
(* down from the root, whatever path leads to it.                          *)
LEMMA AlignedIsFound ==
  ASSUME NEW p \in [Axis -> Int], NEW k \in 0 .. GridBits,
         NEW c \in Cube, c.width = Pow2[GridBits - k], Aligned(c), CubeHasPoint(c, p)
  PROVE  c \in ContainingCubes(p)
<1>1. GridBits \in Nat
  BY SpatialAssumption
<1>2. PICK Gen : /\ ContainingCubes(p) = UNION {Gen[g] : g \in 0 .. GridBits}
                 /\ Gen[0] = CubesWith({Root}, p)
                 /\ \A g \in 1 .. GridBits : Gen[g] = CubesWith(ChildrenOfAll(Gen[g - 1]), p)
  BY ContainingUnfolds
<1> DEFINE Good(l) == \A d \in Cube : d.width = Pow2[GridBits - l] /\ Aligned(d) /\ CubeHasPoint(d, p)
                        => d \in Gen[l]
           R == {l \in Nat : l <= GridBits => Good(l)}
<1>3. 0 \in R
  <2>1. SUFFICES ASSUME NEW d \in Cube, d.width = Pow2[GridBits - 0], Aligned(d), CubeHasPoint(d, p)
                 PROVE  d \in Gen[0]
    OBVIOUS
  <2>2. PICK M \in Nat : M = MaxDomain
    BY GridFacts
  <2>3. d.width = M
    BY <1>1, <2>1, <2>2 DEF MaxDomain
  <2>4. \A a \in Axis : d.start[a] = 0
    <3>1. \A a \in Axis : d.start[a] \in Int
      BY DEF Cube
    <3>2. QED
      BY <2>1, <2>2, <2>3, <3>1 DEF Aligned
  <2>5. d.start = [a \in Axis |-> 0]
    BY <2>4 DEF Cube
  <2>6. d = [start |-> d.start, width |-> d.width]
    BY DEF Cube
  <2>7. d = Root
    BY <2>2, <2>3, <2>5, <2>6 DEF Root
  <2>8. QED
    BY <1>2, <2>1, <2>7 DEF CubesWith
<1>4. ASSUME NEW l \in Nat, l \in R PROVE l + 1 \in R
  <2>1. SUFFICES ASSUME l + 1 <= GridBits, NEW d \in Cube, d.width = Pow2[GridBits - (l + 1)],
                        Aligned(d), CubeHasPoint(d, p)
                 PROVE  d \in Gen[l + 1]
    OBVIOUS
  <2>2. PICK j \in Nat : j = GridBits - (l + 1) /\ j + 1 = GridBits - l /\ j + 1 <= GridBits
    <3>1. GridBits - (l + 1) \in Nat /\ GridBits - (l + 1) + 1 = GridBits - l
      BY <1>1, <2>1
    <3>2. QED
      BY <1>1, <3>1
  <2>3. PICK w \in Nat \ {0} : w = Pow2[j] /\ w = d.width /\ Pow2[j + 1] = 2 * w
    BY <2>1, <2>2, Pow2Facts
  <2>4. w = 1 \/ \E h \in Nat : w = 2 * h
    <3>1. CASE j = 0
      BY <2>3, <3>1, Pow2Facts
    <3>2. CASE j # 0
      <4>1. PICK i \in Nat : i + 1 = j
        <5>1. j - 1 \in Nat /\ (j - 1) + 1 = j
          BY <3>2
        <5>2. QED
          BY <5>1
      <4>2. Pow2[i + 1] = 2 * Pow2[i] /\ Pow2[i] \in Nat
        BY Pow2Facts
      <4>3. QED
        BY <2>3, <4>1, <4>2
    <3>3. QED
      BY <3>1, <3>2
  <2>5. PICK M \in Nat : M = MaxDomain
    BY GridFacts
  <2>6. M = Pow2[GridBits] /\ 2 * w <= M /\ IsMultiple(M, w)
    <3>1. M = Pow2[GridBits]
      BY <2>5 DEF MaxDomain
    <3>2. Pow2[j + 1] <= Pow2[GridBits]
      BY <1>1, <2>2, Pow2Grows
    <3>3. PICK m \in Nat : Pow2[GridBits] = w * m
      <4>1. j <= GridBits /\ w = Pow2[j]
        BY <1>1, <2>2, <2>3
      <4>2. QED
        BY <1>1, <4>1, Pow2Divides
    <3>4. M = w * m /\ m \in Int
      BY <3>1, <3>3
    <3>5. IsMultiple(M, w)
      BY <3>4 DEF IsMultiple
    <3>6. QED
      BY <2>3, <3>1, <3>2, <3>5
  <2>7. PICK step, places : /\ step = IF w >= 2 THEN w \div 2 ELSE w
                            /\ places = IF w >= 2 THEN 0 .. 2 ELSE {0, 1}
    OBVIOUS
  <2>8. ASSUME NEW a \in Axis
        PROVE  \E S \in Int : \E e \in places :
                 /\ d.start[a] = S + e * step /\ 0 <= S /\ S + 2 * w <= M /\ IsMultiple(S, w)
    <3>1. PICK s \in Int : s = d.start[a]
      BY DEF Cube
    <3>2. 0 <= s /\ s + w <= M /\ IsMultiple(s, StepOf(w))
      BY <2>1, <2>3, <2>5, <3>1 DEF Aligned
    <3>3. \E S \in Int : \E e \in (IF w >= 2 THEN 0 .. 2 ELSE {0, 1}) :
            /\ s = S + e * (IF w >= 2 THEN w \div 2 ELSE w)
            /\ 0 <= S /\ S + 2 * w <= M /\ IsMultiple(S, w)
      BY <2>4, <2>6, <3>2, ParentSide
    <3>4. QED
      BY <2>7, <3>1, <3>3
  <2>9. PICK S, e :
          /\ S = [a \in Axis |-> CHOOSE x \in Int : \E y \in places :
                    d.start[a] = x + y * step /\ 0 <= x /\ x + 2 * w <= M /\ IsMultiple(x, w)]
          /\ e = [a \in Axis |-> CHOOSE y \in places : d.start[a] = S[a] + y * step]
    OBVIOUS
  <2>10. ASSUME NEW a \in Axis
         PROVE  /\ S[a] \in Int /\ e[a] \in places /\ d.start[a] = S[a] + e[a] * step
                /\ 0 <= S[a] /\ S[a] + 2 * w <= M /\ IsMultiple(S[a], w)
    <3>1. /\ S[a] \in Int /\ 0 <= S[a] /\ S[a] + 2 * w <= M /\ IsMultiple(S[a], w)
          /\ \E y \in places : d.start[a] = S[a] + y * step
      BY <2>8, <2>9
    <3>2. e[a] \in places /\ d.start[a] = S[a] + e[a] * step
      BY <2>9, <3>1
    <3>3. QED
      BY <3>1, <3>2
  <2>11. S \in [Axis -> Int] /\ e \in [Axis -> places]
    BY <2>9, <2>10
  <2>12. PICK parent : parent = [start |-> S, width |-> 2 * w]
    OBVIOUS
  <2>13. parent \in Cube /\ parent.width = 2 * w /\ parent.start = S
    BY <2>11, <2>12 DEF Cube
  <2>14. Aligned(parent)
    <3>1. StepOf(2 * w) = w
      <4>1. (2 * w) \div 2 = w /\ 2 * w >= 2
        OBVIOUS
      <4>2. QED
        BY <4>1 DEF StepOf
    <3>2. QED
      BY <2>5, <2>10, <2>13, <3>1 DEF Aligned
  <2>15. \A a \in Axis : S[a] <= d.start[a] /\ d.start[a] <= S[a] + w
    <3>1. ASSUME NEW a \in Axis PROVE S[a] <= d.start[a] /\ d.start[a] <= S[a] + w
      <4>1. PICK x \in Int, y \in places : x = S[a] /\ y = e[a] /\ d.start[a] = x + y * step
        BY <2>10
      <4>2. 0 <= y * step /\ y * step <= w /\ y * step \in Int
        <5>1. CASE w = 1
          BY <2>7, <5>1
        <5>2. CASE w # 1
          <6>1. PICK h \in Nat : w = 2 * h
            BY <2>4, <5>2
          <6>2. step = h /\ y \in 0 .. 2
            BY <2>7, <5>2, <6>1
          <6>3. y * h = 0 \/ y * h = h \/ y * h = 2 * h
            BY <6>2
          <6>4. QED
            BY <6>1, <6>2, <6>3
        <5>3. QED
          BY <5>1, <5>2
      <4>3. QED
        BY <4>1, <4>2
    <3>2. QED
      BY <3>1
  <2>16. CubeHasPoint(parent, p)
    <3>1. ASSUME NEW a \in Axis PROVE S[a] <= p[a] /\ p[a] < S[a] + 2 * w
      <4>1. d.start[a] <= p[a] /\ p[a] < d.start[a] + w
        BY <2>1, <2>3 DEF CubeHasPoint
      <4>2. S[a] \in Int /\ d.start[a] \in Int /\ p[a] \in Int
        BY <2>10 DEF Cube
      <4>3. QED
        BY <2>15, <4>1, <4>2
    <3>2. QED
      BY <2>13, <3>1 DEF CubeHasPoint
  <2>17. parent \in Gen[l]
    <3>1. l <= GridBits /\ parent.width = Pow2[GridBits - l]
      BY <1>1, <2>1, <2>2, <2>3, <2>13
    <3>2. QED
      BY <1>4, <2>13, <2>14, <2>16, <3>1
  <2>18. d \in ChildrenOf(parent)
    <3>1. (2 * w) \div 2 = w /\ ~(2 * w <= 1)
      OBVIOUS
    <3>2. ChildrenOf(parent) =
            {[start |-> [a \in Axis |-> S[a] + f[a] * step], width |-> w] : f \in [Axis -> places]}
      BY <2>7, <2>13, <3>1 DEF ChildrenOf
    <3>3. d = [start |-> d.start, width |-> w]
      BY <2>3 DEF Cube
    <3>4. d.start = [a \in Axis |-> S[a] + e[a] * step]
      BY <2>10 DEF Cube
    <3>5. QED
      BY <2>11, <3>2, <3>3, <3>4
  <2>19. l + 1 \in 1 .. GridBits /\ (l + 1) - 1 = l
    BY <1>1, <2>1
  <2>20. Gen[l + 1] = CubesWith(ChildrenOfAll(Gen[l]), p)
    BY <1>2, <2>19
  <2>21. QED
    BY <2>1, <2>17, <2>18, <2>20 DEF CubesWith, ChildrenOfAll
<1>5. Nat \subseteq R
  <2> HIDE DEF R
  <2>1. QED
    BY <1>3, <1>4, NaturalInduction
<1>6. Good(k)
  BY <1>1, <1>5
<1>7. c \in Gen[k]
  BY <1>6
<1>8. QED
  BY <1>2, <1>7

(* A query inside the grid: what Adjusted makes of a rectangle. *)
LEMMA AdjustedFacts ==
  ASSUME NEW rect, \A a \in Axis : rect[a][1] \in 0 .. GridMax /\ rect[a][2] \in rect[a][1] .. GridSize
  PROVE  \A a \in Axis :
           /\ Adjusted(rect)[a][1] = rect[a][1] /\ Adjusted(rect)[a][2] \in Nat
           /\ rect[a][1] < Adjusted(rect)[a][2] /\ Adjusted(rect)[a][2] <= GridSize
           /\ rect[a][2] <= Adjusted(rect)[a][2]
<1>1. GridMax \in Nat /\ GridSize = GridMax + 1 /\ MaxDomain = GridSize
  BY GridFacts
<1>2. ASSUME NEW a \in Axis
      PROVE  /\ Adjusted(rect)[a][1] = rect[a][1] /\ Adjusted(rect)[a][2] \in Nat
             /\ rect[a][1] < Adjusted(rect)[a][2] /\ Adjusted(rect)[a][2] <= GridSize
             /\ rect[a][2] <= Adjusted(rect)[a][2]
  <2>1. PICK lo, hi : lo = rect[a][1] /\ hi = rect[a][2]
    OBVIOUS
  <2>2. lo \in 0 .. GridMax /\ hi \in lo .. GridSize
    BY <2>1
  <2>3. ClampTo(0, MaxDomain, rect[a][1]) = lo /\ ClampTo(0, MaxDomain, rect[a][2]) = hi
    BY <1>1, <2>1, <2>2 DEF ClampTo
  <2>4. Adjusted(rect)[a] = <<lo, IF hi = lo /\ hi < MaxDomain THEN hi + 1 ELSE hi>>
    BY <2>3 DEF Adjusted
  <2>5. QED
    BY <1>1, <2>1, <2>2, <2>4
<1>3. QED
  BY <1>2

(* The cube that is asked for is one of the grid and holds the query.      *)
Holds(c, query) ==
  \A a \in Axis : c.start[a] <= query[a][1] /\ query[a][2] <= c.start[a] + c.width

LEMMA PowerCube ==
  ASSUME NEW query, NEW k \in 0 .. GridBits,
         \A a \in Axis : /\ query[a][1] \in 0 .. GridMax /\ query[a][2] \in Nat
                         /\ query[a][1] < query[a][2] /\ query[a][2] <= GridSize
                         /\ query[a][2] - query[a][1] <= Pow2[k],
         NEW c \in CubesOfPower(query, Pow2[k])
  PROVE  c \in Cube /\ c.width = Pow2[k] /\ Aligned(c) /\ Holds(c, query)
<1>1. GridBits \in Nat /\ GridMax \in Nat /\ GridSize = GridMax + 1 /\ MaxDomain = GridSize
  BY GridFacts, SpatialAssumption
<1>2. PICK w \in Nat \ {0} : w = Pow2[k]
  BY <1>1, Pow2Facts
<1>3. CASE k = 0
  <2>1. w = 1
    BY <1>2, <1>3, Pow2Facts
  <2>2. c = [start |-> [a \in Axis |-> ClampTo(0, MaxDomain - 1, query[a][1])], width |-> 1]
    BY <1>2, <2>1 DEF CubesOfPower
  <2>3. \A a \in Axis : ClampTo(0, MaxDomain - 1, query[a][1]) = query[a][1]
    BY <1>1 DEF ClampTo
  <2>4. \A a \in Axis : c.start[a] = query[a][1]
    BY <2>2, <2>3
  <2>5. c.width = 1 /\ c \in Cube
    <3>1. [a \in Axis |-> ClampTo(0, MaxDomain - 1, query[a][1])] \in [Axis -> Int]
      BY <2>3
    <3>2. QED
      BY <2>2, <3>1 DEF Cube
  <2>6. Aligned(c)
    <3>1. \A x \in Int : IsMultiple(x, StepOf(1))
      <4>1. StepOf(1) = 1 /\ \A x \in Int : x = 1 * x
        BY DEF StepOf
      <4>2. QED
        BY <4>1 DEF IsMultiple
    <3>2. QED
      BY <1>1, <2>4, <2>5, <3>1 DEF Aligned
  <2>7. Holds(c, query)
    <3>1. ASSUME NEW a \in Axis PROVE c.start[a] <= query[a][1] /\ query[a][2] <= c.start[a] + c.width
      <4>1. query[a][2] - query[a][1] <= 1 /\ query[a][1] \in Int /\ query[a][2] \in Int
        BY <1>2, <2>1
      <4>2. QED
        BY <2>4, <2>5, <4>1
    <3>2. QED
      BY <3>1 DEF Holds
  <2>8. QED
    BY <1>2, <2>1, <2>5, <2>6, <2>7
<1>4. CASE k # 0
  <2>1. PICK h \in Nat \ {0} : w = 2 * h
    <3>1. k - 1 \in Nat /\ (k - 1) + 1 = k
      BY <1>1, <1>4
    <3>2. Pow2[(k - 1) + 1] = 2 * Pow2[k - 1] /\ Pow2[k - 1] \in Nat \ {0}
      BY <3>1, Pow2Facts
    <3>3. QED
      BY <1>2, <3>1, <3>2
  <2>2. w \div 2 = h /\ w # 1 /\ StepOf(w) = h
    BY <2>1 DEF StepOf
  <2>3. PICK St : St = [a \in Axis |-> Starts(query[a], w)]
    OBVIOUS
  <2>4. /\ \A a \in Axis : \E i \in {1, 2} : Usable(St[a][i], query[a], w)
        /\ c = [start |-> [a \in Axis |-> IF Usable(St[a][1], query[a], w) THEN St[a][1] ELSE St[a][2]],
                width |-> w]
    <3>1. CubesOfPower(query, w) =
            IF \A a \in Axis : \E i \in {1, 2} : Usable(Starts(query[a], w)[i], query[a], w)
            THEN {[start |-> [a \in Axis |->
                     LET s == Starts(query[a], w)
                     IN IF Usable(s[1], query[a], w) THEN s[1] ELSE s[2]],
                   width |-> w]}
            ELSE {}
      BY <2>2 DEF CubesOfPower
    <3>2. c \in CubesOfPower(query, w)
      BY <1>2
    <3>3. \A a \in Axis : St[a] = Starts(query[a], w)
      BY <2>3
    <3>4. \A a \in Axis : \E i \in {1, 2} : Usable(St[a][i], query[a], w)
      BY <3>1, <3>2, <3>3
    <3>5. c = [start |-> [a \in Axis |->
                     LET s == Starts(query[a], w)
                     IN IF Usable(s[1], query[a], w) THEN s[1] ELSE s[2]],
                   width |-> w]
      BY <3>1, <3>2
    <3>6. QED
      BY <3>3, <3>4, <3>5
  <2>5. c.width = w /\ \A a \in Axis : c.start[a] = IF Usable(St[a][1], query[a], w) THEN St[a][1]
                                                    ELSE St[a][2]
    BY <2>4
  <2>6. ASSUME NEW a \in Axis
        PROVE  Usable(c.start[a], query[a], w) /\ c.start[a] \in Int /\ IsMultiple(c.start[a], h)
    <3>1. PICK lo \in Int, hi \in Int : lo = query[a][1] /\ hi = query[a][2]
      OBVIOUS
    <3>2. PICK x \in Int, y \in Int : x = lo \div h /\ y = CeilDiv(hi - 1, h)
      <4>1. hi - 1 + h - 1 \in Int
        OBVIOUS
      <4>2. lo \div h \in Int /\ CeilDiv(hi - 1, h) \in Int
        BY <4>1, DivisionFacts DEF CeilDiv
      <4>3. QED
        BY <4>2
    <3>3. St[a] = <<x * h, y * h - w>>
      BY <2>2, <2>3, <3>1, <3>2 DEF Starts
    <3>4. x * h = h * x /\ y * h - w = h * (y - 2) /\ h * x \in Int /\ h * (y - 2) \in Int /\ y - 2 \in Int
      BY <2>1
    <3>5. c.start[a] = h * x \/ c.start[a] = h * (y - 2)
      BY <2>5, <3>3, <3>4
    <3>6. Usable(c.start[a], query[a], w)
      BY <2>4, <2>5
    <3>7. QED
      BY <3>4, <3>5, <3>6 DEF IsMultiple
  <2>7. c \in Cube
    <3>1. c.start \in [Axis -> Int]
      BY <2>4, <2>5, <2>6
    <3>2. QED
      BY <2>4, <3>1 DEF Cube
  <2>8. Aligned(c)
    BY <2>2, <2>5, <2>6 DEF Aligned, Usable
  <2>9. Holds(c, query)
    BY <2>5, <2>6 DEF Holds, Usable
  <2>10. QED
    BY <1>2, <2>5, <2>7, <2>8, <2>9
<1>5. QED
  BY <1>3, <1>4

LEMMA CubeCoverFacts ==
  ASSUME NEW rect, \A a \in Axis : rect[a][1] \in 0 .. GridMax /\ rect[a][2] \in rect[a][1] .. GridSize
  PROVE  LET c == SingleCubeCover(rect)
         IN /\ c \in Cube /\ \E k \in 0 .. GridBits : c.width = Pow2[GridBits - k]
            /\ Aligned(c) /\ Holds(c, Adjusted(rect))
<1>1. GridBits \in Nat /\ GridMax \in Nat /\ GridSize = GridMax + 1 /\ MaxDomain = GridSize
  BY GridFacts, SpatialAssumption
<1>2. PICK query : query = Adjusted(rect)
  OBVIOUS
<1>3. \A a \in Axis : /\ query[a][1] \in 0 .. GridMax /\ query[a][2] \in Nat
                      /\ query[a][1] < query[a][2] /\ query[a][2] <= GridSize
  BY <1>2, AdjustedFacts
<1>4. PICK longest : longest = {1} \cup {query[a][2] - query[a][1] : a \in Axis}
  OBVIOUS
<1>5. PICK powers : powers = {p \in {Pow2[k] : k \in 0 .. GridBits} :
                                (\A l \in longest : l <= p) /\ CubesOfPower(query, p) # {}}
  OBVIOUS
<1>6. PICK c : c = SingleCubeCover(rect)
  OBVIOUS
<1>7. c = IF powers = {} THEN Root
          ELSE CHOOSE d \in CubesOfPower(query, CHOOSE p \in powers : \A q \in powers : p <= q) : TRUE
  BY <1>2, <1>4, <1>5, <1>6 DEF SingleCubeCover
<1>8. CASE powers = {}
  <2>1. c = Root
    BY <1>7, <1>8
  <2>2. c \in Cube /\ c.width = MaxDomain /\ \A a \in Axis : c.start[a] = 0
    <3>1. [a \in Axis |-> 0] \in [Axis -> Int] /\ MaxDomain \in Int
      BY <1>1
    <3>2. QED
      BY <2>1, <3>1 DEF Root, Cube
  <2>3. c.width = Pow2[GridBits - 0] /\ 0 \in 0 .. GridBits
    BY <1>1, <2>2 DEF MaxDomain
  <2>4. Aligned(c)
    <3>1. StepOf(MaxDomain) \in Int
      BY <1>1 DEF StepOf
    <3>2. IsMultiple(0, StepOf(MaxDomain))
      <4>1. \A h \in Int : 0 = h * 0
        OBVIOUS
      <4>2. QED
        BY <3>1, <4>1 DEF IsMultiple
    <3>3. QED
      BY <1>1, <2>2, <3>2 DEF Aligned
  <2>5. Holds(c, query)
    BY <1>1, <1>3, <2>2 DEF Holds
  <2>6. QED
    BY <1>2, <1>6, <2>2, <2>3, <2>4, <2>5
<1>9. CASE powers # {}
  <2>1. powers \in SUBSET Nat
    <3>1. \A k \in 0 .. GridBits : Pow2[k] \in Nat
      BY <1>1, Pow2Facts
    <3>2. QED
      BY <1>5, <3>1
  <2>2. \E p \in powers : \A q \in powers : p <= q
    BY <1>9, <2>1, NatHasLeast
  <2>3. PICK P \in powers : P = CHOOSE p \in powers : \A q \in powers : p <= q
    BY <2>2
  <2>4. PICK k \in 0 .. GridBits : P = Pow2[k] /\ CubesOfPower(query, Pow2[k]) # {}
    BY <1>5, <2>3
  <2>5. c \in CubesOfPower(query, Pow2[k])
    BY <1>7, <1>9, <2>3, <2>4
  <2>6. \A a \in Axis : query[a][2] - query[a][1] <= Pow2[k]
    BY <1>4, <1>5, <2>3, <2>4
  <2>7. c \in Cube /\ c.width = Pow2[k] /\ Aligned(c) /\ Holds(c, query)
    BY <1>3, <2>5, <2>6, PowerCube
  <2>8. GridBits - k \in 0 .. GridBits /\ GridBits - (GridBits - k) = k
    BY <1>1
  <2>9. \E j \in 0 .. GridBits : c.width = Pow2[GridBits - j]
    BY <2>7, <2>8
  <2>10. QED
    BY <1>2, <1>6, <2>7, <2>9
<1>10. QED
  BY <1>8, <1>9

-----------------------------------------------------------------------------
(* The two rounds of LogarithmicSrcI1Index                                 *)

IsAttr(attr) ==
  /\ IsFiniteSet(DOMAIN attr) /\ DOMAIN attr \subseteq Nat /\ DOMAIN attr # {}
  /\ \A r \in DOMAIN attr : attr[r] \in Nat

Before(attr, v) == Cardinality({s \in DOMAIN attr : attr[s] < v})
Having(attr, v) == Cardinality({s \in DOMAIN attr : attr[s] = v})
AttrValues(attr) == {attr[r] : r \in DOMAIN attr}

(* The position of a record is among those of its value. *)
LEMMA PositionFacts ==
  ASSUME NEW attr, IsAttr(attr), NEW r \in DOMAIN attr
  PROVE  LET v == attr[r]
             n == Cardinality(DOMAIN attr)
         IN /\ n \in Nat \ {0} /\ Before(attr, v) \in Nat /\ Having(attr, v) \in Nat
            /\ Before(attr, v) + Having(attr, v) <= n
            /\ PositionOf(attr, r) \in Before(attr, v) .. Before(attr, v) + Having(attr, v) - 1
<1>1. PICK v, D : v = attr[r] /\ D = DOMAIN attr
  OBVIOUS
<1>2. IsFiniteSet(D) /\ D \subseteq Nat /\ D # {} /\ v \in Nat /\ \A s \in D : attr[s] \in Nat
  BY <1>1 DEF IsAttr
<1>3. PICK A, B, C : /\ A = {s \in D : attr[s] < v} /\ C = {s \in D : attr[s] = v}
                     /\ B = {s \in D : attr[s] = v /\ s < r}
  OBVIOUS
<1>4. /\ A \in SUBSET D /\ C \in SUBSET D /\ B \in SUBSET C /\ A \cap C = {} /\ A \cap B = {}
      /\ r \in C /\ r \notin B
  <2>1. A \in SUBSET D /\ C \in SUBSET D /\ B \in SUBSET C
    BY <1>3
  <2>2. A \cap C = {}
    BY <1>2, <1>3
  <2>3. r \in C /\ r \notin B
    BY <1>1, <1>2, <1>3
  <2>4. QED
    BY <2>1, <2>2, <2>3
<1>5. IsFiniteSet(A) /\ IsFiniteSet(C)
  BY <1>2, <1>4, FS_Subset
<1>6. IsFiniteSet(B) /\ Cardinality(B) <= Cardinality(C) /\ Cardinality(C) # Cardinality(B)
  BY <1>4, <1>5, FS_Subset
<1>7. PICK a, b, c, n : a = Cardinality(A) /\ b = Cardinality(B) /\ c = Cardinality(C)
                        /\ n = Cardinality(D)
  OBVIOUS
<1>8. a \in Nat /\ b \in Nat /\ c \in Nat /\ n \in Nat
  BY <1>2, <1>5, <1>6, <1>7, FS_CardinalityType
<1>9. n # 0
  BY <1>2, <1>7, FS_EmptySet
<1>10. b < c
  BY <1>6, <1>7, <1>8
<1>11. Cardinality({}) = 0
  BY FS_EmptySet
<1>12. a + c <= n
  <2>1. PICK U : U = A \cup C
    OBVIOUS
  <2>2. Cardinality(U) = a + c - Cardinality(A \cap C)
    BY <1>5, <1>7, <2>1, FS_Union
  <2>3. Cardinality(U) = a + c
    BY <1>4, <1>8, <1>11, <2>2
  <2>4. U \in SUBSET D
    BY <1>4, <2>1
  <2>5. Cardinality(U) <= Cardinality(D)
    BY <1>2, <2>4, FS_Subset
  <2>6. QED
    BY <1>7, <2>3, <2>5
<1>13. PositionOf(attr, r) = a + b
  <2>1. PICK U : U = A \cup B
    OBVIOUS
  <2>2. Cardinality(U) = a + b - Cardinality(A \cap B)
    BY <1>5, <1>6, <1>7, <2>1, FS_Union
  <2>3. Cardinality(U) = a + b
    BY <1>4, <1>8, <1>11, <2>2
  <2>4. U = {s \in DOMAIN attr : attr[s] < attr[r] \/ (attr[s] = attr[r] /\ s < r)}
    BY <1>1, <1>3, <2>1
  <2>5. QED
    BY <2>3, <2>4 DEF PositionOf
<1>14. Before(attr, v) = a /\ Having(attr, v) = c
  BY <1>1, <1>3, <1>7 DEF Before, Having
<1>15. QED
  BY <1>1, <1>7, <1>8, <1>9, <1>10, <1>12, <1>13, <1>14

LEMMA FiniteHasGreatest ==
  ASSUME NEW V, IsFiniteSet(V), V \subseteq Nat, V # {}
  PROVE  \E m \in V : \A v \in V : v <= m
<1>1. PICK n \in Nat : n = Cardinality(V)
  BY FS_CardinalityType
<1>2. n # 0
  BY <1>1, FS_EmptySet
<1>3. PICK s : s = Ascending(V)
  OBVIOUS
<1>4. V \subseteq Int
  OBVIOUS
<1>5. /\ s \in [1 .. n -> V] /\ \A x \in V : \E i \in 1 .. n : s[i] = x
      /\ \A i, j \in 1 .. n : i < j => s[i] < s[j]
  BY <1>1, <1>3, <1>4, AscendingFacts
<1>6. n \in 1 .. n /\ s[n] \in V
  BY <1>1, <1>2, <1>5
<1>7. ASSUME NEW v \in V PROVE v <= s[n]
  <2>1. PICK i \in 1 .. n : s[i] = v
    BY <1>5
  <2>2. i = n \/ i < n
    BY <1>1
  <2>3. v \in Int /\ s[n] \in Int
    BY <1>4, <1>6
  <2>4. QED
    BY <1>5, <1>6, <2>1, <2>2, <2>3
<1>8. QED
  BY <1>6, <1>7

LEMMA FiniteImage ==
  ASSUME NEW D, IsFiniteSet(D), NEW f
  PROVE  IsFiniteSet({f[x] : x \in D})
<1>1. PICK V, g : V = {f[x] : x \in D} /\ g = [x \in D |-> f[x]]
  OBVIOUS
<1>2. g \in Surjection(D, V)
  BY <1>1 DEF Surjection
<1>3. QED
  BY <1>1, <1>2, FS_Surjection

LEMMA ValuesFacts ==
  ASSUME NEW attr, IsAttr(attr)
  PROVE  /\ IsFiniteSet(AttrValues(attr)) /\ AttrValues(attr) \subseteq Nat
         /\ \E m \in AttrValues(attr) : \A v \in AttrValues(attr) : v <= m
<1>1. PICK V, D : V = AttrValues(attr) /\ D = DOMAIN attr
  OBVIOUS
<1>2. IsFiniteSet(D) /\ D # {} /\ V = {attr[r] : r \in D} /\ V \subseteq Nat
  BY <1>1 DEF IsAttr, AttrValues
<1>3. IsFiniteSet(V)
  BY <1>2, FiniteImage
<1>4. V # {}
  BY <1>2
<1>5. \E m \in V : \A v \in V : v <= m
  BY <1>2, <1>3, <1>4, FiniteHasGreatest
<1>6. QED
  BY <1>1, <1>2, <1>3, <1>5

(* range_table_ has an entry for each value, and each entry is one. *)
LEMMA TableFacts ==
  ASSUME NEW attr, IsAttr(attr)
  PROVE  /\ \A r \in DOMAIN attr : \E i \in DOMAIN RangeTable(attr) : RangeTable(attr)[i].attr = attr[r]
         /\ \A i \in DOMAIN RangeTable(attr) :
              /\ RangeTable(attr)[i].attr \in AttrValues(attr)
              /\ RangeTable(attr)[i].positions =
                   <<Before(attr, RangeTable(attr)[i].attr),
                     Before(attr, RangeTable(attr)[i].attr)
                       + Having(attr, RangeTable(attr)[i].attr) - 1>>
         /\ IsFiniteSet(DOMAIN RangeTable(attr)) /\ DOMAIN RangeTable(attr) \subseteq Nat
<1>1. PICK V, s, n, table : /\ V = AttrValues(attr) /\ s = ValuesOf(attr) /\ n = Cardinality(V)
                            /\ table = RangeTable(attr)
  OBVIOUS
<1>2. IsFiniteSet(V) /\ V \subseteq Int /\ s = Ascending(V)
  BY <1>1, ValuesFacts DEF ValuesOf, AttrValues
<1>3. n \in Nat /\ s \in [1 .. n -> V] /\ \A x \in V : \E i \in 1 .. n : s[i] = x
  BY <1>1, <1>2, AscendingFacts
<1>4. table = [i \in 1 .. n |-> [attr |-> s[i], positions |->
                 <<Before(attr, s[i]), Before(attr, s[i]) + Having(attr, s[i]) - 1>>]]
  <2>1. DOMAIN s = 1 .. n
    BY <1>3
  <2>2. QED
    BY <1>1, <2>1 DEF RangeTable, Before, Having
<1>5. DOMAIN table = 1 .. n /\ \A i \in 1 .. n :
        /\ table[i].attr = s[i] /\ s[i] \in V
        /\ table[i].positions = <<Before(attr, s[i]), Before(attr, s[i]) + Having(attr, s[i]) - 1>>
  BY <1>3, <1>4
<1>6. IsFiniteSet(1 .. n) /\ 1 .. n \subseteq Nat
  BY <1>3, FS_Interval
<1>7. \A r \in DOMAIN attr : attr[r] \in V
  BY <1>1 DEF AttrValues
<1>8. \A r \in DOMAIN attr : \E i \in 1 .. n : table[i].attr = attr[r]
  BY <1>3, <1>5, <1>7
<1>9. QED
  BY <1>1, <1>5, <1>6, <1>8

LEMMA AttrRangeFacts ==
  ASSUME NEW attr, IsAttr(attr)
  PROVE  /\ AttrRange(attr) \in Nat \X Nat /\ AttrRange(attr)[1] = 0
         /\ \A r \in DOMAIN attr : attr[r] <= AttrRange(attr)[2]
         /\ PosRange(attr) \in Nat \X Nat /\ PosRange(attr)[1] = 0
         /\ Cardinality(DOMAIN attr) - 1 <= PosRange(attr)[2]
<1>1. PICK m : m = CHOOSE x \in AttrValues(attr) : \A r \in DOMAIN attr : attr[r] <= x
  OBVIOUS
<1>2. \E x \in AttrValues(attr) : \A r \in DOMAIN attr : attr[r] <= x
  BY ValuesFacts DEF AttrValues
<1>3. m \in Nat /\ \A r \in DOMAIN attr : attr[r] <= m
  BY <1>1, <1>2, ValuesFacts
<1>4. AttrRange(attr) = FullRange(1 + m)
  BY <1>1 DEF AttrRange, AttrValues
<1>5. 1 + m \in Nat /\ 1 + m # 0 /\ (1 + m) - 1 = m
  BY <1>3
<1>6. FullRange(1 + m) \in Nat \X Nat /\ FullRange(1 + m)[1] = 0 /\ m <= FullRange(1 + m)[2]
  BY <1>5, FullRangeFacts
<1>7. \A r \in DOMAIN attr : attr[r] <= FullRange(1 + m)[2]
  <2>1. \A r \in DOMAIN attr : attr[r] \in Nat
    BY DEF IsAttr
  <2>2. QED
    BY <1>3, <1>6, <2>1
<1>8. PICK n \in Nat : n = Cardinality(DOMAIN attr) /\ n # 0
  <2>1. PICK r \in DOMAIN attr : TRUE
    BY DEF IsAttr
  <2>2. QED
    BY <2>1, PositionFacts
<1>9. FullRange(n) \in Nat \X Nat /\ FullRange(n)[1] = 0 /\ n - 1 <= FullRange(n)[2]
  BY <1>8, FullRangeFacts
<1>10. QED
  BY <1>4, <1>6, <1>7, <1>8, <1>9 DEF PosRange

(* What is filed under a label of each round. *)
LEMMA I1Filed ==
  ASSUME NEW attr, IsAttr(attr)
  PROVE  /\ \A l \in DOMAIN I1Postings(attr) : I1Postings(attr)[l] \in Seq(Int)
         /\ \A i \in DOMAIN RangeTable(attr) :
              \A c \in DescendTree(RangeTable(attr)[i].attr, AttrRange(attr)) :
                <<"i1", c>> \in DOMAIN I1Postings(attr) /\ i \in Range(I1Postings(attr)[<<"i1", c>>])
         /\ \A r \in DOMAIN attr : \A c \in DescendTree(PositionOf(attr, r), PosRange(attr)) :
              <<"i2", c>> \in DOMAIN I1Postings(attr) /\ r \in Range(I1Postings(attr)[<<"i2", c>>])
<1>1. PICK T, D : T = DOMAIN RangeTable(attr) /\ D = DOMAIN attr
  OBVIOUS
<1>2. IsFiniteSet(T) /\ T \subseteq Nat /\ IsFiniteSet(D) /\ D \subseteq Nat /\ D # {}
  BY <1>1, TableFacts DEF IsAttr
<1>3. PICK ranges, places :
        /\ ranges = UNION {{<<r, i>> : r \in DescendTree(RangeTable(attr)[i].attr, AttrRange(attr))} :
                             i \in T}
        /\ places = UNION {{<<p, r>> : p \in DescendTree(PositionOf(attr, r), PosRange(attr))} :
                             r \in D}
  OBVIOUS
<1>4. PICK labels : labels = {<<"i1", x[1]>> : x \in ranges} \cup {<<"i2", x[1]>> : x \in places}
  OBVIOUS
<1> DEFINE Under(l) == {x[2] : x \in {y \in IF l[1] = "i1" THEN ranges ELSE places : y[1] = l[2]}}
<1>5. I1Postings(attr) = [l \in labels |-> Ascending(Under(l))]
  BY <1>1, <1>2, <1>3, <1>4 DEF I1Postings
<1>6. (\A x \in ranges : x[2] \in T) /\ (\A x \in places : x[2] \in D)
  BY <1>3
<1>7. ASSUME NEW l \in labels PROVE Under(l) \in SUBSET Nat /\ IsFiniteSet(Under(l))
  <2>1. CASE l[1] = "i1"
    <3>1. Under(l) \in SUBSET T
      BY <1>6, <2>1
    <3> HIDE DEF Under
    <3>2. QED
      BY <1>2, <3>1, FS_Subset
  <2>2. CASE l[1] # "i1"
    <3>1. Under(l) \in SUBSET D
      BY <1>6, <2>2
    <3> HIDE DEF Under
    <3>2. QED
      BY <1>2, <3>1, FS_Subset
  <2>3. QED
    BY <2>1, <2>2
<1>8. ASSUME NEW l \in labels
      PROVE  I1Postings(attr)[l] \in Seq(Int) /\ Range(I1Postings(attr)[l]) = Under(l)
  <2>1. PICK U : U = Under(l)
    OBVIOUS
  <2>2. I1Postings(attr)[l] = Ascending(U)
    BY <1>5, <2>1
  <2>3. IsFiniteSet(U) /\ U \subseteq Int
    BY <1>7, <2>1
  <2>4. Ascending(U) \in Seq(U) /\ Range(Ascending(U)) = U
    BY <2>3, AscendingIsSeq
  <2>5. Ascending(U) \in Seq(Int)
    BY <2>3, <2>4, SeqOfLarger
  <2>6. QED
    BY <2>1, <2>2, <2>4, <2>5
<1>9. DOMAIN I1Postings(attr) = labels
  BY <1>5
<1>10. ASSUME NEW i \in T, NEW c \in DescendTree(RangeTable(attr)[i].attr, AttrRange(attr))
       PROVE  <<"i1", c>> \in labels /\ i \in Under(<<"i1", c>>)
  <2>1. PICK x : x = <<c, i>>
    OBVIOUS
  <2>2. x \in ranges /\ x[1] = c /\ x[2] = i
    BY <1>3, <1>10, <2>1
  <2>3. PICK l : l = <<"i1", c>>
    OBVIOUS
  <2>4. l[1] = "i1" /\ l[2] = c
    BY <2>3
  <2>5. l \in labels
    BY <1>4, <2>2, <2>3
  <2>6. i \in Under(l)
    BY <2>2, <2>4
  <2>7. QED
    BY <2>3, <2>5, <2>6
<1>11. ASSUME NEW r \in D, NEW c \in DescendTree(PositionOf(attr, r), PosRange(attr))
       PROVE  <<"i2", c>> \in labels /\ r \in Under(<<"i2", c>>)
  <2>1. PICK x : x = <<c, r>>
    OBVIOUS
  <2>2. x \in places /\ x[1] = c /\ x[2] = r
    BY <1>3, <1>11, <2>1
  <2>3. PICK l : l = <<"i2", c>>
    OBVIOUS
  <2>4. l[1] # "i1" /\ l[2] = c
    BY <2>3
  <2>5. l \in labels
    BY <1>4, <2>2, <2>3
  <2>6. r \in Under(l)
    BY <2>2, <2>4
  <2>7. QED
    BY <2>3, <2>5, <2>6
<1>12. QED
  <2> HIDE DEF Under
  <2>1. \A l \in DOMAIN I1Postings(attr) : I1Postings(attr)[l] \in Seq(Int)
    BY <1>8, <1>9
  <2>2. ASSUME NEW i \in T, NEW c \in DescendTree(RangeTable(attr)[i].attr, AttrRange(attr))
        PROVE  <<"i1", c>> \in DOMAIN I1Postings(attr) /\ i \in Range(I1Postings(attr)[<<"i1", c>>])
    BY <1>8, <1>9, <1>10
  <2>3. ASSUME NEW r \in D, NEW c \in DescendTree(PositionOf(attr, r), PosRange(attr))
        PROVE  <<"i2", c>> \in DOMAIN I1Postings(attr) /\ r \in Range(I1Postings(attr)[<<"i2", c>>])
    BY <1>8, <1>9, <1>11
  <2>4. QED
    BY <1>1, <2>1, <2>2, <2>3

(* A number of a bounded set lies in a run of it that nothing extends. *)
LEMMA MaximalRun ==
  ASSUME NEW n \in Nat, NEW C \in SUBSET (0 .. n), NEW x \in C
  PROVE  \E a, b \in C : /\ a <= x /\ x <= b /\ a .. b \subseteq C
                         /\ a - 1 \notin C /\ b + 1 \notin C
<1> DEFINE Lower == {y \in 0 .. x : y .. x \subseteq C}
           Upper == {y \in x .. n : x .. y \subseteq C}
<1>1. x \in 0 .. n
  OBVIOUS
<1>2. Lower \in SUBSET Nat /\ x \in Lower
  BY <1>1
<1>3. PICK a \in Lower : \A y \in Lower : a <= y
  <2> HIDE DEF Lower
  <2>1. Lower # {}
    BY <1>2
  <2>2. QED
    BY <1>2, <2>1, NatHasLeast
<1>4. Upper \in SUBSET (0 .. n) /\ x \in Upper
  BY <1>1
<1>5. PICK b \in Upper : \A y \in Upper : y <= b
  <2> HIDE DEF Upper
  <2>1. Upper # {}
    BY <1>4
  <2>2. QED
    BY <1>4, <2>1, BoundedHasGreatest
<1>6. a \in 0 .. x /\ b \in x .. n /\ a .. x \subseteq C /\ x .. b \subseteq C
  BY <1>3, <1>5
<1>7. a .. b \subseteq C
  <2>1. \A y \in a .. b : y \in a .. x \/ y \in x .. b
    BY <1>1, <1>6
  <2>2. QED
    BY <1>6, <2>1
<1>8. a - 1 \notin C
  <2>1. SUFFICES ASSUME a - 1 \in C PROVE FALSE
    OBVIOUS
  <2>2. a - 1 \in 0 .. x
    BY <1>1, <1>6, <2>1
  <2>3. \A y \in (a - 1) .. x : y = a - 1 \/ y \in a .. x
    BY <1>6
  <2>4. (a - 1) .. x \subseteq C
    BY <1>6, <2>1, <2>3
  <2>5. a - 1 \in Lower
    BY <2>2, <2>4
  <2>6. a <= a - 1
    BY <1>3, <2>5
  <2>7. QED
    BY <1>6, <2>6
<1>9. b + 1 \notin C
  <2>1. SUFFICES ASSUME b + 1 \in C PROVE FALSE
    OBVIOUS
  <2>2. b + 1 \in x .. n
    BY <1>1, <1>6, <2>1
  <2>3. \A y \in x .. (b + 1) : y = b + 1 \/ y \in x .. b
    BY <1>6
  <2>4. x .. (b + 1) \subseteq C
    BY <1>6, <2>1, <2>3
  <2>5. b + 1 \in Upper
    BY <2>2, <2>4
  <2>6. b + 1 <= b
    BY <1>5, <2>5
  <2>7. QED
    BY <1>6, <2>6
<1>10. a \in C /\ b \in C
  BY <1>1, <1>6
<1>11. QED
  BY <1>1, <1>6, <1>7, <1>8, <1>9, <1>10

(* The first round finds the table's entry of every value asked for. *)
LEMMA FirstRoundFinds ==
  ASSUME NEW attr, IsAttr(attr), NEW first \in Int, NEW last \in Int,
         NEW r \in DOMAIN attr, first <= attr[r], attr[r] <= last,
         NEW i \in DOMAIN RangeTable(attr), RangeTable(attr)[i].attr = attr[r]
  PROVE  i \in Search(BuildEMM(I1Postings(attr)), I1QueryLabels(attr, first, last))
<1>1. PICK full, q, v :
        /\ full = AttrRange(attr) /\ v = attr[r]
        /\ q = <<IF first < full[1] THEN full[1] ELSE first,
                 IF last > full[2] THEN full[2] ELSE last>>
  OBVIOUS
<1>2. full \in Nat \X Nat /\ full[1] = 0 /\ v \in Nat /\ v <= full[2]
  BY <1>1, AttrRangeFacts DEF IsAttr
<1>3. q \in Int \X Int /\ q[1] <= v /\ v <= q[2] /\ Encloses(full, q)
  BY <1>1, <1>2 DEF Encloses
<1>4. ~(q[1] > q[2])
  BY <1>2, <1>3
<1>5. I1QueryLabels(attr, first, last) = {<<"i1", SingleRangeCover(full, q)>>}
  BY <1>1, <1>4 DEF I1QueryLabels
<1>6. SingleRangeCover(full, q) \in DescendTree(v, full)
  BY <1>2, <1>3, CoverIsOnPath
<1>7. PICK l : l = <<"i1", SingleRangeCover(full, q)>>
  OBVIOUS
<1>8. l \in DOMAIN I1Postings(attr) /\ i \in Range(I1Postings(attr)[l])
  BY <1>1, <1>6, <1>7, I1Filed
<1>9. \A k \in DOMAIN I1Postings(attr) : I1Postings(attr)[k] \in Seq(Int)
  BY I1Filed
<1>10. QED
  BY <1>5, <1>7, <1>8, <1>9, SearchIsExact

(* The second finds the records at the positions of the entries. *)
LEMMA SecondRoundFinds ==
  ASSUME NEW attr, IsAttr(attr), NEW first \in Int, NEW last \in Int,
         NEW r \in DOMAIN attr, first <= attr[r], attr[r] <= last,
         NEW ids, NEW i \in DOMAIN RangeTable(attr), RangeTable(attr)[i].attr = attr[r], i \in ids
  PROVE  r \in Search(BuildEMM(I1Postings(attr)),
                      I2QueryLabels(attr, MergedRanges(attr, ids, first, last)))
<1>1. PICK table, wanted :
        /\ table = RangeTable(attr)
        /\ wanted = {j \in ids : j \in DOMAIN table /\ first <= table[j].attr /\ table[j].attr <= last}
  OBVIOUS
<1>2. PICK covered : covered = UNION {table[j].positions[1] .. table[j].positions[2] : j \in wanted}
  OBVIOUS
<1>3. PICK n : n = Cardinality(DOMAIN attr)
  OBVIOUS
<1>4. n \in Nat \ {0} /\ PositionOf(attr, r)
        \in Before(attr, attr[r]) .. Before(attr, attr[r]) + Having(attr, attr[r]) - 1
  BY <1>3, PositionFacts
<1>5. ASSUME NEW j \in DOMAIN table
      PROVE  \E b \in Nat, h \in Nat : /\ table[j].positions = <<b, b + h - 1>> /\ b + h <= n
                                       /\ b = Before(attr, table[j].attr) /\ h = Having(attr, table[j].attr)
  <2>1. PICK s \in DOMAIN attr : table[j].attr = attr[s]
    BY <1>1, TableFacts DEF AttrValues
  <2>2. table[j].positions = <<Before(attr, attr[s]), Before(attr, attr[s]) + Having(attr, attr[s]) - 1>>
    BY <1>1, <2>1, TableFacts
  <2>3. /\ Before(attr, attr[s]) \in Nat /\ Having(attr, attr[s]) \in Nat
        /\ Before(attr, attr[s]) + Having(attr, attr[s]) <= n
    BY <1>3, PositionFacts
  <2>4. QED
    BY <2>1, <2>2, <2>3
<1>6. covered \in SUBSET (0 .. n - 1)
  <2>1. ASSUME NEW j \in wanted, NEW x \in table[j].positions[1] .. table[j].positions[2]
        PROVE  x \in 0 .. n - 1
    <3>1. PICK b \in Nat, h \in Nat : table[j].positions = <<b, b + h - 1>> /\ b + h <= n
      BY <1>1, <1>5
    <3>2. x \in b .. b + h - 1
      BY <3>1
    <3>3. QED
      BY <1>4, <3>1, <3>2
  <2>2. QED
    BY <1>2, <2>1
<1>7. PICK p : p = PositionOf(attr, r)
  OBVIOUS
<1>8. p \in covered
  <2>1. i \in wanted
    BY <1>1
  <2>2. PICK b \in Nat, h \in Nat : /\ table[i].positions = <<b, b + h - 1>>
                                    /\ b = Before(attr, attr[r]) /\ h = Having(attr, attr[r])
    BY <1>1, <1>5
  <2>3. p \in b .. b + h - 1
    BY <1>4, <1>7, <2>2
  <2>4. p \in table[i].positions[1] .. table[i].positions[2]
    BY <2>2, <2>3
  <2>5. QED
    BY <1>2, <2>1, <2>4
<1>9. n - 1 \in Nat
  BY <1>4
<1>10. PICK a \in covered, b \in covered :
         /\ a <= p /\ p <= b /\ a .. b \subseteq covered
         /\ a - 1 \notin covered /\ b + 1 \notin covered
  BY <1>6, <1>8, <1>9, MaximalRun
<1>11. a \in 0 .. n - 1 /\ b \in 0 .. n - 1 /\ p \in 0 .. n - 1
  BY <1>6, <1>8, <1>10
<1>12. PICK q : q = <<a, b>>
  OBVIOUS
<1>13. q \in MergedRanges(attr, ids, first, last)
  <2>1. q \in covered \X covered /\ q[1] = a /\ q[2] = b
    BY <1>10, <1>12
  <2>2. a <= b
    BY <1>10, <1>11
  <2>3. MergedRanges(attr, ids, first, last) =
          {x \in covered \X covered : /\ x[1] .. x[2] \subseteq covered /\ x[1] <= x[2]
                                      /\ x[1] - 1 \notin covered /\ x[2] + 1 \notin covered}
    BY <1>1, <1>2 DEF MergedRanges
  <2>4. QED
    BY <1>10, <2>1, <2>2, <2>3
<1>14. PICK full : full = PosRange(attr)
  OBVIOUS
<1>15. full \in Nat \X Nat /\ full[1] = 0 /\ n - 1 <= full[2]
  BY <1>3, <1>14, AttrRangeFacts
<1>16. Encloses(full, q) /\ q \in Int \X Int /\ q[1] <= p /\ p <= q[2]
  <2>1. q[1] = a /\ q[2] = b /\ q \in Int \X Int
    BY <1>11, <1>12
  <2>2. 0 <= a /\ b <= full[2]
    BY <1>4, <1>11, <1>15
  <2>3. QED
    BY <1>10, <1>11, <1>15, <2>1, <2>2 DEF Encloses
<1>17. SingleRangeCover(full, q) \in DescendTree(p, full)
  BY <1>11, <1>15, <1>16, CoverIsOnPath
<1>18. PICK l : l = <<"i2", SingleRangeCover(full, q)>>
  OBVIOUS
<1>19. l \in DOMAIN I1Postings(attr) /\ r \in Range(I1Postings(attr)[l])
  BY <1>7, <1>14, <1>17, <1>18, I1Filed
<1>20. l \in I2QueryLabels(attr, MergedRanges(attr, ids, first, last))
  BY <1>13, <1>14, <1>18 DEF I2QueryLabels
<1>21. \A k \in DOMAIN I1Postings(attr) : I1Postings(attr)[k] \in Seq(Int)
  BY I1Filed
<1>22. QED
  BY <1>19, <1>20, <1>21, SearchIsExact

-----------------------------------------------------------------------------
(* The state of EncryptedSpatialDB: the multimap of the server is that of  *)
(* the records it was built from, with the values they still have; a round *)
(* that is under way has the ids of its first half, and there is no answer *)
(* meanwhile.                                                              *)

SpatialTypeOK ==
  /\ scheme \in {"tdag", "qdag", "i1"} /\ range \in [Axis -> Nat]
  /\ DOMAIN values \subseteq Record /\ indexed \subseteq DOMAIN values
  /\ \A r \in DOMAIN values : values[r] \in Points

FiledAs(recs) ==
  [l \in UNION {LabelsOf(r) : r \in recs} |-> Ascending({r \in recs : l \in LabelsOf(r)})]

GridServed == scheme # "i1" => tset = BuildEMM(FiledAs(indexed))
I1Served == scheme = "i1" /\ indexed = DOMAIN values => tset = BuildEMM(I1Postings(values))

RoundOf(side) ==
  [kind |-> "i1", box |-> <<side[1], side[2]>>,
   ids |-> Search(tset, I1QueryLabels(values, side[1], side[2]))]
RoundStands ==
  round # NoQuery =>
    /\ scheme = "i1" /\ indexed = DOMAIN values /\ answer = NoQuery
    /\ \E side \in Sides(MaxAttr) : round = RoundOf(side)

SpatialInv ==
  /\ SpatialTypeOK /\ GridServed /\ I1Served /\ RoundStands
  /\ QueryMissesNothing /\ CoverIsSmallest

LEMMA PointFacts ==
  ASSUME SpatialTypeOK
  PROVE  /\ MaxRange \in Nat
         /\ \A v \in Points : IF scheme = "i1" THEN v \in Nat
                              ELSE v \in [Axis -> Nat] /\ \A a \in Axis : v[a] <= range[a]
         /\ \A box \in Boxes : \A a \in Axis : /\ box[a] \in Int \X Int /\ box[a][1] <= box[a][2]
         /\ \A side \in Sides(MaxAttr) : side \in Int \X Int
<1>1. PICK S : S = {range[a] : a \in Axis}
  OBVIOUS
<1>2. IsFiniteSet(S) /\ S # {} /\ S \subseteq Nat
  <2>1. IsFiniteSet(Axis) /\ Axis # {}
    BY SpatialAssumption
  <2>2. IsFiniteSet({range[a] : a \in Axis})
    BY <2>1, FiniteImage
  <2>3. QED
    BY <1>1, <2>1, <2>2 DEF SpatialTypeOK
<1>3. \E m \in S : \A x \in S : x <= m
  BY <1>2, FiniteHasGreatest
<1>4. \E m \in {range[a] : a \in Axis} : \A a \in Axis : range[a] <= m
  BY <1>1, <1>3
<1>5. MaxRange \in {range[a] : a \in Axis}
  BY <1>4 DEF MaxRange
<1>6. MaxRange \in Nat
  BY <1>1, <1>2, <1>5
<1>7. MaxAttr \in Nat
  BY SpatialAssumption
<1>8. \A v \in Points : IF scheme = "i1" THEN v \in Nat
                        ELSE v \in [Axis -> Nat] /\ \A a \in Axis : v[a] <= range[a]
  <2>1. 0 .. MaxAttr \subseteq Nat /\ 0 .. MaxRange \subseteq Nat
    BY <1>6, <1>7
  <2>2. QED
    BY <2>1 DEF Points
<1>9. ASSUME NEW n \in Nat, NEW side \in Sides(n)
      PROVE  side \in Int \X Int /\ side[1] <= side[2]
  BY DEF Sides
<1>10. \A box \in Boxes : \A a \in Axis : /\ box[a] \in Int \X Int /\ box[a][1] <= box[a][2]
  <2>1. \A box \in Boxes : \A a \in Axis : box[a] \in Sides(MaxRange)
    BY DEF Boxes
  <2>2. QED
    BY <1>6, <1>9, <2>1
<1>11. QED
  BY <1>6, <1>7, <1>8, <1>9, <1>10

(* What the server answers to a label. *)
LEMMA GridSearch ==
  ASSUME SpatialTypeOK, GridServed, scheme # "i1", NEW l
  PROVE  \A r : r \in Search(tset, {l}) <=> r \in indexed /\ l \in LabelsOf(r)
<1>1. PICK p : p = FiledAs(indexed)
  OBVIOUS
<1>2. indexed \subseteq Nat /\ IsFiniteSet(indexed)
  BY SpatialAssumption, FS_Subset DEF SpatialTypeOK
<1>3. DOMAIN p = UNION {LabelsOf(r) : r \in indexed}
  BY <1>1 DEF FiledAs
<1>4. ASSUME NEW k \in DOMAIN p
      PROVE  p[k] \in Seq(Nat) /\ Range(p[k]) = {r \in indexed : k \in LabelsOf(r)}
  <2>1. PICK U : U = {r \in indexed : k \in LabelsOf(r)}
    OBVIOUS
  <2>2. U \in SUBSET indexed
    BY <2>1
  <2>3. IsFiniteSet(U)
    BY <1>2, <2>2, FS_Subset
  <2>4. U \subseteq Nat /\ U \subseteq Int
    BY <1>2, <2>2
  <2>5. Ascending(U) \in Seq(U) /\ Range(Ascending(U)) = U
    BY <2>3, <2>4, AscendingIsSeq
  <2>6. Ascending(U) \in Seq(Nat)
    BY <2>5, <2>4, SeqOfLarger
  <2>7. p[k] = Ascending(U)
    BY <1>1, <1>3, <2>1 DEF FiledAs
  <2>8. QED
    BY <2>1, <2>5, <2>6, <2>7
<1>5. tset = BuildEMM(p)
  BY <1>1 DEF GridServed
<1>6. ASSUME NEW r
      PROVE  r \in Search(BuildEMM(p), {l}) <=> l \in DOMAIN p /\ r \in Range(p[l])
  <2>1. \A k \in DOMAIN p : p[k] \in Seq(Nat)
    BY <1>4
  <2>2. r \in Search(BuildEMM(p), {l}) <=> \E k \in {l} : k \in DOMAIN p /\ r \in Range(p[k])
    BY <2>1, SearchIsExact
  <2>3. QED
    BY <2>2
<1>7. QED
  BY <1>3, <1>4, <1>5, <1>6

LEMMA RectFacts ==
  ASSUME SpatialTypeOK, NEW box \in Boxes, NEW a \in Axis
  PROVE  /\ GridRect(box)[a] = <<Cell(a, box[a][1]), EndCell(a, box[a][2])>>
         /\ GridRect(box)[a][1] \in 0 .. GridMax
         /\ GridRect(box)[a][2] \in GridRect(box)[a][1] .. GridSize
         /\ GridRect(box)[a] \in Int \X Int /\ GridRect(box)[a][1] <= GridRect(box)[a][2]
<1>1. PICK lo, hi : lo = box[a][1] /\ hi = box[a][2]
  OBVIOUS
<1>2. lo \in Int /\ hi \in Int /\ lo <= hi
  BY <1>1, PointFacts
<1>3. range[a] \in Nat
  BY DEF SpatialTypeOK
<1>4. Cell(a, lo) \in 0 .. GridMax /\ EndCell(a, hi) \in 0 .. GridSize /\ Cell(a, lo) <= EndCell(a, hi)
  BY <1>2, <1>3, CellFacts, CellsAreOrdered
<1>5. GridRect(box)[a] = <<Cell(a, lo), EndCell(a, hi)>>
  BY <1>1 DEF GridRect
<1>6. PICK c, e : c = Cell(a, lo) /\ e = EndCell(a, hi)
  OBVIOUS
<1>7. GridMax \in Nat /\ GridSize = GridMax + 1
  BY GridFacts
<1>8. c \in 0 .. GridMax /\ e \in c .. GridSize /\ c <= e /\ c \in Int /\ e \in Int
  BY <1>4, <1>6, <1>7
<1>9. GridRect(box)[a] = <<c, e>>
  BY <1>5, <1>6
<1>10. QED
  BY <1>1, <1>5, <1>8, <1>9

LEMMA PointInGrid ==
  ASSUME SpatialTypeOK, scheme # "i1", NEW r \in DOMAIN values
  PROVE  /\ \A a \in Axis : values[r][a] \in Nat /\ values[r][a] <= range[a] /\ range[a] \in Nat
         /\ GridPoint(r) \in [Axis -> Int]
         /\ \A a \in Axis : GridPoint(r)[a] = Cell(a, values[r][a]) /\ GridPoint(r)[a] \in 0 .. GridMax
<1>1. values[r] \in Points
  BY DEF SpatialTypeOK
<1>2. \A a \in Axis : values[r][a] \in Nat /\ values[r][a] <= range[a] /\ range[a] \in Nat
  BY <1>1, PointFacts DEF SpatialTypeOK
<1>3. \A a \in Axis : GridPoint(r)[a] = Cell(a, values[r][a])
  BY DEF GridPoint
<1>4. \A a \in Axis : GridPoint(r)[a] \in 0 .. GridMax
  BY <1>2, <1>3, CellFacts
<1>5. GridPoint(r) \in [Axis -> Int]
  <2>1. GridPoint(r) = [a \in Axis |-> GridPoint(r)[a]]
    BY DEF GridPoint
  <2>2. \A a \in Axis : GridPoint(r)[a] \in Int
    BY <1>4, GridFacts
  <2>3. QED
    BY <2>1, <2>2
<1>6. QED
  BY <1>2, <1>3, <1>4, <1>5

(* A point in the box is in a cell of its rectangle. *)
LEMMA PointInRect ==
  ASSUME SpatialTypeOK, scheme # "i1", NEW box \in Boxes, NEW r \in DOMAIN values, NEW a \in Axis,
         Within(box[a], values[r][a])
  PROVE  /\ GridRect(box)[a][1] <= GridPoint(r)[a] /\ GridPoint(r)[a] <= GridRect(box)[a][2]
         /\ GridPoint(r)[a] = GridRect(box)[a][2] => OnFace(a, values[r][a], box[a][2]) \/ GridMax = 0
<1>1. PICK lo, hi, v : lo = box[a][1] /\ hi = box[a][2] /\ v = values[r][a]
  OBVIOUS
<1>2. lo \in Int /\ hi \in Int /\ lo <= v /\ v <= hi
  BY <1>1, PointFacts DEF Within
<1>3. v \in Nat /\ v <= range[a] /\ range[a] \in Nat
  BY <1>1, PointInGrid
<1>4. GridPoint(r)[a] = Cell(a, v) /\ GridRect(box)[a] = <<Cell(a, lo), EndCell(a, hi)>>
  BY <1>1, PointInGrid, RectFacts
<1>5. Cell(a, lo) <= Cell(a, v) /\ Cell(a, v) <= EndCell(a, hi)
  BY <1>2, <1>3, CellsAreOrdered
<1>6. Cell(a, v) = EndCell(a, hi) => OnFace(a, v, hi) \/ GridMax = 0
  BY <1>2, <1>3, EndIsBeyond
<1>7. QED
  BY <1>1, <1>4, <1>5, <1>6

(* The three answers of a range query. *)
LEMMA QueryThrows ==
  ASSUME SpatialTypeOK, NEW box \in Boxes, Throws(GridRect(box))
  PROVE  \E a \in Axis : range[a] = 0 \/ box[a][2] > range[a]
<1>1. PICK a \in Axis : ~Encloses(AxisFull, GridRect(box)[a])
  BY DEF Throws, CoverExists
<1>2. PICK hi, n : hi = box[a][2] /\ n = range[a]
  OBVIOUS
<1>3. hi \in Int /\ n \in Nat
  BY <1>2, PointFacts DEF SpatialTypeOK
<1>4. AxisFull = <<0, GridMax>> /\ GridMax \in Nat /\ GridSize = GridMax + 1
  BY GridFacts
<1>5. GridRect(box)[a][1] \in 0 .. GridMax /\ GridRect(box)[a][2] = EndCell(a, hi)
  BY <1>2, RectFacts
<1>6. ~(EndCell(a, hi) <= GridMax)
  BY <1>1, <1>4, <1>5 DEF Encloses
<1>7. n # 0 => ~(hi <= n)
  BY <1>2, <1>3, <1>6, EndIsCell
<1>8. n = 0 \/ hi > n
  BY <1>3, <1>7
<1>9. QED
  BY <1>2, <1>8

LEMMA TdagAnswers ==
  ASSUME SpatialTypeOK, GridServed, scheme = "tdag", NEW box \in Boxes, ~Throws(GridRect(box)),
         NEW ids, ids = Search(tset, {QueryLabel(GridRect(box))})
  PROVE  LET rect == GridRect(box)
             label == QueryLabel(rect)
         IN /\ \A r \in indexed : (\A a \in Axis : Within(box[a], values[r][a])) => r \in ids
            /\ \A a \in Axis : \A b \in TreeRanges(AxisFull) :
                 Encloses(b, rect[a]) => label[a][2] - label[a][1] <= b[2] - b[1]
            /\ ids = {r \in indexed : \A a \in Axis : Within(label[a], GridPoint(r)[a])}
<1>1. PICK rect, label : rect = GridRect(box) /\ label = QueryLabel(rect)
  OBVIOUS
<1>2. label = [a \in Axis |-> SingleRangeCover(AxisFull, rect[a])]
  BY <1>1 DEF QueryLabel
<1>3. GridBits \in Nat
  BY SpatialAssumption
<1>4. /\ AxisFull = Block(0, GridBits) /\ AxisFull = <<0, GridMax>> /\ GridMax \in Nat
      /\ GridMax = 0 + Pow2[GridBits] - 1 /\ AxisFull \in Nat \X Nat
  <2>1. /\ AxisFull = Block(0, GridBits) /\ AxisFull = <<0, GridMax>> /\ GridMax \in Nat
    BY GridFacts
  <2>2. Pow2[GridBits] \in Nat
    BY <1>3, Pow2Facts
  <2>3. QED
    BY <2>1, <2>2 DEF Block
<1>5. ASSUME NEW a \in Axis
      PROVE  /\ rect[a] \in Int \X Int /\ rect[a][1] <= rect[a][2] /\ Encloses(AxisFull, rect[a])
             /\ label[a] = SingleRangeCover(AxisFull, rect[a])
             /\ label[a] \in TreeRanges(AxisFull)
             /\ \A b \in TreeRanges(AxisFull) :
                  Encloses(b, rect[a]) => label[a][2] - label[a][1] <= b[2] - b[1]
  <2>1. rect[a] \in Int \X Int /\ rect[a][1] <= rect[a][2]
    BY <1>1, RectFacts
  <2>2. Encloses(AxisFull, rect[a])
    BY <1>1 DEF Throws, CoverExists
  <2>3. Encloses(Block(0, GridBits), rect[a])
    BY <1>4, <2>2
  <2>4. /\ SingleRangeCover(Block(0, GridBits), rect[a]) \in TreeRanges(Block(0, GridBits))
        /\ \A b \in TreeRanges(Block(0, GridBits)) :
             Encloses(b, rect[a]) => Width2(SingleRangeCover(Block(0, GridBits), rect[a])) <= Width2(b)
    BY <1>3, <2>1, <2>3, CoverIsLeast
  <2>5. label[a] = SingleRangeCover(AxisFull, rect[a])
    BY <1>2
  <2>6. QED
    BY <1>4, <2>1, <2>2, <2>4, <2>5 DEF Width2
<1>6. ASSUME NEW r \in indexed
      PROVE  label \in LabelsOf(r) <=> \A a \in Axis : Within(label[a], GridPoint(r)[a])
  <2>1. PICK paths : paths = [a \in Axis |-> DescendTree(GridPoint(r)[a], AxisFull)]
    OBVIOUS
  <2>2. LabelsOf(r) = {l \in [Axis -> UNION {paths[a] : a \in Axis}] : \A a \in Axis : l[a] \in paths[a]}
    BY <2>1 DEF LabelsOf
  <2>3. label \in LabelsOf(r) <=> \A a \in Axis : label[a] \in paths[a]
    <3>1. ASSUME \A a \in Axis : label[a] \in paths[a]
          PROVE  label \in [Axis -> UNION {paths[a] : a \in Axis}]
      BY <1>2, <3>1
    <3>2. QED
      BY <2>2, <3>1
  <2>4. ASSUME NEW a \in Axis
        PROVE  label[a] \in paths[a] <=> Within(label[a], GridPoint(r)[a])
    <3>1. PICK g : g = GridPoint(r)[a]
      OBVIOUS
    <3>2. r \in DOMAIN values
      BY DEF SpatialTypeOK
    <3>3. g \in 0 .. GridMax
      BY <3>1, <3>2, PointInGrid
    <3>4. g \in Int /\ 0 <= g /\ g <= 0 + Pow2[GridBits] - 1
      BY <1>4, <3>3
    <3>5. label[a] \in DescendTree(g, Block(0, GridBits)) <=>
            label[a] \in TreeRanges(Block(0, GridBits)) /\ label[a][1] <= g /\ g <= label[a][2]
      BY <1>3, <3>4, PathIsExact
    <3>6. QED
      BY <1>4, <1>5, <2>1, <3>1, <3>5 DEF Within
  <2>5. QED
    BY <2>3, <2>4
<1>7. \A r : r \in ids <=> r \in indexed /\ label \in LabelsOf(r)
  BY <1>1, GridSearch
<1>8. ids = {r \in indexed : \A a \in Axis : Within(label[a], GridPoint(r)[a])}
  BY <1>6, <1>7
<1>9. ASSUME NEW r \in indexed, \A a \in Axis : Within(box[a], values[r][a])
      PROVE  r \in ids
  <2>1. r \in DOMAIN values
    BY DEF SpatialTypeOK
  <2>2. ASSUME NEW a \in Axis PROVE Within(label[a], GridPoint(r)[a])
    <3>1. PICK g : g = GridPoint(r)[a]
      OBVIOUS
    <3>2. g \in 0 .. GridMax
      BY <2>1, <3>1, PointInGrid
    <3>3. rect[a][1] <= g /\ g <= rect[a][2]
      BY <1>1, <1>9, <2>1, <3>1, PointInRect
    <3>4. label[a] \in DescendTree(g, AxisFull)
      BY <1>4, <1>5, <3>2, <3>3, CoverIsOnPath
    <3>5. g \in Int /\ 0 <= g /\ g <= 0 + Pow2[GridBits] - 1
      BY <1>4, <3>2
    <3>6. label[a][1] <= g /\ g <= label[a][2]
      BY <1>3, <1>4, <3>4, <3>5, PathIsExact
    <3>7. QED
      BY <3>1, <3>6 DEF Within
  <2>3. QED
    BY <1>8, <2>2
<1>10. QED
  BY <1>1, <1>5, <1>8, <1>9

LEMMA QdagAnswers ==
  ASSUME SpatialTypeOK, GridServed, scheme = "qdag", NEW box \in Boxes,
         NEW ids, ids = Search(tset, {QueryLabel(GridRect(box))}),
         NEW r \in indexed, \A a \in Axis : Within(box[a], values[r][a])
  PROVE  r \in ids \/ \E a \in Axis : OnFace(a, values[r][a], box[a][2])
<1>1. SUFFICES ASSUME ~\E a \in Axis : OnFace(a, values[r][a], box[a][2]) PROVE r \in ids
  OBVIOUS
<1>2. PICK rect, c : rect = GridRect(box) /\ c = SingleCubeCover(rect)
  OBVIOUS
<1>3. r \in DOMAIN values
  BY DEF SpatialTypeOK
<1>4. \A a \in Axis : rect[a][1] \in 0 .. GridMax /\ rect[a][2] \in rect[a][1] .. GridSize
  BY <1>2, RectFacts
<1>5. /\ c \in Cube /\ \E k \in 0 .. GridBits : c.width = Pow2[GridBits - k]
      /\ Aligned(c) /\ Holds(c, Adjusted(rect))
  BY <1>2, <1>4, CubeCoverFacts
<1>6. CubeHasPoint(c, GridPoint(r))
  <2>1. ASSUME NEW a \in Axis
        PROVE  c.start[a] <= GridPoint(r)[a] /\ GridPoint(r)[a] < c.start[a] + c.width
    <3>1. PICK g, lo, end, hi : /\ g = GridPoint(r)[a] /\ lo = rect[a][1] /\ end = rect[a][2]
                                /\ hi = Adjusted(rect)[a][2]
      OBVIOUS
    <3>2. g \in 0 .. GridMax /\ lo \in 0 .. GridMax /\ GridMax \in Nat
      BY <1>3, <1>4, <3>1, PointInGrid, GridFacts
    <3>3. lo <= g /\ g <= end /\ (g = end => GridMax = 0)
      BY <1>1, <1>2, <1>3, <3>1, PointInRect
    <3>4. hi \in Nat /\ lo < hi /\ end <= hi /\ Adjusted(rect)[a][1] = lo
      BY <1>4, <3>1, AdjustedFacts
    <3>5. end \in Int
      BY <1>4, <3>1, GridFacts
    <3>6. g < hi
      <4>1. CASE g = end
        BY <3>2, <3>3, <3>4, <4>1
      <4>2. CASE g # end
        BY <3>2, <3>3, <3>4, <3>5, <4>2
      <4>3. QED
        BY <4>1, <4>2
    <3>7. c.start[a] <= lo /\ hi <= c.start[a] + c.width
      BY <1>5, <3>1, <3>4 DEF Holds
    <3>8. c.start[a] \in Int /\ c.width \in Int
      BY <1>5 DEF Cube
    <3>9. QED
      BY <3>1, <3>2, <3>3, <3>4, <3>6, <3>7, <3>8
  <2>2. QED
    BY <2>1 DEF CubeHasPoint
<1>7. GridPoint(r) \in [Axis -> Int]
  BY <1>3, PointInGrid
<1>8. c \in ContainingCubes(GridPoint(r))
  BY <1>5, <1>6, <1>7, AlignedIsFound
<1>9. c \in LabelsOf(r)
  BY <1>8 DEF LabelsOf
<1>10. QueryLabel(rect) = c
  BY <1>2 DEF QueryLabel
<1>11. QED
  BY <1>2, <1>9, <1>10, GridSearch

LEMMA EmptyEMM ==
  ASSUME NEW p, DOMAIN p = {}
  PROVE  BuildEMM(p) = <<>>
<1>1. UNION {{<<l, i>> : i \in 0 .. Len(p[l]) - 1} : l \in DOMAIN p} = {}
  OBVIOUS
<1>2. BuildEMM(p) = [key \in {} |-> p[key[1]][key[2] + 1]]
  BY <1>1 DEF BuildEMM
<1>3. QED
  BY <1>2

LEMMA LabelsStay ==
  ASSUME scheme' = scheme, range' = range, NEW r, values'[r] = values[r]
  PROVE  LabelsOf(r)' = LabelsOf(r)
<1>1. GridPoint(r)' = GridPoint(r)
  BY DEF GridPoint, Cell
<1>2. QED
  BY <1>1 DEF LabelsOf

LEMMA FilesStay ==
  ASSUME scheme' = scheme, range' = range, indexed' = indexed,
         \A r \in indexed : values'[r] = values[r]
  PROVE  FiledAs(indexed)' = FiledAs(indexed)
<1>1. \A r \in indexed : LabelsOf(r)' = LabelsOf(r)
  BY LabelsStay
<1>2. {LabelsOf(r)' : r \in indexed} = {LabelsOf(r) : r \in indexed}
  BY <1>1
<1>3. \A l : {r \in indexed : l \in LabelsOf(r)'} = {r \in indexed : l \in LabelsOf(r)}
  BY <1>1
<1>4. QED
  BY <1>2, <1>3 DEF FiledAs

LEMMA PointsStay ==
  ASSUME scheme' = scheme, range' = range
  PROVE  Points' = Points /\ Boxes' = Boxes
BY DEF Points, Boxes, MaxRange

LEMMA NothingAsked ==
  ASSUME answer' = NoQuery
  PROVE  QueryMissesNothing' /\ CoverIsSmallest'
<1>1. answer'.kind = "none"
  BY DEF NoQuery
<1>2. QED
  BY <1>1 DEF QueryMissesNothing, CoverIsSmallest

LEMMA SpatialInit ==
  ASSUME Init
  PROVE  SpatialInv
<1>1. DOMAIN values = {} /\ indexed = {} /\ tset = <<>> /\ round = NoQuery /\ answer = NoQuery
  BY DEF Init
<1>2. SpatialTypeOK
  BY <1>1, SpatialAssumption DEF Init, SpatialTypeOK
<1>3. GridServed
  <2>1. DOMAIN FiledAs(indexed) = {}
    BY <1>1 DEF FiledAs
  <2>2. QED
    BY <1>1, <2>1, EmptyEMM DEF GridServed
<1>4. I1Served
  <2>1. I1Postings(values) = <<>>
    BY <1>1 DEF I1Postings
  <2>2. DOMAIN I1Postings(values) = {}
    BY <2>1
  <2>3. QED
    BY <1>1, <2>2, EmptyEMM DEF I1Served
<1>5. answer.kind = "none"
  BY <1>1 DEF NoQuery
<1>6. QED
  BY <1>1, <1>2, <1>3, <1>4, <1>5 DEF SpatialInv, RoundStands, QueryMissesNothing, CoverIsSmallest

LEMMA LoadStep ==
  ASSUME SpatialInv, Idle, NEW r \in Record, NEW v \in Points, Load(r, v)
  PROVE  SpatialInv'
<1>1. /\ r \notin DOMAIN values /\ values' = [s \in DOMAIN values \cup {r} |-> IF s = r THEN v ELSE values[s]]
      /\ scheme' = scheme /\ range' = range /\ indexed' = indexed /\ tset' = tset
      /\ round' = NoQuery /\ answer' = NoQuery
  BY DEF Load, Idle
<1>2. SpatialTypeOK
  BY DEF SpatialInv
<1>3. Points' = Points
  BY <1>1, PointsStay
<1>4. SpatialTypeOK'
  BY <1>1, <1>2, <1>3 DEF SpatialTypeOK
<1>5. GridServed'
  <2>1. \A s \in indexed : values'[s] = values[s]
    BY <1>1, <1>2 DEF SpatialTypeOK
  <2>2. FiledAs(indexed)' = FiledAs(indexed)
    BY <1>1, <2>1, FilesStay
  <2>3. QED
    BY <1>1, <2>2 DEF SpatialInv, GridServed
<1>6. I1Served'
  <2>1. indexed' # DOMAIN values'
    BY <1>1, <1>2 DEF SpatialTypeOK
  <2>2. QED
    BY <2>1 DEF I1Served
<1>7. RoundStands'
  BY <1>1 DEF RoundStands
<1>8. QED
  BY <1>1, <1>4, <1>5, <1>6, <1>7, NothingAsked DEF SpatialInv

LEMMA BuildStep ==
  ASSUME SpatialInv, Build
  PROVE  SpatialInv'
<1>1. /\ tset' = BuildEMM(IF scheme = "i1" THEN I1Postings(values) ELSE Postings)
      /\ indexed' = DOMAIN values
      /\ scheme' = scheme /\ range' = range /\ values' = values
      /\ round' = NoQuery /\ answer' = NoQuery
  BY DEF Build, Idle
<1>2. SpatialTypeOK
  BY DEF SpatialInv
<1>3. Points' = Points
  BY <1>1, PointsStay
<1>4. SpatialTypeOK'
  BY <1>1, <1>2, <1>3 DEF SpatialTypeOK
<1>5. GridServed'
  <2>1. FiledAs(indexed)' = Postings
    <3>1. \A r \in DOMAIN values : LabelsOf(r)' = LabelsOf(r)
      BY <1>1, LabelsStay
    <3>2. {LabelsOf(r)' : r \in DOMAIN values} = {LabelsOf(r) : r \in DOMAIN values}
      BY <3>1
    <3>3. \A l : {r \in DOMAIN values : l \in LabelsOf(r)'} = {r \in DOMAIN values : l \in LabelsOf(r)}
      BY <3>1
    <3>4. QED
      BY <1>1, <3>2, <3>3 DEF FiledAs, Postings
  <2>2. QED
    BY <1>1, <2>1 DEF GridServed
<1>6. I1Served'
  BY <1>1 DEF I1Served
<1>7. RoundStands'
  BY <1>1 DEF RoundStands
<1>8. QED
  BY <1>1, <1>4, <1>5, <1>6, <1>7, NothingAsked DEF SpatialInv

(* What a step that leaves the index alone leaves true. *)
LEMMA IndexStays ==
  ASSUME SpatialInv, UNCHANGED <<scheme, range, values, indexed, tset>>
  PROVE  SpatialTypeOK' /\ GridServed' /\ I1Served'
<1>1. scheme' = scheme /\ range' = range /\ values' = values /\ indexed' = indexed /\ tset' = tset
  OBVIOUS
<1>2. Points' = Points
  BY <1>1, PointsStay
<1>3. SpatialTypeOK'
  BY <1>1, <1>2 DEF SpatialInv, SpatialTypeOK
<1>4. FiledAs(indexed)' = FiledAs(indexed)
  BY <1>1, FilesStay
<1>5. GridServed'
  BY <1>1, <1>4 DEF SpatialInv, GridServed
<1>6. I1Served'
  BY <1>1 DEF SpatialInv, I1Served
<1>7. QED
  BY <1>3, <1>5, <1>6

LEMMA RectsStay ==
  ASSUME scheme' = scheme, range' = range, values' = values
  PROVE  /\ \A r : GridPoint(r)' = GridPoint(r)
         /\ \A box : [a \in Axis |-> <<Cell(a, box[a][1])', EndCell(a, box[a][2])'>>] = GridRect(box)
<1>1. \A a, v : Cell(a, v)' = Cell(a, v)
  BY DEF Cell
<1>2. \A a, v : EndCell(a, v)' = EndCell(a, v)
  BY DEF EndCell
<1>3. \A r : GridPoint(r)' = GridPoint(r)
  BY <1>1 DEF GridPoint
<1>4. QED
  BY <1>1, <1>2, <1>3 DEF GridRect

LEMMA RangeQueryStep ==
  ASSUME SpatialInv, Idle, NEW box \in Boxes, RangeQuery(box)
  PROVE  SpatialInv'
<1>1. PICK rect, ids : rect = GridRect(box) /\ ids = Search(tset, {QueryLabel(rect)})
  OBVIOUS
<1>2. /\ scheme # "i1" /\ round' = NoQuery
      /\ answer' = IF Throws(rect) THEN [kind |-> "thrown", box |-> box]
                   ELSE [kind |-> "found", box |-> box, ids |-> ids]
      /\ scheme' = scheme /\ range' = range /\ values' = values
      /\ indexed' = indexed /\ tset' = tset
  BY <1>1 DEF RangeQuery, Idle
<1>3. SpatialTypeOK /\ GridServed
  BY DEF SpatialInv
<1>4. scheme = "tdag" \/ scheme = "qdag"
  BY <1>2, <1>3 DEF SpatialTypeOK
<1>5. SpatialTypeOK' /\ GridServed' /\ I1Served'
  BY <1>2, IndexStays
<1>6. RoundStands'
  BY <1>2 DEF RoundStands
<1>7. QueryMissesNothing' /\ CoverIsSmallest'
  <2>1. CASE Throws(rect)
    <3>1. answer'.kind = "thrown" /\ answer'.box = box
      BY <1>2, <2>1
    <3>2. \E a \in Axis : range[a] = 0 \/ box[a][2] > range[a]
      BY <1>1, <1>3, <2>1, QueryThrows
    <3>3. QED
      BY <1>2, <3>1, <3>2 DEF QueryMissesNothing, CoverIsSmallest
  <2>2. CASE ~Throws(rect)
    <3>1. answer'.kind = "found" /\ answer'.box = box /\ answer'.ids = ids
      BY <1>2, <2>2
    <3>2. Wanted' = {r \in indexed : \A a \in Axis : Within(box[a], values[r][a])}
      BY <1>2, <3>1 DEF Wanted
    <3>3. CASE scheme = "tdag"
      <4>1. PICK label : label = QueryLabel(rect)
        OBVIOUS
      <4>2. /\ \A r \in indexed : (\A a \in Axis : Within(box[a], values[r][a])) => r \in ids
            /\ \A a \in Axis : \A b \in TreeRanges(AxisFull) :
                 Encloses(b, rect[a]) => label[a][2] - label[a][1] <= b[2] - b[1]
            /\ ids = {r \in indexed : \A a \in Axis : Within(label[a], GridPoint(r)[a])}
        BY <1>1, <1>3, <2>2, <3>3, <4>1, TdagAnswers
      <4>3. QueryMissesNothing'
        BY <3>1, <3>2, <4>2 DEF QueryMissesNothing
      <4>4. GridRect(answer.box)' = rect
        BY <1>1, <1>2, <3>1, RectsStay DEF GridRect
      <4>5. QueryLabel(GridRect(answer.box))' = label
        BY <1>2, <4>1, <4>4 DEF QueryLabel
      <4>6. \A r : GridPoint(r)' = GridPoint(r)
        BY <1>2, RectsStay
      <4>7. CoverIsSmallest'
        BY <1>2, <3>1, <4>2, <4>4, <4>5, <4>6 DEF CoverIsSmallest
      <4>8. QED
        BY <4>3, <4>7
    <3>4. CASE scheme = "qdag"
      <4>1. \A r \in Wanted' : r \in ids \/ \E a \in Axis : OnFace(a, values[r][a], box[a][2])
        BY <1>1, <1>3, <3>2, <3>4, QdagAnswers
      <4>2. \A r : OnUpperFace(r)' <=> \E a \in Axis : OnFace(a, values[r][a], box[a][2])
        BY <1>2, <3>1, <3>4 DEF OnUpperFace, OnFace
      <4>3. QueryMissesNothing'
        BY <3>1, <4>1, <4>2 DEF QueryMissesNothing
      <4>4. CoverIsSmallest'
        BY <1>2, <3>4 DEF CoverIsSmallest
      <4>5. QED
        BY <4>3, <4>4
    <3>5. QED
      BY <1>4, <3>3, <3>4
  <2>3. QED
    BY <2>1, <2>2
<1>8. QED
  BY <1>5, <1>6, <1>7 DEF SpatialInv

LEMMA FirstRoundStep ==
  ASSUME SpatialInv, Idle, NEW side \in Sides(MaxAttr), FirstRound(side[1], side[2])
  PROVE  SpatialInv'
<1>1. /\ scheme = "i1" /\ indexed = DOMAIN values
      /\ round' = RoundOf(side) /\ answer' = NoQuery
      /\ scheme' = scheme /\ range' = range /\ values' = values
      /\ indexed' = indexed /\ tset' = tset
  BY DEF FirstRound, RoundOf, Idle
<1>2. SpatialTypeOK' /\ GridServed' /\ I1Served'
  BY <1>1, IndexStays
<1>3. RoundOf(side)' = RoundOf(side)
  BY <1>1 DEF RoundOf
<1>4. RoundStands'
  BY <1>1, <1>3 DEF RoundStands
<1>5. QED
  BY <1>1, <1>2, <1>4, NothingAsked DEF SpatialInv

LEMMA SecondRoundStep ==
  ASSUME SpatialInv, SecondRound
  PROVE  SpatialInv'
<1>1. PICK side \in Sides(MaxAttr) : round = RoundOf(side)
  BY DEF SpatialInv, RoundStands, SecondRound
<1>2. scheme = "i1" /\ indexed = DOMAIN values /\ SpatialTypeOK /\ tset = BuildEMM(I1Postings(values))
  BY DEF SpatialInv, RoundStands, SecondRound, I1Served
<1>3. PICK first, last, ids, found :
        /\ first = side[1] /\ last = side[2] /\ ids = Search(tset, I1QueryLabels(values, first, last))
        /\ found = Search(tset, I2QueryLabels(values, MergedRanges(values, ids, first, last)))
  OBVIOUS
<1>4. round.ids = ids /\ round.box = <<first, last>> /\ round.box[1] = first /\ round.box[2] = last
  BY <1>1, <1>3 DEF RoundOf
<1>5. /\ answer' = [kind |-> "found", box |-> <<first, last>>, ids |-> found]
      /\ round' = NoQuery
      /\ scheme' = scheme /\ range' = range /\ values' = values
      /\ indexed' = indexed /\ tset' = tset
  BY <1>3, <1>4 DEF SecondRound
<1>6. SpatialTypeOK' /\ GridServed' /\ I1Served'
  BY <1>5, IndexStays
<1>7. RoundStands'
  BY <1>5 DEF RoundStands
<1>8. answer'.kind = "found" /\ answer'.box = <<first, last>> /\ answer'.ids = found
  BY <1>5
<1>9. CoverIsSmallest'
  BY <1>2, <1>5 DEF CoverIsSmallest
<1>10. first \in Int /\ last \in Int
  BY <1>2, <1>3, PointFacts
<1>11. ASSUME NEW r \in DOMAIN values, first <= values[r], values[r] <= last
       PROVE  r \in found
  <2>1. IsAttr(values)
    <3>1. DOMAIN values \in SUBSET Record /\ Record \in SUBSET Nat /\ IsFiniteSet(Record)
      BY <1>2, SpatialAssumption DEF SpatialTypeOK
    <3>2. IsFiniteSet(DOMAIN values)
      BY <3>1, FS_Subset
    <3>3. \A s \in DOMAIN values : values[s] \in Nat
      BY <1>2, PointFacts DEF SpatialTypeOK
    <3>4. QED
      BY <3>1, <3>2, <3>3 DEF IsAttr
  <2>2. PICK i \in DOMAIN RangeTable(values) : RangeTable(values)[i].attr = values[r]
    BY <2>1, TableFacts
  <2>3. i \in ids
    BY <1>2, <1>3, <1>10, <1>11, <2>1, <2>2, FirstRoundFinds
  <2>4. QED
    BY <1>2, <1>3, <1>10, <1>11, <2>1, <2>2, <2>3, SecondRoundFinds
<1>12. QueryMissesNothing'
  <2>1. \A r \in Wanted' : r \in DOMAIN values /\ first <= values[r] /\ values[r] <= last
    BY <1>2, <1>5, <1>8 DEF Wanted, Within
  <2>2. \A r \in Wanted' : r \in found
    BY <1>11, <2>1
  <2>3. QED
    BY <1>8, <2>2 DEF QueryMissesNothing
<1>13. QED
  BY <1>6, <1>7, <1>9, <1>12 DEF SpatialInv

LEMMA TakeAnswerStep ==
  ASSUME SpatialInv, TakeAnswer
  PROVE  SpatialInv'
<1>1. /\ answer # NoQuery /\ answer' = NoQuery /\ round' = round
      /\ scheme' = scheme /\ range' = range /\ values' = values
      /\ indexed' = indexed /\ tset' = tset
  BY DEF TakeAnswer
<1>2. round' = NoQuery
  BY <1>1 DEF SpatialInv, RoundStands
<1>3. SpatialTypeOK' /\ GridServed' /\ I1Served'
  BY <1>1, IndexStays
<1>4. RoundStands'
  BY <1>2 DEF RoundStands
<1>5. QED
  BY <1>1, <1>3, <1>4, NothingAsked DEF SpatialInv

LEMMA SpatialStutter ==
  ASSUME SpatialInv, UNCHANGED vars
  PROVE  SpatialInv'
<1>1. /\ answer' = answer /\ round' = round
      /\ scheme' = scheme /\ range' = range /\ values' = values
      /\ indexed' = indexed /\ tset' = tset
  BY DEF vars
<1>2. SpatialTypeOK' /\ GridServed' /\ I1Served'
  BY <1>1, IndexStays
<1>3. \A side : RoundOf(side)' = RoundOf(side)
  BY <1>1 DEF RoundOf
<1>4. RoundStands'
  BY <1>1, <1>3 DEF SpatialInv, RoundStands
<1>5. QueryMissesNothing'
  <2>1. Wanted' = Wanted
    BY <1>1 DEF Wanted
  <2>2. \A r : OnUpperFace(r)' = OnUpperFace(r)
    BY <1>1 DEF OnUpperFace
  <2>3. QED
    BY <1>1, <2>1, <2>2 DEF SpatialInv, QueryMissesNothing
<1>6. CoverIsSmallest'
  <2>1. GridRect(answer.box)' = GridRect(answer.box)
    BY <1>1, RectsStay DEF GridRect
  <2>2. QueryLabel(GridRect(answer.box))' = QueryLabel(GridRect(answer.box))
    BY <1>1, <2>1 DEF QueryLabel
  <2>3. \A r : GridPoint(r)' = GridPoint(r)
    BY <1>1, RectsStay
  <2>4. QED
    BY <1>1, <2>1, <2>2, <2>3 DEF SpatialInv, CoverIsSmallest
<1>7. QED
  BY <1>2, <1>4, <1>5, <1>6 DEF SpatialInv

(* The invariant of EncryptedSpatialDB.                                    *)
THEOREM SpatialInvariant == Spec => []SpatialInv
<1>1. Init => SpatialInv
  BY SpatialInit
<1>2. SpatialInv /\ [Next]_vars => SpatialInv'
  <2>1. SUFFICES ASSUME SpatialInv, [Next]_vars PROVE SpatialInv'
    OBVIOUS
  <2>2. CASE Idle /\ \E r \in Record : \E v \in Points : Load(r, v)
    BY <2>1, <2>2, LoadStep
  <2>3. CASE Build
    BY <2>1, <2>3, BuildStep
  <2>4. CASE Idle /\ \E box \in Boxes : RangeQuery(box)
    BY <2>1, <2>4, RangeQueryStep
  <2>5. CASE Idle /\ \E side \in Sides(MaxAttr) : FirstRound(side[1], side[2])
    BY <2>1, <2>5, FirstRoundStep
  <2>6. CASE SecondRound
    BY <2>1, <2>6, SecondRoundStep
  <2>7. CASE TakeAnswer
    BY <2>1, <2>7, TakeAnswerStep
  <2>8. CASE UNCHANGED vars
    BY <2>1, <2>8, SpatialStutter
  <2>9. QED
    BY <2>1, <2>2, <2>3, <2>4, <2>5, <2>6, <2>7, <2>8 DEF Next
<1>3. QED
  BY <1>1, <1>2, PTL DEF Spec

(* No record in the box of a query is missing from its answer, whatever    *)
(* the size of the grid, the axes, the ranges and the records: for a grid  *)
(* of ranges on each axis, of cubes (but for the upper faces of the box),  *)
(* and for the two rounds; and a query fails only beyond the data.         *)
THEOREM SearchesMissNothing == Spec => []QueryMissesNothing
<1>1. SpatialInv => QueryMissesNothing
  BY DEF SpatialInv
<1>2. QED
  BY <1>1, SpatialInvariant, PTL

(* The range that is asked for on each axis is as small as any of its tree *)
(* around the query, and the answer is exactly the records in these ranges. *)
THEOREM SearchesAskForLeast == Spec => []CoverIsSmallest
<1>1. SpatialInv => CoverIsSmallest
  BY DEF SpatialInv
<1>2. QED
  BY <1>1, SpatialInvariant, PTL

-----------------------------------------------------------------------------
(* Sequences that are strung together                                      *)

Strung(V, n, s, F) ==
  /\ F \in [1 .. n -> Seq(V)] /\ FlattenSeq(s) = F[n] /\ F[1] = s[1]
  /\ \A i \in 2 .. n : F[i] = F[i - 1] \o s[i]

LEMMA FlattenUnfolds ==
  ASSUME NEW V, NEW n \in Nat, n # 0, NEW s \in [1 .. n -> Seq(V)]
  PROVE  \E F : Strung(V, n, s, F)
<1> DEFINE Step(f) == [i \in 1 .. n |-> IF i = 1 THEN s[i] ELSE f[i - 1] \o s[i]]
<1>1. PICK D, S, B, first, step, smaller :
        /\ D = 1 .. n /\ S = Seq(V) /\ B = {1}
        /\ first = [d \in D |-> s[d]]
        /\ step = [d \in D |-> [x \in S |-> x \o s[d]]]
        /\ smaller = [d \in D |-> d - 1]
  OBVIOUS
<1>2. Recursion(D, S, B, first, step, smaller)
  <2>1. D \in SUBSET (0 .. n)
    BY <1>1
  <2>2. first \in [D -> S]
    BY <1>1
  <2>3. step \in [D -> [S -> S]]
    <3>1. ASSUME NEW d \in D, NEW x \in S PROVE x \o s[d] \in S
      BY <1>1
    <3>2. QED
      BY <1>1, <3>1
  <2>4. \A d \in D \ B : smaller[d] \in D /\ smaller[d] < d
    BY <1>1
  <2>5. QED
    BY <2>1, <2>2, <2>3, <2>4 DEF Recursion
<1>3. PICK f \in [D -> S] :
        \A d \in D : f[d] = IF d \in B THEN first[d] ELSE step[d][f[smaller[d]]]
  BY <1>2, RecursionExists
<1>4. \A i \in 1 .. n : f[i] = IF i = 1 THEN s[i] ELSE f[i - 1] \o s[i]
  <2>1. ASSUME NEW i \in 1 .. n, i # 1 PROVE f[i] = f[i - 1] \o s[i]
    <3>1. i - 1 \in D /\ f[i - 1] \in S
      BY <1>1, <1>3, <2>1
    <3>2. f[i] = step[i][f[i - 1]]
      BY <1>1, <1>3, <2>1
    <3>3. QED
      BY <1>1, <3>1, <3>2
  <2>2. 1 \in 1 .. n
    OBVIOUS
  <2>3. 1 \in D /\ 1 \in B /\ first[1] = s[1]
    BY <1>1, <2>2
  <2>4. f[1] = s[1]
    BY <1>3, <2>3
  <2>5. QED
    BY <2>1, <2>2, <2>4
<1>5. f = Step(f)
  <2>1. f = [i \in 1 .. n |-> f[i]]
    BY <1>1, <1>3
  <2>2. QED
    BY <1>4, <2>1
<1>6. PICK F : F = CHOOSE g : g = Step(g)
  OBVIOUS
<1>7. F = Step(F)
  BY <1>5, <1>6
<1>8. Len(s) = n
  OBVIOUS
<1>9. FlattenSeq(s) = F[n]
  BY <1>6, <1>8 DEF FlattenSeq
<1>10. F[1] = s[1] /\ \A i \in 2 .. n : F[i] = F[i - 1] \o s[i]
  <2>1. \A i \in 1 .. n : F[i] = IF i = 1 THEN s[i] ELSE F[i - 1] \o s[i]
    BY <1>7
  <2>2. 1 \in 1 .. n /\ \A i \in 2 .. n : i \in 1 .. n /\ i # 1
    OBVIOUS
  <2>3. QED
    BY <2>1, <2>2
<1>11. F \in [1 .. n -> Seq(V)]
  <2> HIDE DEF Step
  <2>1. 1 .. n \subseteq {i \in 1 .. n : F[i] \in Seq(V)}
    <3> DEFINE Q == {i \in 1 .. n : F[i] \in Seq(V)}
    <3>1. ASSUME NEW i \in 1 .. n, \A e \in 1 .. n : e < i => e \in Q PROVE i \in Q
      <4>1. CASE i = 1
        BY <1>10, <4>1
      <4>2. CASE i # 1
        <5>1. i - 1 \in Q /\ i \in 2 .. n
          BY <3>1, <4>2
        <5>2. F[i] = F[i - 1] \o s[i]
          BY <1>10, <5>1
        <5>3. F[i - 1] \in Seq(V) /\ s[i] \in Seq(V)
          BY <5>1
        <5>4. F[i - 1] \o s[i] \in Seq(V)
          BY <5>3
        <5>5. QED
          BY <5>2, <5>4
      <4>3. QED
        BY <4>1, <4>2
    <3>2. 1 .. n \in SUBSET Nat
      OBVIOUS
    <3> HIDE DEF Q
    <3>3. 1 .. n \subseteq Q
      BY <3>1, <3>2, StrongInduction
    <3>4. QED
      BY <3>3 DEF Q
  <2>2. F = [i \in 1 .. n |-> F[i]]
    BY <1>7 DEF Step
  <2>3. QED
    BY <2>1, <2>2
<1>12. QED
  BY <1>9, <1>10, <1>11 DEF Strung

(* What is at the odd and at the even places of a sequence. *)
AtOdd(q, x) == \E m \in DOMAIN q : m % 2 = 1 /\ q[m] = x
AtEven(q, x) == \E m \in DOMAIN q : m % 2 = 0 /\ q[m] = x

LEMMA ConcatParity ==
  ASSUME NEW V, NEW p \in Seq(V), NEW q \in Seq(V), Len(p) % 2 = 0, NEW x
  PROVE  /\ AtOdd(p \o q, x) <=> AtOdd(p, x) \/ AtOdd(q, x)
         /\ AtEven(p \o q, x) <=> AtEven(p, x) \/ AtEven(q, x)
         /\ Len(p \o q) = Len(p) + Len(q)
<1>1. PICK k, l, c : k = Len(p) /\ l = Len(q) /\ c = p \o q
  OBVIOUS
<1>2. /\ k \in Nat /\ l \in Nat /\ k % 2 = 0
      /\ DOMAIN p = 1 .. k /\ DOMAIN q = 1 .. l /\ DOMAIN c = 1 .. k + l
  BY <1>1
<1>3. (\A m \in 1 .. k : c[m] = p[m]) /\ \A m \in 1 .. l : c[m + k] = q[m]
  BY <1>1, <1>2
<1>4. \A m \in 1 .. k + l : m \in 1 .. k \/ (m - k \in 1 .. l /\ (m - k) % 2 = m % 2 /\ (m - k) + k = m)
  BY <1>2
<1>5. (\A m \in 1 .. k : m \in 1 .. k + l) /\ \A m \in 1 .. l : m + k \in 1 .. k + l /\ (m + k) % 2 = m % 2
  BY <1>2
<1>6. AtOdd(c, x) <=> AtOdd(p, x) \/ AtOdd(q, x)
  <2>1. ASSUME NEW m \in 1 .. k + l, m % 2 = 1, c[m] = x PROVE AtOdd(p, x) \/ AtOdd(q, x)
    <3>1. CASE m \in 1 .. k
      BY <1>2, <1>3, <2>1, <3>1 DEF AtOdd
    <3>2. CASE m - k \in 1 .. l /\ (m - k) % 2 = m % 2 /\ (m - k) + k = m
      <4>1. q[m - k] = x /\ (m - k) % 2 = 1
        BY <1>3, <2>1, <3>2
      <4>2. QED
        BY <1>2, <3>2, <4>1 DEF AtOdd
    <3>3. QED
      BY <1>4, <3>1, <3>2
  <2>2. ASSUME NEW m \in 1 .. k, m % 2 = 1, p[m] = x PROVE AtOdd(c, x)
    BY <1>2, <1>3, <1>5, <2>2 DEF AtOdd
  <2>3. ASSUME NEW m \in 1 .. l, m % 2 = 1, q[m] = x PROVE AtOdd(c, x)
    BY <1>2, <1>3, <1>5, <2>3 DEF AtOdd
  <2>4. QED
    BY <1>2, <2>1, <2>2, <2>3 DEF AtOdd
<1>7. AtEven(c, x) <=> AtEven(p, x) \/ AtEven(q, x)
  <2>1. ASSUME NEW m \in 1 .. k + l, m % 2 = 0, c[m] = x PROVE AtEven(p, x) \/ AtEven(q, x)
    <3>1. CASE m \in 1 .. k
      BY <1>2, <1>3, <2>1, <3>1 DEF AtEven
    <3>2. CASE m - k \in 1 .. l /\ (m - k) % 2 = m % 2 /\ (m - k) + k = m
      <4>1. q[m - k] = x /\ (m - k) % 2 = 0
        BY <1>3, <2>1, <3>2
      <4>2. QED
        BY <1>2, <3>2, <4>1 DEF AtEven
    <3>3. QED
      BY <1>4, <3>1, <3>2
  <2>2. ASSUME NEW m \in 1 .. k, m % 2 = 0, p[m] = x PROVE AtEven(c, x)
    BY <1>2, <1>3, <1>5, <2>2 DEF AtEven
  <2>3. ASSUME NEW m \in 1 .. l, m % 2 = 0, q[m] = x PROVE AtEven(c, x)
    BY <1>2, <1>3, <1>5, <2>3 DEF AtEven
  <2>4. QED
    BY <1>2, <2>1, <2>2, <2>3 DEF AtEven
<1>8. QED
  BY <1>1, <1>6, <1>7

LEMMA EvenSum ==
  ASSUME NEW x \in Nat, NEW y \in Nat, x % 2 = 0, y % 2 = 0
  PROVE  (x + y) % 2 = 0
OBVIOUS

(* Pairs in turn remain pairs in turn. *)
LEMMA FlattenPairs ==
  ASSUME NEW V, NEW n \in Nat, NEW s \in [1 .. n -> Seq(V)], \A j \in 1 .. n : Len(s[j]) % 2 = 0
  PROVE  /\ FlattenSeq(s) \in Seq(V) /\ Len(FlattenSeq(s)) % 2 = 0
         /\ \A x : AtOdd(FlattenSeq(s), x) <=> \E j \in 1 .. n : AtOdd(s[j], x)
         /\ \A x : AtEven(FlattenSeq(s), x) <=> \E j \in 1 .. n : AtEven(s[j], x)
<1>1. CASE n = 0
  <2>1. s = <<>> /\ Len(s) = 0
    BY <1>1
  <2>2. FlattenSeq(s) = <<>>
    BY <2>1 DEF FlattenSeq
  <2>3. \A x : ~AtOdd(<<>>, x) /\ ~AtEven(<<>>, x)
    BY DEF AtOdd, AtEven
  <2>4. QED
    BY <1>1, <2>2, <2>3
<1>2. CASE n # 0
  <2>0. PICK F : Strung(V, n, s, F)
    BY <1>2, FlattenUnfolds
  <2>1. /\ F \in [1 .. n -> Seq(V)] /\ FlattenSeq(s) = F[n] /\ F[1] = s[1]
        /\ \A i \in 2 .. n : F[i] = F[i - 1] \o s[i]
    BY <2>0 DEF Strung
  <2> DEFINE Good(i) == /\ Len(F[i]) % 2 = 0
                        /\ \A x : AtOdd(F[i], x) <=> \E j \in 1 .. i : AtOdd(s[j], x)
                        /\ \A x : AtEven(F[i], x) <=> \E j \in 1 .. i : AtEven(s[j], x)
             Q == {i \in 1 .. n : Good(i)}
  <2>2. ASSUME NEW i \in 1 .. n, \A e \in 1 .. n : e < i => e \in Q PROVE i \in Q
    <3>1. CASE i = 1
      <4>1. F[i] = s[1] /\ 1 .. i = {1} /\ 1 \in 1 .. n
        BY <1>2, <2>1, <3>1
      <4>2. Good(i)
        BY <4>1
      <4>3. QED
        BY <4>2
    <3>2. CASE i # 1
      <4>1. PICK h : h = i - 1
        OBVIOUS
      <4>10. h \in 1 .. n /\ h < i /\ i \in 2 .. n
        BY <3>2, <4>1
      <4>11. 1 .. i = (1 .. h) \cup {i}
        BY <3>2, <4>1
      <4>2. h \in Q /\ h \in 1 .. n /\ i \in 2 .. n /\ 1 .. i = (1 .. h) \cup {i}
        <5> HIDE DEF Q
        <5>1. QED
          BY <2>2, <4>10, <4>11
      <4>3. F[i] = F[h] \o s[i] /\ F[h] \in Seq(V) /\ s[i] \in Seq(V)
        BY <2>1, <4>1, <4>2
      <4>4. Good(h) /\ Len(F[h]) % 2 = 0
        BY <4>2
      <4>5. \A x : /\ AtOdd(F[i], x) <=> AtOdd(F[h], x) \/ AtOdd(s[i], x)
                   /\ AtEven(F[i], x) <=> AtEven(F[h], x) \/ AtEven(s[i], x)
        <5>1. PICK u, v : u = F[h] /\ v = s[i]
          OBVIOUS
        <5>2. u \in Seq(V) /\ v \in Seq(V) /\ Len(u) % 2 = 0
          BY <4>3, <4>4, <5>1
        <5>3. \A x : /\ AtOdd(u \o v, x) <=> AtOdd(u, x) \/ AtOdd(v, x)
                     /\ AtEven(u \o v, x) <=> AtEven(u, x) \/ AtEven(v, x)
          BY <5>2, ConcatParity
        <5>4. QED
          BY <4>3, <5>1, <5>3
      <4>6. Len(F[i]) % 2 = 0
        <5>1. Len(F[i]) = Len(F[h]) + Len(s[i]) /\ Len(F[h]) \in Nat /\ Len(s[i]) \in Nat
          BY <4>3
        <5>2. Len(s[i]) % 2 = 0
          OBVIOUS
        <5>3. PICK x \in Nat, y \in Nat : x = Len(F[h]) /\ y = Len(s[i])
          BY <5>1
        <5>4. x % 2 = 0 /\ y % 2 = 0
          BY <4>4, <5>2, <5>3
        <5>5. (x + y) % 2 = 0
          BY <5>3, <5>4, EvenSum
        <5>6. QED
          BY <5>1, <5>3, <5>5
      <4>7. \A x : AtOdd(F[i], x) <=> \E j \in 1 .. i : AtOdd(s[j], x)
        BY <4>2, <4>4, <4>5
      <4>8. \A x : AtEven(F[i], x) <=> \E j \in 1 .. i : AtEven(s[j], x)
        BY <4>2, <4>4, <4>5
      <4>9. QED
        BY <4>6, <4>7, <4>8
    <3>3. QED
      BY <3>1, <3>2
  <2>3. 1 .. n \in SUBSET Nat
    OBVIOUS
  <2>4. 1 .. n \subseteq Q
    <3> HIDE DEF Q
    <3>1. QED
      BY <2>2, <2>3, StrongInduction
  <2>5. Good(n) /\ F[n] \in Seq(V)
    <3>1. n \in 1 .. n
      BY <1>2
    <3>2. n \in Q /\ F[n] \in Seq(V)
      BY <2>1, <2>4, <3>1
    <3>3. QED
      BY <3>2
  <2>6. QED
    BY <2>1, <2>5
<1>3. QED
  BY <1>1, <1>2

LEMMA ConcatRange ==
  ASSUME NEW V, NEW p \in Seq(V), NEW q \in Seq(V), NEW x
  PROVE  x \in Range(p \o q) <=> x \in Range(p) \/ x \in Range(q)
<1>1. PICK k, l, c : k = Len(p) /\ l = Len(q) /\ c = p \o q
  OBVIOUS
<1>2. /\ k \in Nat /\ l \in Nat
      /\ DOMAIN p = 1 .. k /\ DOMAIN q = 1 .. l /\ DOMAIN c = 1 .. k + l
  BY <1>1
<1>3. (\A m \in 1 .. k : c[m] = p[m]) /\ \A m \in 1 .. l : c[m + k] = q[m]
  BY <1>1, <1>2
<1>4. \A m \in 1 .. k + l : m \in 1 .. k \/ (m - k \in 1 .. l /\ (m - k) + k = m)
  BY <1>2
<1>5. (\A m \in 1 .. k : m \in 1 .. k + l) /\ \A m \in 1 .. l : m + k \in 1 .. k + l
  BY <1>2
<1>6. x \in Range(c) => x \in Range(p) \/ x \in Range(q)
  <2>1. SUFFICES ASSUME NEW m \in 1 .. k + l, c[m] = x PROVE x \in Range(p) \/ x \in Range(q)
    BY <1>2 DEF Range
  <2>2. CASE m \in 1 .. k
    BY <1>2, <1>3, <2>1, <2>2 DEF Range
  <2>3. CASE m - k \in 1 .. l /\ (m - k) + k = m
    <3>1. q[m - k] = x
      BY <1>3, <2>1, <2>3
    <3>2. QED
      BY <1>2, <2>3, <3>1 DEF Range
  <2>4. QED
    BY <1>4, <2>2, <2>3
<1>7. x \in Range(p) => x \in Range(c)
  BY <1>2, <1>3, <1>5 DEF Range
<1>8. x \in Range(q) => x \in Range(c)
  BY <1>2, <1>3, <1>5 DEF Range
<1>9. QED
  BY <1>1, <1>6, <1>7, <1>8

(* What is in a sequence is in one of its parts. *)
LEMMA FlattenRange ==
  ASSUME NEW V, NEW n \in Nat, NEW s \in [1 .. n -> Seq(V)]
  PROVE  /\ FlattenSeq(s) \in Seq(V)
         /\ \A x : x \in Range(FlattenSeq(s)) <=> \E j \in 1 .. n : x \in Range(s[j])
<1>1. CASE n = 0
  <2>1. s = <<>> /\ Len(s) = 0
    BY <1>1
  <2>2. FlattenSeq(s) = <<>>
    BY <2>1 DEF FlattenSeq
  <2>3. \A x : x \notin Range(<<>>)
    BY DEF Range
  <2>4. QED
    BY <1>1, <2>2, <2>3
<1>2. CASE n # 0
  <2>0. PICK F : Strung(V, n, s, F)
    BY <1>2, FlattenUnfolds
  <2>1. /\ F \in [1 .. n -> Seq(V)] /\ FlattenSeq(s) = F[n] /\ F[1] = s[1]
        /\ \A i \in 2 .. n : F[i] = F[i - 1] \o s[i]
    BY <2>0 DEF Strung
  <2> DEFINE Good(i) == \A x : x \in Range(F[i]) <=> \E j \in 1 .. i : x \in Range(s[j])
             Q == {i \in 1 .. n : Good(i)}
  <2>2. ASSUME NEW i \in 1 .. n, \A e \in 1 .. n : e < i => e \in Q PROVE i \in Q
    <3>1. CASE i = 1
      <4>1. F[i] = s[1] /\ 1 .. i = {1}
        BY <2>1, <3>1
      <4>2. QED
        BY <4>1
    <3>2. CASE i # 1
      <4>1. PICK h : h = i - 1
        OBVIOUS
      <4>10. h \in 1 .. n /\ h < i /\ i \in 2 .. n
        BY <3>2, <4>1
      <4>11. 1 .. i = (1 .. h) \cup {i}
        BY <3>2, <4>1
      <4>2. h \in Q /\ h \in 1 .. n /\ i \in 2 .. n /\ 1 .. i = (1 .. h) \cup {i}
        <5> HIDE DEF Q
        <5>1. QED
          BY <2>2, <4>10, <4>11
      <4>3. F[i] = F[h] \o s[i] /\ F[h] \in Seq(V) /\ s[i] \in Seq(V)
        BY <2>1, <4>1, <4>2
      <4>4. Good(h)
        BY <4>2
      <4>5. \A x : x \in Range(F[i]) <=> x \in Range(F[h]) \/ x \in Range(s[i])
        BY <4>3, ConcatRange
      <4>6. QED
        BY <4>2, <4>4, <4>5
    <3>3. QED
      BY <3>1, <3>2
  <2>3. 1 .. n \in SUBSET Nat
    OBVIOUS
  <2>4. 1 .. n \subseteq Q
    <3> HIDE DEF Q
    <3>1. QED
      BY <2>2, <2>3, StrongInduction
  <2>5. Good(n) /\ F[n] \in Seq(V)
    <3>1. n \in 1 .. n
      BY <1>2
    <3>2. n \in Q /\ F[n] \in Seq(V)
      BY <2>1, <2>4, <3>1
    <3>3. QED
      BY <3>2
  <2>6. QED
    BY <2>1, <2>5
<1>3. QED
  BY <1>1, <1>2

-----------------------------------------------------------------------------
(* The keys of the join                                                    *)

LEMMA KeyAtoms ==
  ASSUME NEW kw, NEW u
  PROVE  CsetKey(kw, u) = {<<"w", kw, 0>>, <<"z", u>>, <<"h">>}
<1>1. PICK a, b, c : a = <<"w", kw, 0>> /\ b = <<"z", u>> /\ c = <<"h">>
  OBVIOUS
<1>2. a[1] = "w" /\ b[1] = "z" /\ c[1] = "h"
  BY <1>1
<1>3. a # b /\ a # c /\ b # c
  BY <1>2
<1>4. Xor(Xor({a}, {b}), {c}) = {a, b, c}
  BY <1>3 DEF Xor
<1>5. QED
  BY <1>1, <1>4 DEF CsetKey, W, Y, H

LEMMA KeysDiffer ==
  ASSUME NEW k, NEW u, NEW l, NEW v
  PROVE  /\ CsetKey(k, u) = CsetKey(l, v) <=> k = l /\ u = v
         /\ CsetKey(k, u) # Xor(CsetKey(l, v), Kz)
<1>1. PICK a, b, c, d, e, z :
        /\ a = <<"w", k, 0>> /\ b = <<"z", u>> /\ c = <<"h">>
        /\ d = <<"w", l, 0>> /\ e = <<"z", v>> /\ z = <<"Kz">>
  OBVIOUS
<1>2. a[1] = "w" /\ b[1] = "z" /\ c[1] = "h" /\ d[1] = "w" /\ e[1] = "z" /\ z[1] = "Kz"
  BY <1>1
<1>3. (a = d => a[2] = d[2]) /\ (b = e => b[2] = e[2])
  OBVIOUS
<1>4. a[2] = k /\ d[2] = l /\ b[2] = u /\ e[2] = v
  BY <1>1
<1>5. CsetKey(k, u) = {a, b, c} /\ CsetKey(l, v) = {d, e, c}
  BY <1>1, KeyAtoms
<1>6. {a, b, c} = {d, e, c} => k = l /\ u = v
  <2>1. SUFFICES ASSUME {a, b, c} = {d, e, c} PROVE k = l /\ u = v
    OBVIOUS
  <2>2. a \in {d, e, c} /\ b \in {d, e, c}
    BY <2>1
  <2>3. a = d /\ b = e
    BY <1>2, <2>2
  <2>4. QED
    BY <1>3, <1>4, <2>3
<1>7. z \notin {a, b, c} /\ z \notin {d, e, c}
  BY <1>2
<1>8. z \in Xor({d, e, c}, {z})
  BY <1>7 DEF Xor
<1>9. Kz = {z}
  BY <1>1 DEF Kz
<1>10. QED
  BY <1>1, <1>5, <1>6, <1>7, <1>8, <1>9

(* What the client's token makes of an entry. *)
LEMMA TokenUnmasks ==
  ASSUME NEW k, NEW kw, NEW u, NEW i \in Nat, i # 0
  PROVE  LET token == Xor(Xor(W(k, 0), W(kw, i)), H)
             entry == Xor(W(kw, i), Y(u))
         IN /\ Xor(token, entry) = CsetKey(k, u)
            /\ Xor(token, Xor(entry, Kz)) = Xor(CsetKey(k, u), Kz)
<1>1. PICK a, b, c, e, z :
        /\ a = <<"w", k, 0>> /\ b = <<"w", kw, i>> /\ e = <<"z", u>> /\ c = <<"h">> /\ z = <<"Kz">>
  OBVIOUS
<1>2. a[1] = "w" /\ b[1] = "w" /\ c[1] = "h" /\ e[1] = "z" /\ z[1] = "Kz" /\ a[3] = 0 /\ b[3] = i
  BY <1>1
<1>3. /\ a # b /\ a # c /\ a # e /\ a # z /\ b # c /\ b # e /\ b # z
      /\ c # e /\ c # z /\ e # z
  BY <1>2
<1>4. PICK token, entry, key : token = {a, b, c} /\ entry = {b, e} /\ key = {a, e, c}
  OBVIOUS
<1>5. Xor(Xor(W(k, 0), W(kw, i)), H) = token
  <2>1. Xor(Xor({a}, {b}), {c}) = {a, b, c}
    BY <1>3 DEF Xor
  <2>2. QED
    BY <1>1, <1>4, <2>1 DEF W, H
<1>6. Xor(W(kw, i), Y(u)) = entry
  <2>1. Xor({b}, {e}) = {b, e}
    BY <1>3 DEF Xor
  <2>2. QED
    BY <1>1, <1>4, <2>1 DEF W, Y
<1>7. CsetKey(k, u) = key
  BY <1>1, <1>4, KeyAtoms
<1>8. Kz = {z}
  BY <1>1 DEF Kz
<1>9. Xor(token, entry) = key
  <2>1. \A x : x \in Xor(token, entry) <=> x \in key
    BY <1>3, <1>4 DEF Xor
  <2>2. QED
    BY <2>1
<1>10. Xor(token, Xor(entry, {z})) = Xor(key, {z})
  <2>1. \A x : x \in Xor(entry, {z}) <=> x \in {b, e, z}
    BY <1>3, <1>4 DEF Xor
  <2>2. \A x : x \in Xor(token, Xor(entry, {z})) <=> x \in {a, c, e, z}
    <3>1. PICK m : m = Xor(entry, {z})
      OBVIOUS
    <3>2. \A x : x \in m <=> x \in {b, e, z}
      BY <2>1, <3>1
    <3>3. \A x : x \in Xor(token, m) <=> x \in {a, c, e, z}
      BY <1>3, <1>4, <3>2 DEF Xor
    <3>4. QED
      BY <3>1, <3>3
  <2>3. \A x : x \in Xor(key, {z}) <=> x \in {a, c, e, z}
    BY <1>3, <1>4 DEF Xor
  <2>4. QED
    BY <2>2, <2>3
<1>11. QED
  BY <1>5, <1>6, <1>7, <1>8, <1>9, <1>10

(* The rows of a table under a keyword, and those of a user among them.    *)
FiledRows(table, kw) == {i \in DOMAIN table : kw \in KeywordsOf(table[i])}
FiledOf(table, kw, u) == {i \in DOMAIN table : kw \in KeywordsOf(table[i]) /\ table[i].user = u}
GroupFor(table, t, kw, u) ==
  [n \in DOMAIN Ascending(FiledOf(table, kw, u)) |->
     [key |-> kw, id |-> <<t, Ascending(FiledOf(table, kw, u))[n]>>]]
KeywordsIn(table) == UNION {KeywordsOf(table[i]) : i \in DOMAIN table}

LEMMA RowsOfTable ==
  ASSUME NEW R, NEW table \in Seq(R)
  PROVE  /\ IsFiniteSet(DOMAIN table) /\ DOMAIN table \subseteq Nat /\ DOMAIN table = 1 .. Len(table)
         /\ \A kw : IsFiniteSet(FiledRows(table, kw)) /\ FiledRows(table, kw) \subseteq Int
         /\ \A kw, u : IsFiniteSet(FiledOf(table, kw, u)) /\ FiledOf(table, kw, u) \subseteq Int
<1>1. PICK n \in Nat : n = Len(table) /\ DOMAIN table = 1 .. n
  OBVIOUS
<1>2. IsFiniteSet(DOMAIN table) /\ DOMAIN table \subseteq Nat
  <2>1. IsFiniteSet(1 .. n)
    BY FS_Interval
  <2>2. QED
    BY <1>1, <2>1
<1>3. ASSUME NEW U \in SUBSET DOMAIN table PROVE IsFiniteSet(U) /\ U \subseteq Int
  BY <1>2, FS_Subset
<1>4. \A kw, u : /\ FiledRows(table, kw) \in SUBSET DOMAIN table
                 /\ FiledOf(table, kw, u) \in SUBSET DOMAIN table
  BY DEF FiledRows, FiledOf
<1>5. QED
  BY <1>1, <1>2, <1>3, <1>4

(* An id is read, or a wrong key has made garbage of its ciphertext.       *)
ReadOrLost(x, read, wrong) == x \in read \/ (Garbage \in read /\ \E pair \in wrong : pair[2].id = x)

(* Keys are tried in turn: a ciphertext whose key is among them gives its  *)
(* row, unless a key before it decrypts as well.                           *)
LEMMA DecryptFacts ==
  ASSUME NEW keys, NEW c, NEW wrong
  PROVE  /\ Decrypt(keys, c, wrong) \subseteq {c.id, Garbage}
         /\ \A k \in Nat : DOMAIN keys = 1 .. k /\ c.key \in Range(keys) =>
              ReadOrLost(c.id, Decrypt(keys, c, wrong), wrong)
         /\ keys = <<c.key>> => Decrypt(keys, c, wrong) = {c.id}
<1>1. \A x : x \in Decrypt(keys, c, wrong) <=>
        \E n \in DOMAIN keys : /\ x = IF c.key = keys[n] THEN c.id ELSE Garbage
                               /\ Decrypts(keys[n], c, wrong)
                               /\ \A l \in 1 .. n - 1 : ~Decrypts(keys[l], c, wrong)
  BY DEF Decrypt
<1>2. Decrypt(keys, c, wrong) \subseteq {c.id, Garbage}
  BY <1>1
<1>3. ASSUME NEW k \in Nat, DOMAIN keys = 1 .. k, c.key \in Range(keys)
      PROVE  ReadOrLost(c.id, Decrypt(keys, c, wrong), wrong)
  <2>1. PICK S : S = {l \in 1 .. k : Decrypts(keys[l], c, wrong)}
    OBVIOUS
  <2>2. PICK m \in 1 .. k : keys[m] = c.key
    BY <1>3 DEF Range
  <2>3. S \in SUBSET Nat /\ m \in S
    BY <2>1, <2>2 DEF Decrypts
  <2>4. PICK n \in S : \A l \in S : n <= l
    BY <2>3, NatHasLeast
  <2>5. n \in 1 .. k /\ Decrypts(keys[n], c, wrong)
    BY <2>1, <2>4
  <2>6. ASSUME NEW l \in 1 .. n - 1 PROVE ~Decrypts(keys[l], c, wrong)
    <3>1. l \in 1 .. k /\ ~(n <= l)
      BY <2>5
    <3>2. QED
      BY <2>1, <2>4, <3>1
  <2>7. CASE keys[n] = c.key
    <3>1. c.id \in Decrypt(keys, c, wrong)
      BY <1>1, <1>3, <2>5, <2>6, <2>7
    <3>2. QED
      BY <3>1 DEF ReadOrLost
  <2>8. CASE keys[n] # c.key
    <3>1. Garbage \in Decrypt(keys, c, wrong)
      BY <1>1, <1>3, <2>5, <2>6, <2>8
    <3>2. PICK pair : pair = <<keys[n], c>>
      OBVIOUS
    <3>3. pair \in wrong
      BY <2>5, <2>8, <3>2 DEF Decrypts
    <3>4. pair[2] = c
      BY <3>2
    <3>5. QED
      BY <3>1, <3>3, <3>4 DEF ReadOrLost
  <2>9. QED
    BY <2>7, <2>8
<1>4. ASSUME keys = <<c.key>> PROVE Decrypt(keys, c, wrong) = {c.id}
  <2>1. DOMAIN keys = {1} /\ keys[1] = c.key
    BY <1>4
  <2>2. 1 .. 1 - 1 = {}
    OBVIOUS
  <2>3. Decrypts(keys[1], c, wrong)
    BY <2>1 DEF Decrypts
  <2>4. \A x : x \in Decrypt(keys, c, wrong) <=> x = c.id
    BY <1>1, <2>1, <2>2, <2>3
  <2>5. QED
    BY <2>4
<1>5. QED
  BY <1>2, <1>3, <1>4

LEMMA GroupFacts ==
  ASSUME NEW R, NEW table \in Seq(R), NEW t, NEW kw, NEW u
  PROVE  LET g == GroupFor(table, t, kw, u)
         IN /\ IdsIn(g) = {<<t, i>> : i \in FiledOf(table, kw, u)}
            /\ \A keys, wrong : Decrypted(g, keys, wrong) \subseteq IdsIn(g) \cup {Garbage}
            /\ \A keys, wrong : \A k \in Nat :
                 DOMAIN keys = 1 .. k /\ kw \in Range(keys) =>
                   \A x \in IdsIn(g) : ReadOrLost(x, Decrypted(g, keys, wrong), wrong)
            /\ \A wrong : Decrypted(g, <<kw>>, wrong) = IdsIn(g)
<1>1. PICK F, s, n, g :
        /\ F = FiledOf(table, kw, u) /\ s = Ascending(F) /\ n = Cardinality(F)
        /\ g = GroupFor(table, t, kw, u)
  OBVIOUS
<1>2. IsFiniteSet(F) /\ F \subseteq Int
  BY <1>1, RowsOfTable
<1>3. n \in Nat /\ s \in [1 .. n -> F] /\ \A x \in F : \E i \in 1 .. n : s[i] = x
  BY <1>1, <1>2, AscendingFacts
<1>4. g = [i \in 1 .. n |-> [key |-> kw, id |-> <<t, s[i]>>]]
  <2>1. DOMAIN s = 1 .. n
    BY <1>3
  <2>2. QED
    BY <1>1, <2>1 DEF GroupFor
<1>5. DOMAIN g = 1 .. n /\ \A i \in 1 .. n : g[i].key = kw /\ g[i].id = <<t, s[i]>>
  BY <1>4
<1>6. IdsIn(g) = {<<t, s[i]>> : i \in 1 .. n}
  BY <1>5 DEF IdsIn
<1>7. IdsIn(g) = {<<t, x>> : x \in F}
  BY <1>3, <1>6
<1>8. /\ \A x : x \in IdsIn(g) <=> \E i \in DOMAIN g : x = g[i].id
      /\ \A keys, wrong, x : x \in Decrypted(g, keys, wrong) <=>
           \E i \in DOMAIN g : x \in Decrypt(keys, g[i], wrong)
  BY DEF IdsIn, Decrypted
<1>9. ASSUME NEW keys, NEW wrong PROVE Decrypted(g, keys, wrong) \subseteq IdsIn(g) \cup {Garbage}
  <2>1. \A i \in DOMAIN g : Decrypt(keys, g[i], wrong) \subseteq {g[i].id, Garbage}
    BY DecryptFacts
  <2>2. QED
    BY <1>8, <2>1
<1>10. ASSUME NEW keys, NEW wrong, NEW k \in Nat, DOMAIN keys = 1 .. k, kw \in Range(keys), NEW x \in IdsIn(g)
       PROVE  ReadOrLost(x, Decrypted(g, keys, wrong), wrong)
  <2>1. PICK i \in DOMAIN g : x = g[i].id
    BY <1>8
  <2>2. PICK c : c = g[i] /\ c.key = kw /\ c.id = x
    BY <1>5, <2>1
  <2>3. ReadOrLost(c.id, Decrypt(keys, c, wrong), wrong)
    BY <1>10, <2>2, DecryptFacts
  <2>4. Decrypt(keys, c, wrong) \subseteq Decrypted(g, keys, wrong)
    BY <1>8, <2>2
  <2>5. QED
    BY <2>2, <2>3, <2>4 DEF ReadOrLost
<1>11. ASSUME NEW wrong PROVE Decrypted(g, <<kw>>, wrong) = IdsIn(g)
  <2>1. PICK keys : keys = <<kw>>
    OBVIOUS
  <2>2. ASSUME NEW i \in DOMAIN g PROVE Decrypt(keys, g[i], wrong) = {g[i].id}
    <3>1. keys = <<g[i].key>>
      BY <1>5, <2>1
    <3>2. QED
      BY <3>1, DecryptFacts
  <2>3. \A x : x \in Decrypted(g, keys, wrong) <=> \E i \in DOMAIN g : x \in Decrypt(keys, g[i], wrong)
    BY <1>8
  <2>4. \A x : x \in Decrypted(g, keys, wrong) <=> x \in IdsIn(g)
    BY <1>8, <2>2, <2>3
  <2>5. QED
    BY <2>1, <2>4
<1>12. QED
  BY <1>1, <1>7, <1>9, <1>10, <1>11

(* A ciphertext set has a group for each keyword and user that occur       *)
(* together.                                                               *)
LEMMA CiphertextFacts ==
  ASSUME NEW table, NEW t
  PROVE  /\ \A key : key \in DOMAIN CiphertextSet(table, t) <=>
                       \E kw, u : key = CsetKey(kw, u) /\ FiledOf(table, kw, u) # {}
         /\ \A kw, u : FiledOf(table, kw, u) # {} =>
              CiphertextSet(table, t)[CsetKey(kw, u)] = GroupFor(table, t, kw, u)
<1>1. PICK groups : groups = UNION {KeywordsOf(table[i]) \X {table[i].user} : i \in DOMAIN table}
  OBVIOUS
<1>2. \A g : g \in groups <=> \E kw, u : g = <<kw, u>> /\ FiledOf(table, kw, u) # {}
  <2>1. ASSUME NEW g \in groups PROVE \E kw, u : g = <<kw, u>> /\ FiledOf(table, kw, u) # {}
    <3>1. PICK i \in DOMAIN table : g \in KeywordsOf(table[i]) \X {table[i].user}
      BY <1>1
    <3>2. PICK kw \in KeywordsOf(table[i]) : g = <<kw, table[i].user>>
      BY <3>1
    <3>3. i \in FiledOf(table, kw, table[i].user)
      BY <3>2 DEF FiledOf
    <3>4. QED
      BY <3>2, <3>3
  <2>2. ASSUME NEW kw, NEW u, NEW i \in FiledOf(table, kw, u) PROVE <<kw, u>> \in groups
    <3>1. i \in DOMAIN table /\ kw \in KeywordsOf(table[i]) /\ table[i].user = u
      BY <2>2 DEF FiledOf
    <3>2. <<kw, u>> \in KeywordsOf(table[i]) \X {table[i].user}
      BY <3>1
    <3>3. QED
      BY <1>1, <3>1, <3>2
  <2>3. QED
    BY <2>1, <2>2
<1> DEFINE Choice(key) == CHOOSE g \in groups : CsetKey(g[1], g[2]) = key
           Group(g) == LET posts == Ascending({i \in DOMAIN table :
                                      g[1] \in KeywordsOf(table[i]) /\ table[i].user = g[2]})
                       IN [n \in DOMAIN posts |-> [key |-> g[1], id |-> <<t, posts[n]>>]]
<1>3. CiphertextSet(table, t) =
        [key \in {CsetKey(g[1], g[2]) : g \in groups} |-> Group(Choice(key))]
  BY <1>1 DEF CiphertextSet
<1>4. \A kw, u : Group(<<kw, u>>) = GroupFor(table, t, kw, u)
  <2>1. ASSUME NEW kw, NEW u PROVE Group(<<kw, u>>) = GroupFor(table, t, kw, u)
    <3>1. PICK g : g = <<kw, u>>
      OBVIOUS
    <3>2. g[1] = kw /\ g[2] = u
      BY <3>1
    <3>3. {i \in DOMAIN table : g[1] \in KeywordsOf(table[i]) /\ table[i].user = g[2]} = FiledOf(table, kw, u)
      BY <3>2 DEF FiledOf
    <3>4. Group(g) = GroupFor(table, t, kw, u)
      BY <3>2, <3>3 DEF GroupFor
    <3>5. QED
      BY <3>1, <3>4
  <2> HIDE DEF Group
  <2>2. QED
    BY <2>1
<1>5. ASSUME NEW key
      PROVE  key \in DOMAIN CiphertextSet(table, t) <=>
               \E kw, u : key = CsetKey(kw, u) /\ FiledOf(table, kw, u) # {}
  <2>1. key \in DOMAIN CiphertextSet(table, t) <=> \E g \in groups : key = CsetKey(g[1], g[2])
    BY <1>3
  <2>2. ASSUME NEW g \in groups, key = CsetKey(g[1], g[2])
        PROVE  \E kw, u : key = CsetKey(kw, u) /\ FiledOf(table, kw, u) # {}
    <3>1. PICK kw, u : g = <<kw, u>> /\ FiledOf(table, kw, u) # {}
      BY <1>2
    <3>2. g[1] = kw /\ g[2] = u
      BY <3>1
    <3>3. QED
      BY <2>2, <3>1, <3>2
  <2>3. ASSUME NEW kw, NEW u, key = CsetKey(kw, u), FiledOf(table, kw, u) # {}
        PROVE  \E g \in groups : key = CsetKey(g[1], g[2])
    <3>1. PICK g : g = <<kw, u>>
      OBVIOUS
    <3>2. g \in groups /\ g[1] = kw /\ g[2] = u
      BY <1>2, <2>3, <3>1
    <3>3. QED
      BY <2>3, <3>2
  <2>4. QED
    BY <2>1, <2>2, <2>3
<1>6. ASSUME NEW kw, NEW u, FiledOf(table, kw, u) # {}
      PROVE  CiphertextSet(table, t)[CsetKey(kw, u)] = GroupFor(table, t, kw, u)
  <2>1. PICK key, h : key = CsetKey(kw, u) /\ h = <<kw, u>>
    OBVIOUS
  <2>2. h \in groups /\ h[1] = kw /\ h[2] = u
    BY <1>2, <1>6, <2>1
  <2>3. CsetKey(h[1], h[2]) = key
    BY <2>1, <2>2
  <2>4. PICK g : g = Choice(key)
    OBVIOUS
  <2>5. g \in groups /\ CsetKey(g[1], g[2]) = key
    BY <2>2, <2>3, <2>4
  <2>6. PICK k, v : g = <<k, v>>
    BY <1>2, <2>5
  <2>7. g[1] = k /\ g[2] = v
    BY <2>6
  <2>8. k = kw /\ v = u
    BY <2>1, <2>5, <2>7, KeysDiffer
  <2>9. key \in DOMAIN CiphertextSet(table, t)
    BY <1>5, <1>6, <2>1
  <2> HIDE DEF Group, Choice
  <2>10. CiphertextSet(table, t)[key] = Group(Choice(key))
    BY <1>3, <2>9
  <2>11. Group(Choice(key)) = Group(<<kw, u>>)
    BY <2>4, <2>6, <2>8
  <2>12. QED
    BY <1>4, <2>1, <2>10, <2>11
<1>7. QED
  <2> HIDE DEF Group, Choice
  <2>1. QED
    BY <1>5, <1>6

LEMMA KeywordFacts ==
  ASSUME NEW row
  PROVE  /\ \A u : UserKey(u) \in KeywordsOf(row) <=> row.user = u
         /\ \A s : SlotKey(s) \in KeywordsOf(row) <=> row.slot = s
         /\ \A c : CubeKey(c) \in KeywordsOf(row) <=> c \in DataCubeCodes(row.point)
<1>1. PICK C : C = DataCubeCodes(row.point)
  OBVIOUS
<1>2. \A x : x \in KeywordsOf(row) <=> \/ x = UserKey(row.user) \/ x = SlotKey(row.slot)
                                       \/ \E c \in C : x = CubeKey(c)
  BY <1>1 DEF KeywordsOf
<1>3. /\ \A u : UserKey(u)[1] = "user" /\ UserKey(u)[2] = u
      /\ \A s : SlotKey(s)[1] = "slot" /\ SlotKey(s)[2] = s
      /\ \A c : CubeKey(c)[1] = "cube" /\ CubeKey(c)[2] = c
  BY DEF UserKey, SlotKey, CubeKey
<1>4. \A u : UserKey(u) \in KeywordsOf(row) <=> row.user = u
  BY <1>2, <1>3
<1>5. \A s : SlotKey(s) \in KeywordsOf(row) <=> row.slot = s
  BY <1>2, <1>3
<1>6. \A c : CubeKey(c) \in KeywordsOf(row) <=> c \in C
  BY <1>2, <1>3
<1>7. QED
  BY <1>1, <1>4, <1>5, <1>6

(* What the server has of the tables that have been constructed.           *)
JoinStored ==
  /\ rows \in [Table -> Seq(Row1 \cup Row2)] /\ built \subseteq Table
  /\ server =
       [tset |-> [token \in UNION {KeywordsIn(rows[t]) \X {t} : t \in built} |->
                    Entries(rows[token[2]], token[1])],
        cset |-> [t \in Table |-> IF t \in built THEN CiphertextSet(rows[t], t) ELSE <<>>]]
  /\ result # NoResult => built = Table

UserAt(kw, i) == rows[1][PostingsOf(rows[1], kw)[i]].user
IsFirst(kw, i) == ~\E j \in 1 .. i - 1 : UserAt(kw, j) = UserAt(kw, i)
EntryFor(kw, i) ==
  LET entry == Xor(W(kw, i), Y(UserAt(kw, i)))
  IN IF IsFirst(kw, i) THEN entry ELSE Xor(entry, Kz)

LEMMA EntryFacts ==
  ASSUME JoinStored, built = Table, NEW kw
  PROVE  \E n \in Nat :
           /\ DOMAIN EntriesOf(kw) = 1 .. n
           /\ \A i \in 1 .. n : /\ EntriesOf(kw)[i] = EntryFor(kw, i)
                                /\ FiledOf(rows[1], kw, UserAt(kw, i)) # {}
           /\ \A u : FiledOf(rows[1], kw, u) # {} => \E i \in 1 .. n : UserAt(kw, i) = u
<1>1. PICK F, posts, n, table :
        /\ table = rows[1] /\ F = FiledRows(table, kw)
        /\ posts = PostingsOf(table, kw) /\ n = Cardinality(F)
  OBVIOUS
<1>2. table \in Seq(Row1 \cup Row2) /\ 1 \in Table
  BY <1>1 DEF JoinStored, Table
<1>3. IsFiniteSet(F) /\ F \subseteq Int /\ posts = Ascending(F)
  BY <1>1, <1>2, RowsOfTable DEF PostingsOf, FiledRows
<1>4. n \in Nat /\ posts \in [1 .. n -> F] /\ \A x \in F : \E i \in 1 .. n : posts[i] = x
  BY <1>1, <1>3, AscendingFacts
<1>5. Entries(table, kw) = [i \in 1 .. n |-> EntryFor(kw, i)]
  <2>1. DOMAIN posts = 1 .. n
    BY <1>4
  <2>2. QED
    BY <1>1, <2>1 DEF Entries, EntryFor, IsFirst, UserAt
<1>6. EntriesOf(kw) = [i \in 1 .. n |-> EntryFor(kw, i)]
  <2>1. PICK tokens : tokens = UNION {KeywordsIn(rows[t]) \X {t} : t \in built}
    OBVIOUS
  <2>2. server.tset = [token \in tokens |-> Entries(rows[token[2]], token[1])]
    BY <2>1 DEF JoinStored
  <2>3. PICK token : token = <<kw, 1>>
    OBVIOUS
  <2>4. token[1] = kw /\ token[2] = 1
    BY <2>3
  <2>5. CASE kw \in KeywordsIn(table)
    <3>1. token \in KeywordsIn(rows[1]) \X {1}
      BY <1>1, <2>3, <2>5
    <3>2. token \in tokens
      BY <1>2, <2>1, <3>1
    <3>3. token \in DOMAIN server.tset /\ server.tset[token] = Entries(table, kw)
      BY <1>1, <2>2, <2>4, <3>2
    <3>4. EntriesOf(kw) = Entries(table, kw)
      BY <2>3, <3>3 DEF EntriesOf
    <3>5. QED
      BY <1>5, <3>4
  <2>6. CASE kw \notin KeywordsIn(table)
    <3>1. token \notin tokens
      <4>1. SUFFICES ASSUME token \in tokens PROVE FALSE
        OBVIOUS
      <4>2. PICK t \in built : token \in KeywordsIn(rows[t]) \X {t}
        BY <2>1, <4>1
      <4>3. t = 1 /\ kw \in KeywordsIn(rows[t])
        BY <2>4, <4>2
      <4>4. QED
        BY <1>1, <2>6, <4>3
    <3>2. token \notin DOMAIN server.tset
      BY <2>2, <3>1
    <3>3. EntriesOf(kw) = <<>>
      BY <2>3, <3>2 DEF EntriesOf
    <3>4. F = {}
      BY <1>1, <2>6 DEF FiledRows, KeywordsIn
    <3>5. n = 0
      BY <1>1, <3>4, FS_EmptySet
    <3>6. QED
      BY <3>3, <3>5
  <2>7. QED
    BY <2>5, <2>6
<1>7. ASSUME NEW i \in 1 .. n PROVE FiledOf(rows[1], kw, UserAt(kw, i)) # {}
  <2>1. posts[i] \in F
    BY <1>4
  <2>2. posts[i] \in FiledOf(rows[1], kw, UserAt(kw, i))
    BY <1>1, <2>1 DEF FiledOf, FiledRows, UserAt
  <2>3. QED
    BY <2>2
<1>8. ASSUME NEW u, FiledOf(rows[1], kw, u) # {} PROVE \E i \in 1 .. n : UserAt(kw, i) = u
  <2>1. PICK p : p \in FiledOf(rows[1], kw, u)
    BY <1>8
  <2>2. p \in F /\ rows[1][p].user = u
    BY <1>1, <2>1 DEF FiledOf, FiledRows
  <2>3. PICK i \in 1 .. n : posts[i] = p
    BY <1>4, <2>2
  <2>4. QED
    BY <1>1, <2>2, <2>3 DEF UserAt
<1>9. DOMAIN EntriesOf(kw) = 1 .. n /\ \A i \in 1 .. n : EntriesOf(kw)[i] = EntryFor(kw, i)
  BY <1>6
<1>10. QED
  BY <1>4, <1>7, <1>8, <1>9

UserIn2(u) == FiledOf(rows[2], UserKey(u), u) # {}
Matched(kw, u, i) == IsFirst(kw, i) /\ UserAt(kw, i) = u /\ UserIn2(u)
GroupOf1(kw, u) == GroupFor(rows[1], 1, kw, u)
GroupOf2(u) == GroupFor(rows[2], 2, UserKey(u), u)

(* The first entry of the user leads to both groups, no other entry does. *)
LEMMA EntryLeads ==
  ASSUME JoinStored, built = Table, NEW kw, NEW u, NEW i \in DOMAIN EntriesOf(kw)
  PROVE  /\ GroupsAt(1, Key1(kw, i)) = IF IsFirst(kw, i) THEN <<GroupOf1(kw, UserAt(kw, i))>> ELSE <<>>
         /\ GroupsAt(2, Key2(kw, u, i)) = IF Matched(kw, u, i) THEN <<GroupOf2(u)>> ELSE <<>>
         /\ Key2(kw, u, i) \in DOMAIN server.cset[2] <=> Matched(kw, u, i)
<1>1. PICK n \in Nat :
        /\ DOMAIN EntriesOf(kw) = 1 .. n
        /\ \A j \in 1 .. n : /\ EntriesOf(kw)[j] = EntryFor(kw, j)
                             /\ FiledOf(rows[1], kw, UserAt(kw, j)) # {}
  BY EntryFacts
<1>2. PICK v : v = UserAt(kw, i)
  OBVIOUS
<1>3. i \in Nat /\ i # 0 /\ FiledOf(rows[1], kw, v) # {}
  BY <1>1, <1>2
<1>4. EntriesOf(kw)[i] = IF IsFirst(kw, i) THEN Xor(W(kw, i), Y(v)) ELSE Xor(Xor(W(kw, i), Y(v)), Kz)
  BY <1>1, <1>2 DEF EntryFor
<1>5. Key1(kw, i) = IF IsFirst(kw, i) THEN CsetKey(kw, v) ELSE Xor(CsetKey(kw, v), Kz)
  BY <1>3, <1>4, TokenUnmasks DEF Key1, JoinToken1
<1>6. Key2(kw, u, i) = IF IsFirst(kw, i) THEN CsetKey(UserKey(u), v) ELSE Xor(CsetKey(UserKey(u), v), Kz)
  BY <1>3, <1>4, TokenUnmasks DEF Key2, JoinToken2
<1>7. server.cset[1] = CiphertextSet(rows[1], 1) /\ server.cset[2] = CiphertextSet(rows[2], 2)
  BY DEF JoinStored, Table
<1>8. \A t, k, w : Xor(CsetKey(k, w), Kz) \notin DOMAIN CiphertextSet(rows[t], t)
  BY CiphertextFacts, KeysDiffer
<1>9. ASSUME NEW t, NEW k, NEW w
      PROVE  CsetKey(k, w) \in DOMAIN CiphertextSet(rows[t], t) <=> FiledOf(rows[t], k, w) # {}
  <2>1. CsetKey(k, w) \in DOMAIN CiphertextSet(rows[t], t) <=>
          \E l, x : CsetKey(k, w) = CsetKey(l, x) /\ FiledOf(rows[t], l, x) # {}
    BY CiphertextFacts
  <2>2. \A l, x : CsetKey(k, w) = CsetKey(l, x) <=> k = l /\ w = x
    BY KeysDiffer
  <2>3. QED
    BY <2>1, <2>2
<1>10. FiledOf(rows[2], UserKey(u), v) # {} <=> v = u /\ UserIn2(u)
  <2>1. ASSUME NEW j \in FiledOf(rows[2], UserKey(u), v) PROVE v = u
    BY <2>1, KeywordFacts DEF FiledOf
  <2>2. QED
    BY <2>1 DEF UserIn2
<1>11. CASE IsFirst(kw, i)
  <2>1. Key1(kw, i) = CsetKey(kw, v) /\ Key2(kw, u, i) = CsetKey(UserKey(u), v)
    BY <1>5, <1>6, <1>11
  <2>2. GroupsAt(1, Key1(kw, i)) = <<GroupOf1(kw, v)>>
    <3>1. CsetKey(kw, v) \in DOMAIN CiphertextSet(rows[1], 1)
      BY <1>3, <1>9
    <3>2. CiphertextSet(rows[1], 1)[CsetKey(kw, v)] = GroupOf1(kw, v)
      BY <1>3, CiphertextFacts DEF GroupOf1
    <3>3. QED
      BY <1>7, <2>1, <3>1, <3>2 DEF GroupsAt
  <2>3. Key2(kw, u, i) \in DOMAIN server.cset[2] <=> Matched(kw, u, i)
    BY <1>2, <1>7, <1>9, <1>10, <1>11, <2>1 DEF Matched
  <2>4. CASE Matched(kw, u, i)
    <3>1. v = u /\ FiledOf(rows[2], UserKey(u), u) # {}
      BY <1>2, <2>4 DEF Matched, UserIn2
    <3>2. CiphertextSet(rows[2], 2)[CsetKey(UserKey(u), u)] = GroupOf2(u)
      BY <3>1, CiphertextFacts DEF GroupOf2
    <3>3. GroupsAt(2, Key2(kw, u, i)) = <<GroupOf2(u)>>
      BY <1>7, <2>1, <2>3, <2>4, <3>1, <3>2 DEF GroupsAt
    <3>4. QED
      BY <1>2, <1>11, <2>2, <2>3, <2>4, <3>3
  <2>5. CASE ~Matched(kw, u, i)
    BY <1>2, <1>11, <2>2, <2>3, <2>5 DEF GroupsAt
  <2>6. QED
    BY <2>4, <2>5
<1>12. CASE ~IsFirst(kw, i)
  <2>1. /\ Key1(kw, i) \notin DOMAIN server.cset[1] /\ Key2(kw, u, i) \notin DOMAIN server.cset[2]
        /\ ~Matched(kw, u, i)
    BY <1>5, <1>6, <1>7, <1>8, <1>12 DEF Matched
  <2>2. QED
    BY <1>12, <2>1 DEF GroupsAt
<1>13. QED
  BY <1>11, <1>12

PairFor(kw, u) == <<GroupOf1(kw, u), GroupOf2(u)>>

LEMMA ShortSequences ==
  /\ \A x, y : <<x>> \o <<y>> = <<x, y>> /\ <<x>> # <<>>
  /\ \A x : <<x>> \o <<>> = <<x>>
  /\ <<>> \o <<>> = <<>>
<1>1. ASSUME NEW x, NEW y PROVE <<x>> \o <<y>> = <<x, y>> /\ <<x>> # <<>>
  <2>1. PICK V : V = {x, y}
    OBVIOUS
  <2>2. <<x>> \in Seq(V) /\ <<y>> \in Seq(V) /\ <<x, y>> \in Seq(V)
    BY <2>1
  <2>3. Len(<<x>>) = 1 /\ Len(<<y>>) = 1 /\ Len(<<x, y>>) = 2
    OBVIOUS
  <2>4. PICK p, q, c : p = <<x>> /\ q = <<y>> /\ c = p \o q
    OBVIOUS
  <2>5. p \in Seq(V) /\ q \in Seq(V) /\ Len(p) = 1 /\ Len(q) = 1 /\ p[1] = x /\ q[1] = y
    BY <2>2, <2>3, <2>4
  <2>6. c \in Seq(V) /\ Len(c) = 2 /\ c[1] = x /\ c[2] = y
    BY <2>4, <2>5
  <2>7. c = [i \in 1 .. 2 |-> c[i]]
    BY <2>6
  <2>8. \A i \in 1 .. 2 : c[i] = IF i = 1 THEN x ELSE y
    BY <2>6
  <2>9. c = [i \in 1 .. 2 |-> IF i = 1 THEN x ELSE y]
    BY <2>7, <2>8
  <2>10. <<x, y>> = [i \in 1 .. 2 |-> IF i = 1 THEN x ELSE y]
    OBVIOUS
  <2>11. <<x>> # <<>>
    OBVIOUS
  <2>12. QED
    BY <2>4, <2>9, <2>10, <2>11
<1>2. ASSUME NEW x PROVE <<x>> \o <<>> = <<x>>
  <2>1. <<x>> \in Seq({x}) /\ <<>> \in Seq({x})
    OBVIOUS
  <2>2. QED
    BY <2>1
<1>3. <<>> \o <<>> = <<>>
  OBVIOUS
<1>4. QED
  BY <1>1, <1>2, <1>3

LEMMA EntryGives ==
  ASSUME JoinStored, built = Table, NEW kw, NEW u, NEW i \in DOMAIN EntriesOf(kw), NEW hits
  PROVE  /\ PairOf(kw, u, i, hits) = IF Matched(kw, u, i) THEN PairFor(kw, u) ELSE <<>>
         /\ Matched(kw, u, i) => GroupsOf(kw, u, i, hits) = PairFor(kw, u)
         /\ ~Matched(kw, u, i) => \/ GroupsOf(kw, u, i, hits) = <<>>
                                  \/ /\ hits # {}
                                     /\ GroupsOf(kw, u, i, hits) = <<GroupOf1(kw, UserAt(kw, i))>>
<1>1. PICK g, h : g = GroupsAt(1, Key1(kw, i)) /\ h = GroupsAt(2, Key2(kw, u, i))
  OBVIOUS
<1>2. /\ g = IF IsFirst(kw, i) THEN <<GroupOf1(kw, UserAt(kw, i))>> ELSE <<>>
      /\ h = IF Matched(kw, u, i) THEN <<GroupOf2(u)>> ELSE <<>>
      /\ Key2(kw, u, i) \in DOMAIN server.cset[2] <=> Matched(kw, u, i)
  BY <1>1, EntryLeads
<1>3. CASE Matched(kw, u, i)
  <2>1. g = <<GroupOf1(kw, u)>> /\ h = <<GroupOf2(u)>>
    BY <1>2, <1>3 DEF Matched
  <2>2. g # <<>> /\ h # <<>> /\ g \o h = PairFor(kw, u)
    BY <2>1, ShortSequences DEF PairFor
  <2>3. Key2(kw, u, i) \in DOMAIN server.cset[2]
    BY <1>2, <1>3
  <2>4. QED
    BY <1>1, <1>3, <2>2, <2>3 DEF PairOf, GroupsOf
<1>4. CASE ~Matched(kw, u, i)
  <2>1. h = <<>> /\ Key2(kw, u, i) \notin DOMAIN server.cset[2]
    BY <1>2, <1>4
  <2>2. PairOf(kw, u, i, hits) = <<>>
    BY <1>1, <2>1 DEF PairOf
  <2>3. g \o h = g
    BY <1>2, <2>1, ShortSequences
  <2>4. GroupsOf(kw, u, i, hits) = IF Key2(kw, u, i) \in hits THEN g ELSE <<>>
    BY <1>1, <2>1, <2>3 DEF GroupsOf
  <2>5. QED
    BY <1>2, <1>4, <2>2, <2>4
<1>5. QED
  BY <1>3, <1>4

LEMMA SomeMatch ==
  ASSUME JoinStored, built = Table, NEW kw, NEW u
  PROVE  (\E i \in DOMAIN EntriesOf(kw) : Matched(kw, u, i)) <=>
           FiledOf(rows[1], kw, u) # {} /\ UserIn2(u)
<1>1. PICK n \in Nat :
        /\ DOMAIN EntriesOf(kw) = 1 .. n
        /\ \A i \in 1 .. n : FiledOf(rows[1], kw, UserAt(kw, i)) # {}
        /\ FiledOf(rows[1], kw, u) # {} => \E i \in 1 .. n : UserAt(kw, i) = u
  BY EntryFacts
<1>2. ASSUME NEW i \in 1 .. n, Matched(kw, u, i) PROVE FiledOf(rows[1], kw, u) # {} /\ UserIn2(u)
  BY <1>1, <1>2 DEF Matched
<1>3. ASSUME FiledOf(rows[1], kw, u) # {}, UserIn2(u) PROVE \E i \in 1 .. n : Matched(kw, u, i)
  <2>1. PICK S : S = {i \in 1 .. n : UserAt(kw, i) = u}
    OBVIOUS
  <2>2. S \in SUBSET Nat /\ S # {}
    BY <1>1, <1>3, <2>1
  <2>3. PICK i \in S : \A j \in S : i <= j
    BY <2>2, NatHasLeast
  <2>4. i \in 1 .. n /\ UserAt(kw, i) = u
    BY <2>1, <2>3
  <2>5. ASSUME NEW j \in 1 .. i - 1 PROVE UserAt(kw, j) # UserAt(kw, i)
    <3>1. j \in 1 .. n /\ ~(i <= j)
      BY <2>4
    <3>2. j \notin S
      BY <2>3, <3>1
    <3>3. QED
      BY <2>1, <2>4, <3>1, <3>2
  <2>6. Matched(kw, u, i)
    BY <1>3, <2>4, <2>5 DEF Matched, IsFirst
  <2>7. QED
    BY <2>4, <2>6
<1>4. QED
  BY <1>1, <1>2, <1>3

(* Groups of table 1 and of table 2 in turn: those at the odd places and   *)
(* those at the even ones.                                                 *)
Turns(q, V, odd, even) ==
  /\ q \in Seq(V) /\ Len(q) % 2 = 0
  /\ \A x : AtOdd(q, x) <=> x \in odd
  /\ \A x : AtEven(q, x) <=> x \in even

AllTurns(s, n, V, odd, even) ==
  /\ n \in Nat /\ DOMAIN s = 1 .. n /\ s = [j \in 1 .. n |-> s[j]]
  /\ \A j \in 1 .. n : Turns(s[j], V, odd[j], even[j])

LEMMA FlattenTurns ==
  ASSUME NEW V, NEW n, NEW s, NEW odd, NEW even, AllTurns(s, n, V, odd, even)
  PROVE  Turns(FlattenSeq(s), V, UNION {odd[j] : j \in 1 .. n}, UNION {even[j] : j \in 1 .. n})
<1>1. s \in [1 .. n -> Seq(V)] /\ n \in Nat
  BY DEF Turns, AllTurns
<1>2. \A j \in 1 .. n : Len(s[j]) % 2 = 0
  BY DEF Turns, AllTurns
<1>3. PICK q : q = FlattenSeq(s)
  OBVIOUS
<1>4. /\ q \in Seq(V) /\ Len(q) % 2 = 0
      /\ \A x : AtOdd(q, x) <=> \E j \in 1 .. n : AtOdd(s[j], x)
      /\ \A x : AtEven(q, x) <=> \E j \in 1 .. n : AtEven(s[j], x)
  BY <1>1, <1>2, <1>3, FlattenPairs
<1>5. \A x : AtOdd(q, x) <=> x \in UNION {odd[j] : j \in 1 .. n}
  BY <1>4 DEF Turns, AllTurns
<1>6. \A x : AtEven(q, x) <=> x \in UNION {even[j] : j \in 1 .. n}
  BY <1>4 DEF Turns, AllTurns
<1>7. QED
  BY <1>3, <1>4, <1>5, <1>6 DEF Turns

LEMMA TurnsOfPair ==
  ASSUME NEW V, NEW g \in V, NEW h \in V
  PROVE  Turns(<<g, h>>, V, {g}, {h}) /\ Turns(<<>>, V, {}, {})
<1>1. PICK q : q = <<g, h>>
  OBVIOUS
<1>2. q \in Seq(V) /\ Len(q) = 2 /\ DOMAIN q = 1 .. 2 /\ q[1] = g /\ q[2] = h
  BY <1>1
<1>3. 1 % 2 = 1 /\ 2 % 2 = 0 /\ 1 .. 2 = {1, 2}
  OBVIOUS
<1>4. (\A x : AtOdd(q, x) <=> x \in {g}) /\ \A x : AtEven(q, x) <=> x \in {h}
  <2>1. \A x : AtOdd(q, x) <=> x = g
    BY <1>2, <1>3 DEF AtOdd
  <2>2. \A x : AtEven(q, x) <=> x = h
    BY <1>2, <1>3 DEF AtEven
  <2>3. QED
    BY <2>1, <2>2
<1>5. Len(q) % 2 = 0
  BY <1>2, <1>3
<1>6. Turns(<<>>, V, {}, {})
  BY DEF Turns, AtOdd, AtEven
<1>7. QED
  BY <1>1, <1>2, <1>4, <1>5, <1>6 DEF Turns

Found(kw, u) == FiledOf(rows[1], kw, u) # {} /\ UserIn2(u)
IfFound(kw, u, x) == IF Found(kw, u) THEN {x} ELSE {}

(* The answer for one token. *)
LEMMA TokenGives ==
  ASSUME JoinStored, built = Table, NEW kw, NEW u, NEW V, GroupOf1(kw, u) \in V, GroupOf2(u) \in V,
         NEW parts, parts = [i \in DOMAIN EntriesOf(kw) |-> parts[i]],
         \A i \in DOMAIN EntriesOf(kw) :
           parts[i] = IF Matched(kw, u, i) THEN PairFor(kw, u) ELSE <<>>
  PROVE  Turns(FlattenSeq(parts), V, IfFound(kw, u, GroupOf1(kw, u)), IfFound(kw, u, GroupOf2(u)))
<1>1. PICK n \in Nat : DOMAIN EntriesOf(kw) = 1 .. n
  BY EntryFacts
<1>2. PICK g, h : g = GroupOf1(kw, u) /\ h = GroupOf2(u)
  OBVIOUS
<1>3. Turns(<<g, h>>, V, {g}, {h}) /\ Turns(<<>>, V, {}, {})
  BY <1>2, TurnsOfPair
<1>4. PICK odd, even : /\ odd = [i \in 1 .. n |-> IF Matched(kw, u, i) THEN {g} ELSE {}]
                       /\ even = [i \in 1 .. n |-> IF Matched(kw, u, i) THEN {h} ELSE {}]
  OBVIOUS
<1>5. ASSUME NEW i \in 1 .. n PROVE Turns(parts[i], V, odd[i], even[i])
  <2>1. parts[i] = IF Matched(kw, u, i) THEN <<g, h>> ELSE <<>>
    BY <1>1, <1>2 DEF PairFor
  <2>2. CASE Matched(kw, u, i)
    BY <1>3, <1>4, <2>1, <2>2
  <2>3. CASE ~Matched(kw, u, i)
    BY <1>3, <1>4, <2>1, <2>3
  <2>4. QED
    BY <2>2, <2>3
<1>6. DOMAIN parts = 1 .. n /\ parts = [i \in 1 .. n |-> parts[i]]
  BY <1>1
<1>7. Turns(FlattenSeq(parts), V, UNION {odd[j] : j \in 1 .. n}, UNION {even[j] : j \in 1 .. n})
  <2>1. AllTurns(parts, n, V, odd, even)
    BY <1>5, <1>6 DEF AllTurns
  <2>2. QED
    BY <2>1, FlattenTurns
<1>8. (\E i \in 1 .. n : Matched(kw, u, i)) <=> Found(kw, u)
  BY <1>1, SomeMatch DEF Found
<1>9. UNION {odd[j] : j \in 1 .. n} = IfFound(kw, u, g)
  <2>1. \A x : x \in UNION {odd[j] : j \in 1 .. n} <=> x = g /\ \E i \in 1 .. n : Matched(kw, u, i)
    BY <1>4
  <2>2. \A x : x \in IfFound(kw, u, g) <=> x = g /\ Found(kw, u)
    BY DEF IfFound
  <2>3. QED
    BY <1>8, <2>1, <2>2
<1>10. UNION {even[j] : j \in 1 .. n} = IfFound(kw, u, h)
  <2>1. \A x : x \in UNION {even[j] : j \in 1 .. n} <=> x = h /\ \E i \in 1 .. n : Matched(kw, u, i)
    BY <1>4
  <2>2. \A x : x \in IfFound(kw, u, h) <=> x = h /\ Found(kw, u)
    BY DEF IfFound
  <2>3. QED
    BY <1>8, <2>1, <2>2
<1>11. QED
  BY <1>2, <1>7, <1>9, <1>10

(* The answer for one slot. *)
LEMMA SlotGives ==
  ASSUME JoinStored, built = Table, NEW s, NEW u, NEW hits, NEW V,
         GroupOf1(SlotKey(s), u) \in V, GroupOf2(u) \in V
  PROVE  Turns(RangeOf(s, u, hits), V, IfFound(SlotKey(s), u, GroupOf1(SlotKey(s), u)),
                                       IfFound(SlotKey(s), u, GroupOf2(u)))
<1>1. PICK kw, A, B : kw = SlotKey(s) /\ A = IfFound(kw, u, GroupOf1(kw, u)) /\ B = IfFound(kw, u, GroupOf2(u))
  OBVIOUS
<1>2. PICK parts : parts = [i \in DOMAIN EntriesOf(kw) |-> PairOf(kw, u, i, hits)]
  OBVIOUS
<1>3. Turns(FlattenSeq(parts), V, A, B)
  <2>1. \A i \in DOMAIN EntriesOf(kw) : parts[i] = IF Matched(kw, u, i) THEN PairFor(kw, u) ELSE <<>>
    BY <1>2, EntryGives
  <2>2. parts = [i \in DOMAIN EntriesOf(kw) |-> parts[i]]
    BY <1>2
  <2>3. GroupOf1(kw, u) \in V
    BY <1>1
  <2>4. QED
    BY <1>1, <2>1, <2>2, <2>3, TokenGives
<1>4. PICK n, F : F = FiledRows(rows[1], kw) /\ n = Cardinality(F)
  OBVIOUS
<1>5. rows[1] \in Seq(Row1 \cup Row2)
  BY DEF JoinStored, Table
<1>6. IsFiniteSet(F) /\ F \subseteq Int /\ PostingsOf(rows[1], kw) = Ascending(F)
  BY <1>4, <1>5, RowsOfTable DEF PostingsOf, FiledRows
<1>7. n \in Nat /\ DOMAIN PostingsOf(rows[1], kw) = 1 .. n /\ (n = 0 => F = {})
  BY <1>4, <1>6, AscendingFacts, FS_EmptySet
<1>8. PICK all : all = [m \in 1 .. n |-> FlattenSeq(parts)]
  OBVIOUS
<1>9. RangeOf(s, u, hits) = FlattenSeq(all)
  <2>1. TokensOf(s) = [m \in 1 .. n |-> kw]
    BY <1>1, <1>7 DEF TokensOf
  <2>2. DOMAIN TokensOf(s) = 1 .. n /\ \A m \in 1 .. n : TokensOf(s)[m] = kw
    BY <2>1
  <2>3. QED
    BY <1>2, <1>8, <2>2 DEF RangeOf
<1>10. PICK odd, even : odd = [m \in 1 .. n |-> A] /\ even = [m \in 1 .. n |-> B]
  OBVIOUS
<1>11. Turns(FlattenSeq(all), V, UNION {odd[j] : j \in 1 .. n}, UNION {even[j] : j \in 1 .. n})
  <2>1. DOMAIN all = 1 .. n /\ all = [j \in 1 .. n |-> all[j]]
    BY <1>8
  <2>2. \A j \in 1 .. n : Turns(all[j], V, odd[j], even[j])
    BY <1>3, <1>8, <1>10
  <2>3. AllTurns(all, n, V, odd, even)
    BY <1>7, <2>1, <2>2 DEF AllTurns
  <2>4. QED
    BY <2>3, FlattenTurns
<1>12. UNION {odd[j] : j \in 1 .. n} = A /\ UNION {even[j] : j \in 1 .. n} = B
  <2>1. CASE n = 0
    <3>1. FiledOf(rows[1], kw, u) = {}
      BY <1>4, <1>7, <2>1 DEF FiledOf, FiledRows
    <3>2. A = {} /\ B = {}
      BY <1>1, <3>1 DEF IfFound, Found
    <3>3. 1 .. n = {}
      BY <2>1
    <3>4. QED
      BY <3>2, <3>3
  <2>2. CASE n # 0
    <3>1. 1 \in 1 .. n
      BY <1>7, <2>2
    <3>2. QED
      BY <1>10, <3>1
  <2>3. QED
    BY <2>1, <2>2
<1>13. QED
  BY <1>1, <1>9, <1>11, <1>12

(* q has, in turn, the groups of the keywords and those of the user.       *)
AnswersBy(q, keys, k, u) ==
  \E V : Turns(q, V, UNION {IfFound(keys[n], u, GroupOf1(keys[n], u)) : n \in 1 .. k},
                     UNION {IfFound(keys[n], u, GroupOf2(u)) : n \in 1 .. k})

(* The answer by slots, and the one by cubes if the filter was right.      *)
LEMMA RangeGives ==
  ASSUME JoinStored, built = Table, NEW k \in Nat, NEW intervals,
         intervals = [n \in 1 .. k |-> intervals[n]], NEW u, NEW hits,
         NEW keys, keys = [n \in 1 .. k |-> SlotKey(intervals[n])]
  PROVE  AnswersBy(ResRange(intervals, u, hits), keys, k, u)
<1>1. PICK V : V = {GroupOf1(SlotKey(intervals[n]), u) : n \in 1 .. k} \cup {GroupOf2(u)}
  OBVIOUS
<1>2. PICK odd, even, parts :
        /\ odd = [n \in 1 .. k |-> IfFound(SlotKey(intervals[n]), u, GroupOf1(SlotKey(intervals[n]), u))]
        /\ even = [n \in 1 .. k |-> IfFound(SlotKey(intervals[n]), u, GroupOf2(u))]
        /\ parts = [n \in 1 .. k |-> RangeOf(intervals[n], u, hits)]
  OBVIOUS
<1>3. ASSUME NEW n \in 1 .. k PROVE Turns(parts[n], V, odd[n], even[n])
  <2>1. PICK s : s = intervals[n]
    OBVIOUS
  <2>2. GroupOf1(SlotKey(s), u) \in V /\ GroupOf2(u) \in V
    BY <1>1, <2>1
  <2>3. Turns(RangeOf(s, u, hits), V, IfFound(SlotKey(s), u, GroupOf1(SlotKey(s), u)),
                                      IfFound(SlotKey(s), u, GroupOf2(u)))
    BY <2>2, SlotGives
  <2>4. QED
    BY <1>2, <2>1, <2>3
<1>4. DOMAIN parts = 1 .. k /\ parts = [n \in 1 .. k |-> parts[n]] /\ DOMAIN intervals = 1 .. k
  BY <1>2
<1>5. Turns(FlattenSeq(parts), V, UNION {odd[j] : j \in 1 .. k}, UNION {even[j] : j \in 1 .. k})
  <2>1. AllTurns(parts, k, V, odd, even)
    BY <1>3, <1>4 DEF AllTurns
  <2>2. QED
    BY <2>1, FlattenTurns
<1>6. ResRange(intervals, u, hits) = FlattenSeq(parts)
  BY <1>2, <1>4 DEF ResRange
<1>7. /\ {odd[j] : j \in 1 .. k} = {IfFound(keys[n], u, GroupOf1(keys[n], u)) : n \in 1 .. k}
      /\ {even[j] : j \in 1 .. k} = {IfFound(keys[n], u, GroupOf2(u)) : n \in 1 .. k}
  BY <1>2
<1>8. QED
  BY <1>5, <1>6, <1>7 DEF AnswersBy

(* The answer by cubes if the filter was right. *)
LEMMA StagGives ==
  ASSUME JoinStored, built = Table, NEW k \in Nat, NEW keys,
         keys = [n \in 1 .. k |-> keys[n]], NEW u
  PROVE  AnswersBy(ResStag(keys, u, {}), keys, k, u)
<1>1. PICK V : V = {GroupOf1(keys[n], u) : n \in 1 .. k} \cup {GroupOf2(u)}
  OBVIOUS
<1>2. PICK odd, even, parts :
        /\ odd = [n \in 1 .. k |-> IfFound(keys[n], u, GroupOf1(keys[n], u))]
        /\ even = [n \in 1 .. k |-> IfFound(keys[n], u, GroupOf2(u))]
        /\ parts = [n \in 1 .. k |-> StagOf(keys[n], u, {})]
  OBVIOUS
<1>3. ASSUME NEW n \in 1 .. k PROVE Turns(parts[n], V, odd[n], even[n])
  <2>1. PICK kw : kw = keys[n]
    OBVIOUS
  <2>2. GroupOf1(kw, u) \in V /\ GroupOf2(u) \in V
    BY <1>1, <2>1
  <2>3. PICK p : p = [i \in DOMAIN EntriesOf(kw) |-> GroupsOf(kw, u, i, {})]
    OBVIOUS
  <2>4. p = [i \in DOMAIN EntriesOf(kw) |-> p[i]]
    BY <2>3
  <2>5. ASSUME NEW i \in DOMAIN EntriesOf(kw)
        PROVE  p[i] = IF Matched(kw, u, i) THEN PairFor(kw, u) ELSE <<>>
    <3>1. PICK hits : hits = {}
      OBVIOUS
    <3>2. /\ Matched(kw, u, i) => GroupsOf(kw, u, i, hits) = PairFor(kw, u)
          /\ ~Matched(kw, u, i) => \/ GroupsOf(kw, u, i, hits) = <<>>
                                   \/ hits # {}
      BY EntryGives
    <3>3. p[i] = GroupsOf(kw, u, i, hits)
      BY <2>3, <3>1
    <3>4. QED
      BY <3>1, <3>2, <3>3
  <2>6. Turns(FlattenSeq(p), V, IfFound(kw, u, GroupOf1(kw, u)), IfFound(kw, u, GroupOf2(u)))
    BY <2>2, <2>4, <2>5, TokenGives
  <2>7. StagOf(kw, u, {}) = FlattenSeq(p)
    BY <2>3 DEF StagOf
  <2>8. QED
    BY <1>2, <2>1, <2>6, <2>7
<1>4. DOMAIN parts = 1 .. k /\ parts = [n \in 1 .. k |-> parts[n]] /\ DOMAIN keys = 1 .. k
  BY <1>2
<1>5. Turns(FlattenSeq(parts), V, UNION {odd[j] : j \in 1 .. k}, UNION {even[j] : j \in 1 .. k})
  <2>1. AllTurns(parts, k, V, odd, even)
    BY <1>3, <1>4 DEF AllTurns
  <2>2. QED
    BY <2>1, FlattenTurns
<1>6. ResStag(keys, u, {}) = FlattenSeq(parts)
  BY <1>2, <1>4 DEF ResStag
<1>7. /\ {odd[j] : j \in 1 .. k} = {IfFound(keys[n], u, GroupOf1(keys[n], u)) : n \in 1 .. k}
      /\ {even[j] : j \in 1 .. k} = {IfFound(keys[n], u, GroupOf2(u)) : n \in 1 .. k}
  BY <1>2
<1>8. QED
  BY <1>5, <1>6, <1>7 DEF AnswersBy

(* Whatever the filter says, the answer by cubes has the group of a        *)
(* keyword under which both tables have rows of the user.                  *)
LEMMA StagOfHas ==
  ASSUME JoinStored, built = Table, NEW kw, NEW u, NEW hits, NEW V, GroupOf2(u) \in V,
         \A v : GroupOf1(kw, v) \in V \/ FiledOf(rows[1], kw, v) = {}
  PROVE  /\ StagOf(kw, u, hits) \in Seq(V)
         /\ Found(kw, u) => GroupOf1(kw, u) \in Range(StagOf(kw, u, hits))
<1>1. PICK n \in Nat : /\ DOMAIN EntriesOf(kw) = 1 .. n
                       /\ \A i \in 1 .. n : FiledOf(rows[1], kw, UserAt(kw, i)) # {}
  BY EntryFacts
<1>2. PICK parts : parts = [i \in 1 .. n |-> GroupsOf(kw, u, i, hits)]
  OBVIOUS
<1>3. \A i \in 1 .. n : GroupOf1(kw, UserAt(kw, i)) \in V
  BY <1>1
<1>4. ASSUME NEW i \in 1 .. n
      PROVE  /\ parts[i] \in Seq(V)
             /\ Matched(kw, u, i) => GroupOf1(kw, u) \in Range(parts[i])
  <2>1. i \in DOMAIN EntriesOf(kw)
    BY <1>1
  <2>2. PICK g, h, w : g = GroupOf1(kw, u) /\ h = GroupOf2(u) /\ w = GroupOf1(kw, UserAt(kw, i))
    OBVIOUS
  <2>3. h \in V /\ w \in V
    BY <1>3, <2>2
  <2>4. CASE Matched(kw, u, i)
    <3>1. parts[i] = <<g, h>>
      BY <1>2, <2>1, <2>2, <2>4, EntryGives DEF PairFor
    <3>2. g = w
      BY <2>2, <2>4 DEF Matched
    <3>3. parts[i] \in Seq(V)
      BY <2>3, <3>1, <3>2
    <3>4. 1 \in DOMAIN parts[i] /\ parts[i][1] = g
      BY <3>1
    <3>5. QED
      BY <2>2, <3>3, <3>4 DEF Range
  <2>5. CASE ~Matched(kw, u, i)
    <3>1. parts[i] = <<>> \/ parts[i] = <<w>>
      BY <1>2, <2>1, <2>2, <2>5, EntryGives
    <3>2. <<>> \in Seq(V) /\ <<w>> \in Seq(V)
      BY <2>3
    <3>3. QED
      BY <2>5, <3>1, <3>2
  <2>6. QED
    BY <2>4, <2>5
<1>5. parts \in [1 .. n -> Seq(V)]
  BY <1>2, <1>4
<1>6. StagOf(kw, u, hits) = FlattenSeq(parts)
  BY <1>1, <1>2 DEF StagOf
<1>7. FlattenSeq(parts) \in Seq(V)
  BY <1>5, FlattenRange
<1>8. ASSUME Found(kw, u) PROVE GroupOf1(kw, u) \in Range(FlattenSeq(parts))
  <2>1. PICK i \in DOMAIN EntriesOf(kw) : Matched(kw, u, i)
    BY <1>8, SomeMatch DEF Found
  <2>2. i \in 1 .. n
    BY <1>1, <2>1
  <2>3. GroupOf1(kw, u) \in Range(parts[i])
    BY <1>4, <2>1, <2>2
  <2>4. QED
    BY <1>5, <2>2, <2>3, FlattenRange
<1>9. QED
  BY <1>6, <1>7, <1>8

(* A group of table 1 under one of the keywords, or the user's of table 2. *)
AnyGroup(group, keys, k, u) ==
  group = GroupOf2(u) \/ \E n \in 1 .. k : \E v : group = GroupOf1(keys[n], v)

LEMMA StagHas ==
  ASSUME JoinStored, built = Table, NEW k \in Nat, NEW keys,
         keys = [n \in 1 .. k |-> keys[n]], NEW u, NEW hits
  PROVE  /\ \A n \in 1 .. k :
              Found(keys[n], u) => GroupOf1(keys[n], u) \in Range(ResStag(keys, u, hits))
         /\ \A n \in DOMAIN ResStag(keys, u, hits) : AnyGroup(ResStag(keys, u, hits)[n], keys, k, u)
<1>1. PICK Users1 : Users1 = {rows[1][i].user : i \in DOMAIN rows[1]}
  OBVIOUS
<1>2. PICK V : /\ \A m \in 1 .. k, v \in Users1 : GroupOf1(keys[m], v) \in V
               /\ GroupOf2(u) \in V
               /\ \A group \in V : AnyGroup(group, keys, k, u)
  <2>1. PICK g : g = [m \in 1 .. k |-> {GroupOf1(keys[m], v) : v \in Users1}]
    OBVIOUS
  <2>2. PICK U, h : U = UNION {g[m] : m \in 1 .. k} /\ h = GroupOf2(u)
    OBVIOUS
  <2>3. ASSUME NEW m \in 1 .. k, NEW v \in Users1 PROVE GroupOf1(keys[m], v) \in U
    <3>1. GroupOf1(keys[m], v) \in g[m]
      BY <2>1
    <3>2. QED
      BY <2>2, <3>1
  <2>4. PICK V : V = U \cup {h}
    OBVIOUS
  <2>5. (\A m \in 1 .. k, v \in Users1 : GroupOf1(keys[m], v) \in V) /\ GroupOf2(u) \in V
    BY <2>2, <2>3, <2>4
  <2>6. ASSUME NEW group \in V PROVE AnyGroup(group, keys, k, u)
    <3>1. CASE group = h
      BY <2>2, <3>1 DEF AnyGroup
    <3>2. CASE group # h
      <4>1. PICK m \in 1 .. k : group \in g[m]
        BY <2>2, <2>4, <3>2
      <4>2. PICK v \in Users1 : group = GroupOf1(keys[m], v)
        BY <2>1, <4>1
      <4>3. QED
        BY <4>2 DEF AnyGroup
    <3>3. QED
      BY <3>1, <3>2
  <2>7. QED
    BY <2>5, <2>6
<1>3. PICK parts : parts = [m \in 1 .. k |-> StagOf(keys[m], u, hits)]
  OBVIOUS
<1>4. ASSUME NEW m \in 1 .. k
      PROVE  /\ parts[m] \in Seq(V)
             /\ Found(keys[m], u) => GroupOf1(keys[m], u) \in Range(parts[m])
  <2>1. PICK kw : kw = keys[m]
    OBVIOUS
  <2>2. ASSUME NEW v, FiledOf(rows[1], kw, v) # {} PROVE GroupOf1(kw, v) \in V
    <3>1. PICK i : i \in FiledOf(rows[1], kw, v)
      BY <2>2
    <3>2. v \in Users1
      BY <1>1, <3>1 DEF FiledOf
    <3>3. QED
      BY <1>2, <2>1, <3>2
  <2>3. GroupOf2(u) \in V
    BY <1>2
  <2>4. /\ StagOf(kw, u, hits) \in Seq(V)
        /\ Found(kw, u) => GroupOf1(kw, u) \in Range(StagOf(kw, u, hits))
    BY <2>2, <2>3, StagOfHas
  <2>5. QED
    BY <1>3, <2>1, <2>4
<1>5. parts \in [1 .. k -> Seq(V)]
  BY <1>3, <1>4
<1>6. ResStag(keys, u, hits) = FlattenSeq(parts)
  BY <1>3 DEF ResStag
<1>7. PICK q : q = ResStag(keys, u, hits) /\ q \in Seq(V)
  BY <1>5, <1>6, FlattenRange
<1>8. ASSUME NEW n \in DOMAIN q PROVE AnyGroup(q[n], keys, k, u)
  <2>1. q[n] \in V
    BY <1>7
  <2>2. QED
    BY <1>2, <2>1
<1>9. \A n \in 1 .. k : Found(keys[n], u) => GroupOf1(keys[n], u) \in Range(ResStag(keys, u, hits))
  BY <1>4, <1>5, <1>6, FlattenRange
<1>10. QED
  BY <1>7, <1>8, <1>9

LEMMA SetToSeqFacts ==
  ASSUME NEW S, IsFiniteSet(S)
  PROVE  \E n \in Nat : /\ SetToSeq(S) \in [1 .. n -> S]
                        /\ \A x \in S : \E i \in 1 .. n : SetToSeq(S)[i] = x
<1>1. PICK n \in Nat : n = Cardinality(S) /\ ExistsBijection(1 .. n, S)
  BY FS_CardinalityType
<1>2. \E f \in [1 .. n -> S] : IsInjective(f)
  BY <1>1 DEF ExistsBijection, Bijection, Injection
<1>3. PICK f : f = SetToSeq(S)
  OBVIOUS
<1>4. f \in [1 .. n -> S] /\ IsInjective(f)
  BY <1>1, <1>2, <1>3 DEF SetToSeq
<1>5. f \in Injection(1 .. n, S)
  BY <1>4 DEF Injection
<1>6. Cardinality(1 .. n) = n
  BY FS_Interval
<1>7. f \in Surjection(1 .. n, S)
  BY <1>1, <1>5, <1>6, FS_Injection
<1>8. QED
  BY <1>3, <1>4, <1>7 DEF Surjection

LEMMA FiniteFunctions ==
  ASSUME NEW A, NEW B, IsFiniteSet(A), IsFiniteSet(B)
  PROVE  IsFiniteSet([A -> B])
<1>1. PICK P, F : P = SUBSET (A \X B) /\ F = [A -> B]
  OBVIOUS
<1>2. IsFiniteSet(P)
  BY <1>1, FS_Product, FS_SUBSET
<1>3. PICK g : g = [f \in F |-> {<<a, f[a]>> : a \in A}]
  OBVIOUS
<1>4. ASSUME NEW f \in F PROVE g[f] \in P
  <2>1. \A a \in A : <<a, f[a]>> \in A \X B
    BY <1>1
  <2>2. QED
    BY <1>1, <1>3, <2>1
<1>5. ASSUME NEW f \in F, NEW h \in F, g[f] = g[h] PROVE f = h
  <2>1. ASSUME NEW a \in A PROVE f[a] = h[a]
    <3>1. PICK p : p = <<a, f[a]>>
      OBVIOUS
    <3>2. p \in g[h]
      BY <1>3, <1>5, <3>1
    <3>3. PICK b \in A : p = <<b, h[b]>>
      BY <1>3, <3>2
    <3>4. p[1] = a /\ p[2] = f[a] /\ p[1] = b /\ p[2] = h[b]
      BY <3>1, <3>3
    <3>5. QED
      BY <3>4
  <2>2. QED
    BY <1>1, <2>1
<1>6. g \in Injection(F, P)
  <2>1. g \in [F -> P]
    BY <1>3, <1>4
  <2>2. IsInjective(g)
    BY <1>3, <1>5 DEF IsInjective
  <2>3. QED
    BY <2>1, <2>2 DEF Injection
<1>7. IsFiniteSet(F)
  BY <1>2, <1>6, FS_Injection
<1>8. QED
  BY <1>1, <1>7

(* A box is made up of finitely many cubes.                                *)
LEMMA FewCubes ==
  ASSUME NEW box
  PROVE  IsFiniteSet(QueryCubeCodes(box)) /\ IsFiniteSet({CubeKey(c) : c \in QueryCubeCodes(box)})
<1>1. IsFiniteSet(Coord) /\ Levels \in Nat
  BY JoinAssumption
<1>2. ASSUME NEW l \in Nat PROVE IsFiniteSet(CubesOf(l))
  <2>1. PICK F : F = [Coord -> 0 .. Pow2[l] - 1]
    OBVIOUS
  <2>2. Pow2[l] \in Nat
    BY Pow2Facts
  <2>3. IsFiniteSet(0 .. Pow2[l] - 1)
    BY <2>2, FS_Interval
  <2>4. IsFiniteSet(F)
    BY <1>1, <2>1, <2>3, FiniteFunctions
  <2>5. PICK f : f = [p \in F |-> [level |-> l, place |-> p]]
    OBVIOUS
  <2>6. IsFiniteSet({f[p] : p \in F})
    BY <2>4, FiniteImage
  <2>7. ASSUME NEW c \in CubesOf(l) PROVE c \in {f[p] : p \in F}
    <3>1. c.place \in F /\ c = [level |-> l, place |-> c.place]
      BY <2>1, <2>7 DEF CubesOf
    <3>2. QED
      BY <2>5, <3>1
  <2>8. CubesOf(l) \in SUBSET {f[p] : p \in F}
    BY <2>7
  <2>9. QED
    BY <2>6, <2>8, FS_Subset
<1>3. PICK C : C = {CubesOf(l) : l \in 0 .. Levels}
  OBVIOUS
<1>4. IsFiniteSet(C)
  <2>1. PICK f : f = [l \in 0 .. Levels |-> CubesOf(l)]
    OBVIOUS
  <2>2. IsFiniteSet(0 .. Levels)
    BY <1>1, FS_Interval
  <2>3. IsFiniteSet({f[l] : l \in 0 .. Levels})
    BY <2>2, FiniteImage
  <2>4. C = {f[l] : l \in 0 .. Levels}
    BY <1>3, <2>1
  <2>5. QED
    BY <2>3, <2>4
<1>5. \A D \in C : IsFiniteSet(D)
  BY <1>1, <1>2, <1>3
<1>6. IsFiniteSet(UNION C)
  BY <1>4, <1>5, FS_UNION
<1>7. QueryCubeCodes(box) \in SUBSET UNION C
  BY <1>3 DEF QueryCubeCodes
<1>8. IsFiniteSet(QueryCubeCodes(box))
  BY <1>6, <1>7, FS_Subset
<1>9. PICK Q : Q = QueryCubeCodes(box)
  OBVIOUS
<1>10. PICK f : f = [c \in Q |-> CubeKey(c)]
  OBVIOUS
<1>11. IsFiniteSet({f[c] : c \in Q})
  BY <1>8, <1>9, FiniteImage
<1>12. {f[c] : c \in Q} = {CubeKey(c) : c \in QueryCubeCodes(box)}
  BY <1>9, <1>10
<1>13. QED
  BY <1>8, <1>11, <1>12

(* What a search leaves, for its query, for slots that hold all rows in    *)
(* the query's cubes, and for a filter that says yes to hits.              *)
ResultFor(u, box, time, named, hits) ==
  LET cubes == {CubeKey(c) : c \in QueryCubeCodes(box)}
  IN [kind |-> "found", user |-> u, box |-> box, time |-> time,
      intervals |-> Ascending(named), cubes |-> cubes, hits |-> hits,
      range |-> ResRange(Ascending(named), u, hits),
      stag |-> ResStag(SetToSeq(cubes), u, hits)]

Answers(u, box, time, named, hits) ==
  /\ box \in Box /\ time \in Times /\ named \subseteq QuerySlots(time[1], time[2])
  /\ SlotsIn({CubeKey(c) : c \in QueryCubeCodes(box)}, QuerySlots(time[1], time[2])) \subseteq named
  /\ result = ResultFor(u, box, time, named, hits)

ResultStands ==
  result # NoResult => \E u, box, time, named, hits : Answers(u, box, time, named, hits)

JoinInv == JoinStored /\ ResultStands

LEMMA RowFacts ==
  ASSUME JoinStored
  PROVE  /\ \A u : FiledOf(rows[2], UserKey(u), u) = {j \in DOMAIN rows[2] : rows[2][j].user = u}
         /\ \A i \in DOMAIN rows[1] : rows[1][i].slot \in Int /\ rows[1][i].point \in [Coord -> Int]
         /\ rows[1] \in Seq(Row1 \cup Row2) /\ rows[2] \in Seq(Row1 \cup Row2)
<1>1. rows[1] \in Seq(Row1 \cup Row2) /\ rows[2] \in Seq(Row1 \cup Row2)
  BY DEF JoinStored, Table
<1>2. ASSUME NEW i \in DOMAIN rows[1]
      PROVE  rows[1][i].slot \in Int /\ rows[1][i].point \in [Coord -> Int]
  <2>1. rows[1][i] \in Row1 \cup Row2
    BY <1>1
  <2>2. QED
    BY <2>1, JoinAssumption
<1>3. ASSUME NEW u
      PROVE  FiledOf(rows[2], UserKey(u), u) = {j \in DOMAIN rows[2] : rows[2][j].user = u}
  <2>1. \A j : UserKey(u) \in KeywordsOf(rows[2][j]) <=> rows[2][j].user = u
    BY KeywordFacts
  <2>2. QED
    BY <2>1 DEF FiledOf
<1>4. QED
  BY <1>1, <1>2, <1>3

(* The ids of the groups that a search for the user may find.              *)
LEMMA GroupIds ==
  ASSUME JoinStored, NEW u, u = result.user
  PROVE  /\ IdsIn(GroupOf2(u)) = UserRows(2)
         /\ UserIn2(u) <=> UserRows(2) # {}
         /\ \A kw, x : x \in IdsIn(GroupOf1(kw, u)) <=>
                         x \in UserRows(1) /\ kw \in KeywordsOf(rows[1][x[2]])
         /\ \A kw : FiledOf(rows[1], kw, u) # {} <=> IdsIn(GroupOf1(kw, u)) # {}
         /\ \A x \in UserRows(1) : x[1] = 1 /\ x[2] \in DOMAIN rows[1] /\ rows[1][x[2]].user = u
         /\ \A x \in UserRows(2) : x[1] = 2
<1>1. rows[1] \in Seq(Row1 \cup Row2) /\ rows[2] \in Seq(Row1 \cup Row2)
  BY RowFacts
<1>2. PICK F : F = FiledOf(rows[2], UserKey(u), u)
  OBVIOUS
<1>3. F = {j \in DOMAIN rows[2] : rows[2][j].user = u}
  BY <1>2, RowFacts
<1>4. IdsIn(GroupOf2(u)) = {<<2, i>> : i \in F}
  BY <1>1, <1>2, GroupFacts DEF GroupOf2
<1>5. UserRows(2) = {<<2, i>> : i \in F}
  BY <1>3 DEF UserRows
<1>6. UserIn2(u) <=> F # {}
  BY <1>2 DEF UserIn2
<1>7. \A x : x \in UserRows(1) <=> \E i \in DOMAIN rows[1] : rows[1][i].user = u /\ x = <<1, i>>
  BY DEF UserRows
<1>8. ASSUME NEW kw, NEW x
      PROVE  x \in IdsIn(GroupOf1(kw, u)) <=> x \in UserRows(1) /\ kw \in KeywordsOf(rows[1][x[2]])
  <2>1. PICK G : G = FiledOf(rows[1], kw, u)
    OBVIOUS
  <2>2. IdsIn(GroupOf1(kw, u)) = {<<1, i>> : i \in G}
    BY <1>1, <2>1, GroupFacts DEF GroupOf1
  <2>3. \A i : i \in G <=> i \in DOMAIN rows[1] /\ kw \in KeywordsOf(rows[1][i]) /\ rows[1][i].user = u
    BY <2>1 DEF FiledOf
  <2>4. \A i : x = <<1, i>> => x[2] = i
    OBVIOUS
  <2>5. QED
    BY <1>7, <2>2, <2>3, <2>4
<1>9. ASSUME NEW kw PROVE FiledOf(rows[1], kw, u) # {} <=> IdsIn(GroupOf1(kw, u)) # {}
  <2>1. IdsIn(GroupOf1(kw, u)) = {<<1, i>> : i \in FiledOf(rows[1], kw, u)}
    BY <1>1, GroupFacts DEF GroupOf1
  <2>2. QED
    BY <2>1
<1>10. \A x \in UserRows(1) : x[1] = 1 /\ x[2] \in DOMAIN rows[1] /\ rows[1][x[2]].user = u
  BY <1>7
<1>11. \A x \in UserRows(2) : x[1] = 2
  BY <1>5
<1>12. IdsIn(GroupOf2(u)) = UserRows(2) /\ (UserIn2(u) <=> UserRows(2) # {})
  BY <1>4, <1>5, <1>6
<1>13. QED
  BY <1>8, <1>9, <1>10, <1>11, <1>12

KeysOf(keys, k) == {keys[n] : n \in 1 .. k}

OddIds(q) == UNION {IdsIn(q[n]) : n \in {m \in DOMAIN q : m % 2 = 1}}

LEMMA TurnsHold ==
  ASSUME JoinStored, NEW u, u = result.user, NEW k \in Nat, NEW keys, NEW q, AnswersBy(q, keys, k, u)
  PROVE  /\ q \in Seq(Range(q)) /\ Len(q) % 2 = 0
         /\ \A n \in DOMAIN q : n % 2 = 0 \/ n % 2 = 1
         /\ \A n \in DOMAIN q : n % 2 = 0 => q[n] = GroupOf2(u)
         /\ \A n \in DOMAIN q : n % 2 = 1 =>
              /\ n + 1 \in DOMAIN q /\ q[n + 1] = GroupOf2(u)
              /\ \E j \in 1 .. k : q[n] = GroupOf1(keys[j], u)
         /\ OddIds(q) = Joined(FiledUnder(KeysOf(keys, k)))
         /\ DOMAIN q # {} => OddIds(q) # {}
<1>1. PICK V, odd, even :
        /\ Turns(q, V, odd, even)
        /\ odd = UNION {IfFound(keys[n], u, GroupOf1(keys[n], u)) : n \in 1 .. k}
        /\ even = UNION {IfFound(keys[n], u, GroupOf2(u)) : n \in 1 .. k}
  BY DEF AnswersBy
<1>2. PICK len \in Nat : len = Len(q) /\ DOMAIN q = 1 .. len /\ len % 2 = 0
  BY <1>1 DEF Turns
<1>3. /\ \A x : AtOdd(q, x) <=> x \in odd
      /\ \A x : AtEven(q, x) <=> x \in even
  BY <1>1 DEF Turns
<1>4. ASSUME NEW x \in odd
      PROVE  \E j \in 1 .. k : x = GroupOf1(keys[j], u) /\ Found(keys[j], u)
  <2>1. PICK j \in 1 .. k : x \in IfFound(keys[j], u, GroupOf1(keys[j], u))
    BY <1>1
  <2>2. QED
    BY <2>1 DEF IfFound
<1>5. ASSUME NEW j \in 1 .. k, Found(keys[j], u) PROVE GroupOf1(keys[j], u) \in odd
  BY <1>1, <1>5 DEF IfFound
<1>6. ASSUME NEW x \in even PROVE x = GroupOf2(u)
  <2>1. PICK j \in 1 .. k : x \in IfFound(keys[j], u, GroupOf2(u))
    BY <1>1
  <2>2. QED
    BY <2>1 DEF IfFound
<1>7. ASSUME NEW n \in DOMAIN q PROVE n % 2 = 0 \/ n % 2 = 1
  BY <1>2
<1>8. ASSUME NEW n \in DOMAIN q, n % 2 = 0 PROVE q[n] = GroupOf2(u)
  <2>1. AtEven(q, q[n])
    BY <1>8 DEF AtEven
  <2>2. QED
    BY <1>3, <1>6, <2>1
<1>9. ASSUME NEW n \in DOMAIN q, n % 2 = 1
      PROVE  /\ n + 1 \in DOMAIN q /\ q[n + 1] = GroupOf2(u)
             /\ \E j \in 1 .. k : q[n] = GroupOf1(keys[j], u)
  <2>1. n \in 1 .. len /\ n # len
    BY <1>2, <1>9
  <2>2. n + 1 \in 1 .. len /\ (n + 1) % 2 = 0
    BY <1>2, <1>9, <2>1
  <2>3. AtOdd(q, q[n])
    BY <1>9 DEF AtOdd
  <2>4. QED
    BY <1>2, <1>3, <1>4, <1>8, <2>2, <2>3
<1>10. PICK K, odds : K = KeysOf(keys, k) /\ odds = {m \in DOMAIN q : m % 2 = 1}
  OBVIOUS
<1>11. /\ UserIn2(u) <=> UserRows(2) # {}
       /\ \A kw, x : x \in IdsIn(GroupOf1(kw, u)) <=>
                       x \in UserRows(1) /\ kw \in KeywordsOf(rows[1][x[2]])
       /\ \A kw : FiledOf(rows[1], kw, u) # {} <=> IdsIn(GroupOf1(kw, u)) # {}
  BY GroupIds
<1>12. ASSUME NEW x PROVE x \in Joined(FiledUnder(K)) <=>
                            /\ UserRows(2) # {} /\ x \in UserRows(1)
                            /\ \E j \in 1 .. k : keys[j] \in KeywordsOf(rows[1][x[2]])
  <2>1. \A kw : kw \in K <=> \E j \in 1 .. k : keys[j] = kw
    BY <1>10 DEF KeysOf
  <2>2. x \in FiledUnder(K) <=> x \in UserRows(1) /\ \E kw \in K : kw \in KeywordsOf(rows[1][x[2]])
    BY DEF FiledUnder
  <2>3. QED
    BY <2>1, <2>2 DEF Joined
<1>13. ASSUME NEW n \in odds, NEW x \in IdsIn(q[n]) PROVE x \in Joined(FiledUnder(K))
  <2>1. n \in DOMAIN q /\ n % 2 = 1
    BY <1>10
  <2>2. q[n] \in odd
    BY <1>3, <2>1 DEF AtOdd
  <2>3. PICK j \in 1 .. k : q[n] = GroupOf1(keys[j], u) /\ Found(keys[j], u)
    BY <1>4, <2>2
  <2>4. x \in UserRows(1) /\ keys[j] \in KeywordsOf(rows[1][x[2]]) /\ UserIn2(u)
    BY <1>11, <2>3 DEF Found
  <2>5. QED
    BY <1>11, <1>12, <2>4
<1>14. ASSUME NEW x \in Joined(FiledUnder(K)) PROVE \E n \in odds : x \in IdsIn(q[n])
  <2>1. PICK j \in 1 .. k : keys[j] \in KeywordsOf(rows[1][x[2]])
    BY <1>12
  <2>2. UserIn2(u) /\ x \in IdsIn(GroupOf1(keys[j], u))
    BY <1>11, <1>12, <2>1
  <2>3. Found(keys[j], u)
    BY <1>11, <2>2 DEF Found
  <2>4. GroupOf1(keys[j], u) \in odd
    BY <1>5, <2>3
  <2>5. PICK n \in DOMAIN q : n % 2 = 1 /\ q[n] = GroupOf1(keys[j], u)
    BY <1>3, <2>4 DEF AtOdd
  <2>6. QED
    BY <1>10, <2>2, <2>5
<1>15. OddIds(q) = Joined(FiledUnder(K))
  <2>1. UNION {IdsIn(q[n]) : n \in odds} = Joined(FiledUnder(K))
    BY <1>13, <1>14
  <2>2. QED
    BY <1>10, <2>1 DEF OddIds
<1>16. q \in Seq(Range(q))
  <2>1. q \in Seq(V)
    BY <1>1 DEF Turns
  <2>2. \A n \in 1 .. len : q[n] \in Range(q)
    BY <1>2 DEF Range
  <2>3. q = [n \in 1 .. len |-> q[n]]
    BY <1>2, <2>1
  <2>4. q \in [1 .. len -> Range(q)]
    BY <2>2, <2>3
  <2>5. QED
    BY <2>4
<1>17. Len(q) % 2 = 0
  BY <1>2
<1>18. ASSUME NEW n \in DOMAIN q PROVE OddIds(q) # {}
  <2>1. 1 \in DOMAIN q /\ 1 % 2 = 1
    BY <1>2
  <2>2. q[1] \in odd
    BY <1>3, <2>1 DEF AtOdd
  <2>3. PICK j \in 1 .. k : q[1] = GroupOf1(keys[j], u) /\ Found(keys[j], u)
    BY <1>4, <2>2
  <2>4. IdsIn(q[1]) # {}
    BY <1>11, <2>3 DEF Found
  <2>5. QED
    BY <2>1, <2>4 DEF OddIds
<1>19. QED
  BY <1>7, <1>8, <1>9, <1>10, <1>15, <1>16, <1>17, <1>18

LEMMA DivisionGrows ==
  ASSUME NEW x \in Int, NEW z \in Int, x <= z, NEW y \in Nat \ {0}
  PROVE  x \div y <= z \div y
<1>1. PICK a \in Int, b \in Int, p \in Int, q \in Int :
        /\ a = x \div y /\ b = z \div y /\ p = y * a /\ q = y * b
        /\ p <= x /\ z < q + y
  <2>1. /\ x \div y \in Int /\ y * (x \div y) \in Int /\ y * (x \div y) <= x
        /\ z \div y \in Int /\ y * (z \div y) \in Int /\ z < y * (z \div y) + y
    BY DivisionFacts
  <2>2. QED
    BY <2>1
<1>2. SUFFICES ASSUME b < a PROVE FALSE
  BY <1>1
<1>3. PICK d \in Nat : a = (b + 1) + d
  <2>1. a - (b + 1) \in Nat /\ a = (b + 1) + (a - (b + 1))
    BY <1>1, <1>2
  <2>2. QED
    BY <2>1
<1>4. y * a = (y * b + y) + y * d
  BY <1>1, <1>3
<1>5. y * d \in Nat
  OBVIOUS
<1>6. QED
  BY <1>1, <1>4, <1>5

(* The slots of a query lie between its start and its last day, and all    *)
(* slots between its start and end that table 1 has rows in are among them.*)
LEMMA SlotFacts ==
  ASSUME JoinStored, NEW start \in Int, NEW end \in Int, NEW slots, slots = QuerySlots(start, end)
  PROVE  /\ IsFiniteSet(slots) /\ slots \subseteq Int
         /\ \A s \in slots : start <= s /\ DayOf(s) <= DayOf(end)
         /\ \A i \in DOMAIN rows[1] :
              LET s == rows[1][i].slot IN start <= s /\ s <= end => s \in slots
<1>0. SlotsPerDay \in Nat \ {0}
  BY JoinAssumption
<1>1. ASSUME NEW x \in Int, NEW z \in Int, x <= z PROVE DayOf(x) <= DayOf(z)
  BY <1>0, <1>1, DivisionGrows DEF DayOf
<1>2. \A x \in Int : DayOf(x) \in Int
  BY <1>0, DivisionFacts DEF DayOf
<1>3. PICK table : table = rows[1]
  OBVIOUS
<1>4. \A s : s \in slots <=> \E i \in DOMAIN table :
        /\ table[i].slot = s
        /\ DayOf(s) \in DayOf(start) .. DayOf(end) /\ (DayOf(s) = DayOf(start) => start <= s)
  <2>1. \A r : r \in Range(table) <=> \E i \in DOMAIN table : table[i] = r
    BY DEF Range
  <2>2. \A s : s \in slots <=> \E r \in Range(table) :
          /\ r.slot = s
          /\ DayOf(s) \in DayOf(start) .. DayOf(end) /\ (DayOf(s) = DayOf(start) => start <= s)
    BY <1>3 DEF QuerySlots
  <2>3. QED
    BY <2>1, <2>2
<1>5. \A i \in DOMAIN table : table[i].slot \in Int
  BY <1>3, RowFacts
<1>6. IsFiniteSet(slots)
  <2>1. PICK f : f = [i \in DOMAIN table |-> table[i].slot]
    OBVIOUS
  <2>2. IsFiniteSet(DOMAIN table)
    BY <1>3, RowFacts, RowsOfTable
  <2>3. IsFiniteSet({f[i] : i \in DOMAIN table})
    BY <2>2, FiniteImage
  <2>4. slots \in SUBSET {f[i] : i \in DOMAIN table}
    BY <1>4, <2>1
  <2>5. QED
    BY <2>3, <2>4, FS_Subset
<1>7. slots \subseteq Int
  BY <1>4, <1>5
<1>8. ASSUME NEW s \in slots PROVE start <= s /\ DayOf(s) <= DayOf(end)
  <2>1. /\ s \in Int /\ DayOf(s) \in Int /\ DayOf(start) \in Int /\ DayOf(end) \in Int
    BY <1>2, <1>7
  <2>2. DayOf(s) \in DayOf(start) .. DayOf(end) /\ (DayOf(s) = DayOf(start) => start <= s)
    BY <1>4
  <2>3. ASSUME s < start PROVE FALSE
    <3>1. DayOf(s) <= DayOf(start)
      BY <1>1, <2>1, <2>3
    <3>2. QED
      BY <2>1, <2>2, <2>3, <3>1
  <2>4. QED
    BY <2>1, <2>2, <2>3
<1>9. ASSUME NEW i \in DOMAIN table, start <= table[i].slot, table[i].slot <= end
      PROVE  table[i].slot \in slots
  <2>1. PICK s \in Int : s = table[i].slot
    BY <1>5
  <2>2. DayOf(start) <= DayOf(s) /\ DayOf(s) <= DayOf(end)
    BY <1>1, <1>9, <2>1
  <2>3. DayOf(s) \in DayOf(start) .. DayOf(end)
    BY <1>2, <2>1, <2>2
  <2>4. QED
    BY <1>4, <1>9, <2>1, <2>3
<1>10. QED
  BY <1>3, <1>6, <1>7, <1>8, <1>9

(* The last result, taken apart.                                           *)
SlotKeys == [n \in 1 .. Len(result.intervals) |-> SlotKey(result.intervals[n])]

LEMMA ResultFacts ==
  ASSUME JoinInv, result.kind = "found"
  PROVE  /\ built = Table
         /\ \E k \in Nat :
              /\ Len(result.intervals) = k /\ DOMAIN result.intervals = 1 .. k
              /\ result.intervals = [n \in 1 .. k |-> result.intervals[n]]
              /\ AnswersBy(result.range, SlotKeys, k, result.user)
              /\ KeysOf(SlotKeys, k) = {SlotKey(result.intervals[n]) : n \in DOMAIN result.intervals}
         /\ \E m \in Nat : \E keys :
              /\ keys = [n \in 1 .. m |-> keys[n]] /\ KeysOf(keys, m) = result.cubes
              /\ result.stag = ResStag(keys, result.user, result.hits)
         /\ result.box \in Box /\ result.time \in Times
         /\ result.cubes = {CubeKey(c) : c \in QueryCubeCodes(result.box)}
         /\ LET slots == QuerySlots(result.time[1], result.time[2])
            IN \A s : /\ (\E n \in DOMAIN result.intervals : result.intervals[n] = s) => s \in slots
                      /\ s \in SlotsIn(result.cubes, slots) =>
                           \E n \in DOMAIN result.intervals : result.intervals[n] = s
         /\ result.range = ResRange(result.intervals, result.user, result.hits)
<1>1. result # NoResult
  BY DEF NoResult
<1>2. PICK u, box, time, named, hits : Answers(u, box, time, named, hits)
  BY <1>1 DEF JoinInv, ResultStands
<1>3. built = Table /\ JoinStored
  BY <1>1 DEF JoinInv, JoinStored
<1>4. PICK cubes, slots, intervals : /\ cubes = {CubeKey(c) : c \in QueryCubeCodes(box)}
                                     /\ slots = QuerySlots(time[1], time[2]) /\ intervals = Ascending(named)
  OBVIOUS
<1>5. /\ box \in Box /\ time \in Times /\ named \subseteq slots /\ SlotsIn(cubes, slots) \subseteq named
      /\ result = [kind |-> "found", user |-> u, box |-> box, time |-> time,
                   intervals |-> intervals, cubes |-> cubes, hits |-> hits,
                   range |-> ResRange(intervals, u, hits), stag |-> ResStag(SetToSeq(cubes), u, hits)]
  BY <1>2, <1>4 DEF Answers, ResultFor
<1>6. /\ result.user = u /\ result.box = box /\ result.time = time /\ result.intervals = intervals
      /\ result.cubes = cubes /\ result.hits = hits /\ result.range = ResRange(intervals, u, hits)
      /\ result.stag = ResStag(SetToSeq(cubes), u, hits)
  BY <1>5
<1>7. time[1] \in Int /\ time[2] \in Int
  BY <1>5, JoinAssumption
<1>8. IsFiniteSet(slots) /\ slots \subseteq Int
  BY <1>3, <1>4, <1>7, SlotFacts
<1>9. IsFiniteSet(named) /\ named \subseteq Int
  <2>1. named \in SUBSET slots
    BY <1>5
  <2>2. QED
    BY <1>8, <2>1, FS_Subset
<1>10. PICK k \in Nat : /\ intervals \in [1 .. k -> named]
                        /\ \A s \in named : \E n \in 1 .. k : intervals[n] = s
  BY <1>4, <1>9, AscendingFacts
<1>11. Len(intervals) = k /\ DOMAIN intervals = 1 .. k /\ intervals = [n \in 1 .. k |-> intervals[n]]
  BY <1>10
<1>12. PICK keys : keys = SlotKeys
  OBVIOUS
<1>13. keys = [n \in 1 .. k |-> SlotKey(intervals[n])]
  BY <1>6, <1>11, <1>12 DEF SlotKeys
<1>14. AnswersBy(result.range, keys, k, u)
  <2>1. AnswersBy(ResRange(intervals, u, hits), keys, k, u)
    BY <1>3, <1>11, <1>13, RangeGives
  <2>2. QED
    BY <1>6, <2>1
<1>15. KeysOf(keys, k) = {SlotKey(intervals[n]) : n \in DOMAIN intervals}
  BY <1>11, <1>13 DEF KeysOf
<1>16. IsFiniteSet(cubes)
  BY <1>4, FewCubes
<1>17. PICK f : f = SetToSeq(cubes)
  OBVIOUS
<1>18. PICK m \in Nat : f \in [1 .. m -> cubes] /\ \A x \in cubes : \E i \in 1 .. m : f[i] = x
  BY <1>16, <1>17, SetToSeqFacts
<1>19. f = [n \in 1 .. m |-> f[n]] /\ KeysOf(f, m) = cubes
  BY <1>18 DEF KeysOf
<1>20. \A s : /\ (\E n \in DOMAIN intervals : intervals[n] = s) => s \in slots
              /\ s \in SlotsIn(cubes, slots) => \E n \in DOMAIN intervals : intervals[n] = s
  BY <1>5, <1>10, <1>11
<1>21. /\ result.box \in Box /\ result.time \in Times
       /\ result.cubes = {CubeKey(c) : c \in QueryCubeCodes(result.box)}
  BY <1>4, <1>5, <1>6
<1>22. \E j \in Nat : \E g :
              /\ g = [n \in 1 .. j |-> g[n]] /\ KeysOf(g, j) = result.cubes
              /\ result.stag = ResStag(g, result.user, result.hits)
  BY <1>6, <1>17, <1>18, <1>19
<1>23. \E j \in Nat :
              /\ Len(result.intervals) = j /\ DOMAIN result.intervals = 1 .. j
              /\ result.intervals = [n \in 1 .. j |-> result.intervals[n]]
              /\ AnswersBy(result.range, SlotKeys, j, result.user)
              /\ KeysOf(SlotKeys, j) = {SlotKey(result.intervals[n]) : n \in DOMAIN result.intervals}
  <2>1. AnswersBy(result.range, SlotKeys, k, result.user)
    BY <1>6, <1>12, <1>14
  <2>2. KeysOf(SlotKeys, k) = {SlotKey(result.intervals[n]) : n \in DOMAIN result.intervals}
    BY <1>6, <1>12, <1>15
  <2>3. /\ Len(result.intervals) = k /\ DOMAIN result.intervals = 1 .. k
        /\ result.intervals = [n \in 1 .. k |-> result.intervals[n]]
    BY <1>6, <1>11
  <2>4. QED
    BY <2>1, <2>2, <2>3
<1>24. \A s : /\ (\E n \in DOMAIN result.intervals : result.intervals[n] = s)
                   => s \in QuerySlots(result.time[1], result.time[2])
              /\ s \in SlotsIn(result.cubes, QuerySlots(result.time[1], result.time[2])) =>
                   \E n \in DOMAIN result.intervals : result.intervals[n] = s
  BY <1>4, <1>6, <1>20
<1>25. QED
  BY <1>3, <1>6, <1>21, <1>22, <1>23, <1>24

LEMMA SlotAnswerExact ==
  ASSUME JoinInv, result.kind = "found"
  PROVE  LET slots == {SlotKey(result.intervals[n]) : n \in DOMAIN result.intervals}
             odd == {n \in DOMAIN result.range : n % 2 = 1}
             byslots == UNION {IdsIn(result.range[n]) : n \in odd}
             SlotOf(x) == rows[1][x[2]].slot
         IN /\ Len(result.range) % 2 = 0
            /\ byslots = Joined(FiledUnder(slots))
            /\ \A n \in odd : IdsIn(result.range[n + 1]) = UserRows(2)
            /\ \A x \in Joined(FiledUnder(result.cubes)) :
                 result.time[1] <= SlotOf(x) /\ SlotOf(x) <= result.time[2] => x \in byslots
            /\ \A x \in byslots : /\ result.time[1] <= SlotOf(x)
                                  /\ DayOf(SlotOf(x)) <= DayOf(result.time[2])
<1>0. JoinStored
  BY DEF JoinInv
<1>1. PICK k, keys, slots :
        /\ k \in Nat /\ AnswersBy(result.range, keys, k, result.user) /\ KeysOf(keys, k) = slots
        /\ slots = {SlotKey(result.intervals[n]) : n \in DOMAIN result.intervals}
  BY ResultFacts
<1>2. PICK u, q : u = result.user /\ q = result.range
  OBVIOUS
<1> DEFINE odd == {m \in DOMAIN q : m % 2 = 1}
           byslots == UNION {IdsIn(q[n]) : n \in odd}
<1>3. /\ Len(q) % 2 = 0
      /\ \A n \in DOMAIN q : n % 2 = 1 => q[n + 1] = GroupOf2(u)
      /\ OddIds(q) = Joined(FiledUnder(KeysOf(keys, k)))
  <2>1. AnswersBy(q, keys, k, u)
    BY <1>1, <1>2
  <2>2. k \in Nat /\ u = result.user /\ JoinStored
    BY <1>0, <1>1, <1>2
  <2> HIDE DEF odd, byslots
  <2>3. QED
    BY <2>1, <2>2, TurnsHold
<1>4. byslots = Joined(FiledUnder(slots))
  BY <1>1, <1>3 DEF OddIds
<1>5. IdsIn(GroupOf2(u)) = UserRows(2)
  BY <1>0, <1>2, GroupIds
<1>6. PICK start, end, asked :
        /\ start \in Int /\ end \in Int
        /\ start = result.time[1] /\ end = result.time[2] /\ asked = QuerySlots(start, end)
        /\ \A s : /\ (\E n \in DOMAIN result.intervals : result.intervals[n] = s) => s \in asked
                  /\ s \in SlotsIn(result.cubes, asked) => SlotKey(s) \in slots
  <2>1. /\ result.time \in Times
        /\ \A s : /\ (\E n \in DOMAIN result.intervals : result.intervals[n] = s)
                       => s \in QuerySlots(result.time[1], result.time[2])
                  /\ s \in SlotsIn(result.cubes, QuerySlots(result.time[1], result.time[2])) =>
                       \E n \in DOMAIN result.intervals : result.intervals[n] = s
    BY ResultFacts
  <2>2. result.time[1] \in Int /\ result.time[2] \in Int
    BY <2>1, JoinAssumption
  <2>3. QED
    BY <1>1, <2>1, <2>2
<1>7. /\ \A s \in asked : start <= s /\ DayOf(s) <= DayOf(end)
      /\ \A i \in DOMAIN rows[1] : start <= rows[1][i].slot /\ rows[1][i].slot <= end => rows[1][i].slot \in asked
  BY <1>0, <1>6, SlotFacts
<1>8. \A x : x \in UserRows(1) => x[2] \in DOMAIN rows[1]
  BY <1>0, GroupIds
<1>9. \A kws, x : x \in Joined(FiledUnder(kws)) <=>
        /\ UserRows(2) # {} /\ x \in UserRows(1)
        /\ \E kw \in kws : kw \in KeywordsOf(rows[1][x[2]])
  BY DEF Joined, FiledUnder
<1>10. ASSUME NEW x \in Joined(FiledUnder(result.cubes)),
              start <= rows[1][x[2]].slot, rows[1][x[2]].slot <= end
       PROVE  x \in byslots
  <2>1. PICK i, row : i = x[2] /\ row = rows[1][i]
    OBVIOUS
  <2>2. /\ i \in DOMAIN rows[1] /\ row.slot \in asked /\ KeywordsOf(row) \cap result.cubes # {}
    BY <1>7, <1>8, <1>9, <1>10, <2>1
  <2>3. row \in Range(rows[1])
    BY <2>1, <2>2 DEF Range
  <2>4. row.slot \in SlotsIn(result.cubes, asked)
    BY <2>2, <2>3 DEF SlotsIn
  <2>5. SlotKey(row.slot) \in slots
    BY <1>6, <2>4
  <2>6. SlotKey(row.slot) \in KeywordsOf(row)
    BY KeywordFacts
  <2>7. QED
    BY <1>4, <1>9, <1>10, <2>1, <2>5, <2>6
<1>11. ASSUME NEW x \in byslots
       PROVE  start <= rows[1][x[2]].slot /\ DayOf(rows[1][x[2]].slot) <= DayOf(end)
  <2>1. PICK kw \in slots : kw \in KeywordsOf(rows[1][x[2]])
    BY <1>4, <1>9
  <2>2. PICK n \in DOMAIN result.intervals : kw = SlotKey(result.intervals[n])
    BY <1>1, <2>1
  <2>3. PICK s : s = result.intervals[n]
    OBVIOUS
  <2>4. rows[1][x[2]].slot = s
    BY <2>1, <2>2, <2>3, KeywordFacts
  <2>5. s \in asked
    BY <1>6, <2>3
  <2>6. QED
    BY <1>7, <2>4, <2>5
<1>12. \A n \in odd : IdsIn(q[n + 1]) = UserRows(2)
  BY <1>2, <1>3, <1>5
<1>13. QED
  BY <1>1, <1>2, <1>3, <1>4, <1>6, <1>10, <1>11, <1>12

LEMMA CubeAnswerExact ==
  ASSUME JoinInv, result.kind = "found"
  PROVE  LET first == (UNION {IdsIn(result.stag[n]) : n \in DOMAIN result.stag}) \cap ({1} \X Nat)
         IN /\ Joined(FiledUnder(result.cubes)) \subseteq first
            /\ result.hits = {} => first = Joined(FiledUnder(result.cubes))
<1>0. JoinStored /\ built = Table
  BY ResultFacts DEF JoinInv
<1>1. PICK u, q, hits, cubes : /\ u = result.user /\ q = result.stag /\ hits = result.hits
                               /\ cubes = result.cubes
  OBVIOUS
<1>2. PICK m, keys : m \in Nat /\ keys = [n \in 1 .. m |-> keys[n]] /\ KeysOf(keys, m) = cubes /\ q = ResStag(keys, u, hits)
  BY <1>1, ResultFacts
<1>3. PICK ids, first : ids = UNION {IdsIn(q[n]) : n \in DOMAIN q} /\ first = ids \cap ({1} \X Nat)
  OBVIOUS
<1>4. /\ IdsIn(GroupOf2(u)) = UserRows(2) /\ (UserIn2(u) <=> UserRows(2) # {})
      /\ \A kw, x : x \in IdsIn(GroupOf1(kw, u)) <=>
                      x \in UserRows(1) /\ kw \in KeywordsOf(rows[1][x[2]])
      /\ \A kw : FiledOf(rows[1], kw, u) # {} <=> IdsIn(GroupOf1(kw, u)) # {}
      /\ \A x \in UserRows(2) : x[1] = 2
  BY <1>0, <1>1, GroupIds
<1>5. \A x : x \in Joined(FiledUnder(cubes)) <=>
        /\ UserRows(2) # {} /\ x \in UserRows(1)
        /\ \E kw \in cubes : kw \in KeywordsOf(rows[1][x[2]])
  BY DEF Joined, FiledUnder
<1>6. ASSUME NEW x \in UserRows(1) PROVE x \in {1} \X Nat
  <2>1. PICK i \in DOMAIN rows[1] : x = <<1, i>>
    BY DEF UserRows
  <2>2. i \in Nat
    BY <1>0, RowFacts, RowsOfTable
  <2>3. QED
    BY <2>1, <2>2
<1>7. ASSUME NEW x \in Joined(FiledUnder(cubes)) PROVE x \in first
  <2>1. PICK kw \in cubes : kw \in KeywordsOf(rows[1][x[2]])
    BY <1>5
  <2>2. PICK n \in 1 .. m : keys[n] = kw
    BY <1>2 DEF KeysOf
  <2>3. x \in IdsIn(GroupOf1(kw, u)) /\ UserIn2(u)
    BY <1>4, <1>5, <2>1
  <2>4. Found(keys[n], u)
    BY <1>4, <2>2, <2>3 DEF Found
  <2>5. GroupOf1(keys[n], u) \in Range(ResStag(keys, u, hits))
    BY <1>0, <1>2, <2>4, StagHas
  <2>6. PICK j \in DOMAIN q : q[j] = GroupOf1(keys[n], u)
    BY <1>2, <2>5 DEF Range
  <2>7. x \in ids
    BY <1>3, <2>2, <2>3, <2>6
  <2>8. QED
    BY <1>3, <1>5, <1>6, <2>7
<1>8. ASSUME hits = {}, NEW x \in first PROVE x \in Joined(FiledUnder(cubes))
  <2>1. q = ResStag(keys, u, {})
    BY <1>2, <1>8
  <2>2. AnswersBy(q, keys, m, u)
    BY <1>0, <1>2, <2>1, StagGives
  <2>3. /\ \A n \in DOMAIN q : n % 2 = 0 \/ n % 2 = 1
        /\ \A n \in DOMAIN q : n % 2 = 0 => q[n] = GroupOf2(u)
        /\ OddIds(q) = Joined(FiledUnder(KeysOf(keys, m)))
    <3>1. m \in Nat /\ u = result.user
      BY <1>1, <1>2
    <3>2. QED
      BY <1>0, <2>2, <3>1, TurnsHold
  <2>4. PICK n \in DOMAIN q : x \in IdsIn(q[n])
    BY <1>3, <1>8
  <2>5. n % 2 # 0
    <3>1. SUFFICES ASSUME n % 2 = 0 PROVE FALSE
      OBVIOUS
    <3>2. x \in UserRows(2)
      BY <1>4, <2>3, <2>4, <3>1
    <3>3. x[1] = 2 /\ x[1] = 1
      BY <1>3, <1>4, <1>8, <3>2
    <3>4. QED
      BY <3>3
  <2>6. QED
    <3>1. n % 2 = 1
      BY <2>3, <2>5
    <3>2. x \in OddIds(q)
      BY <2>4, <3>1 DEF OddIds
    <3>3. QED
      BY <1>2, <2>3, <3>2
<1>9. first = (UNION {IdsIn(result.stag[n]) : n \in DOMAIN result.stag}) \cap ({1} \X Nat)
  <2>1. {IdsIn(result.stag[n]) : n \in DOMAIN result.stag} = {IdsIn(q[n]) : n \in DOMAIN q}
    BY <1>1
  <2>2. QED
    BY <1>3, <2>1
<1>10. Joined(FiledUnder(cubes)) \subseteq first /\ (hits = {} => first = Joined(FiledUnder(cubes)))
  BY <1>7, <1>8
<1>11. QED
  BY <1>1, <1>9, <1>10

LEMMA AnswersExact == JoinInv => JoinAnswersAreExact
BY SlotAnswerExact, CubeAnswerExact DEF JoinAnswersAreExact

LEMMA JoinStarts == JoinInit => JoinInv
<1> SUFFICES ASSUME JoinInit PROVE JoinInv
  OBVIOUS
<1>1. <<>> \in Seq(Row1 \cup Row2)
  OBVIOUS
<1>2. rows \in [Table -> Seq(Row1 \cup Row2)] /\ built \subseteq Table
  BY <1>1 DEF JoinInit
<1>3. PICK tokens : tokens = UNION {KeywordsIn(rows[t]) \X {t} : t \in built}
  OBVIOUS
<1>4. tokens = {}
  BY <1>3 DEF JoinInit
<1>5. [token \in tokens |-> Entries(rows[token[2]], token[1])] = <<>>
  BY <1>4
<1>6. [t \in Table |-> IF t \in built THEN CiphertextSet(rows[t], t) ELSE <<>>] = [t \in Table |-> <<>>]
  BY DEF JoinInit
<1>7. server = [tset |-> <<>>, cset |-> [t \in Table |-> <<>>]] /\ result = NoResult
  BY DEF JoinInit
<1>8. QED
  BY <1>2, <1>3, <1>5, <1>6, <1>7 DEF JoinInv, JoinStored, ResultStands

LEMMA ReadStep ==
  ASSUME JoinInv, NEW t \in Table, NEW row \in Row1 \cup Row2, Read(t, row)
  PROVE  JoinInv'
<1>1. t \notin built /\ rows' = [rows EXCEPT ![t] = Append(@, row)] /\ built' = built /\ server' = server /\ result' = result
  BY DEF Read
<1>2. rows \in [Table -> Seq(Row1 \cup Row2)] /\ built \subseteq Table /\ (result # NoResult => built = Table)
  BY DEF JoinInv, JoinStored
<1>3. rows' \in [Table -> Seq(Row1 \cup Row2)]
  <2>1. rows[t] \in Seq(Row1 \cup Row2)
    BY <1>2
  <2>2. Append(rows[t], row) \in Seq(Row1 \cup Row2)
    BY <2>1
  <2>3. QED
    BY <1>1, <1>2, <2>2
<1>4. \A s \in built : rows'[s] = rows[s]
  BY <1>1, <1>2
<1>5. result = NoResult
  BY <1>1, <1>2
<1>6. PICK tokens : tokens = UNION {KeywordsIn(rows[s]) \X {s} : s \in built}
  OBVIOUS
<1>7. tokens = UNION {KeywordsIn(rows'[s]) \X {s} : s \in built}
  BY <1>4, <1>6
<1>8. \A token \in tokens : token[2] \in built
  BY <1>6
<1>9. [token \in tokens |-> Entries(rows[token[2]], token[1])] =
        [token \in tokens |-> Entries(rows'[token[2]], token[1])]
  BY <1>4, <1>8
<1>10. [s \in Table |-> IF s \in built THEN CiphertextSet(rows[s], s) ELSE <<>>] =
         [s \in Table |-> IF s \in built THEN CiphertextSet(rows'[s], s) ELSE <<>>]
  BY <1>4
<1>11. server = [tset |-> [token \in tokens |-> Entries(rows[token[2]], token[1])],
                 cset |-> [s \in Table |-> IF s \in built THEN CiphertextSet(rows[s], s) ELSE <<>>]]
  BY <1>6 DEF JoinInv, JoinStored
<1>12. JoinStored'
  BY <1>1, <1>2, <1>3, <1>7, <1>9, <1>10, <1>11 DEF JoinStored
<1>13. ResultStands'
  BY <1>1, <1>5 DEF ResultStands
<1>14. QED
  BY <1>12, <1>13 DEF JoinInv

LEMMA ConstructStep ==
  ASSUME JoinInv, NEW t \in Table, Construct(t)
  PROVE  JoinInv'
<1>1. t \notin built /\ built' = built \cup {t} /\ rows' = rows /\ result' = result
  BY DEF Construct
<1>2. /\ rows \in [Table -> Seq(Row1 \cup Row2)] /\ built \subseteq Table /\ (result # NoResult => built = Table)
      /\ result = NoResult
  BY <1>1 DEF JoinInv, JoinStored
<1>3. PICK old, new, tokens, fresh :
        /\ old = server.tset /\ new = server'.tset /\ fresh = KeywordsIn(rows[t]) \X {t}
        /\ tokens = UNION {KeywordsIn(rows[s]) \X {s} : s \in built}
  OBVIOUS
<1>4. /\ old = [token \in tokens |-> Entries(rows[token[2]], token[1])]
      /\ server.cset = [s \in Table |-> IF s \in built THEN CiphertextSet(rows[s], s) ELSE <<>>]
  BY <1>3 DEF JoinInv, JoinStored
<1>5. TokenSet(rows[t], t) = [token \in fresh |-> Entries(rows[t], token[1])]
  BY <1>3 DEF TokenSet, KeywordsIn
<1>6. server' = [tset |-> new, cset |-> [server.cset EXCEPT ![t] = CiphertextSet(rows[t], t)]]
  BY <1>3 DEF Construct
<1>7. new = [token \in tokens \cup fresh |->
               IF token \in tokens THEN old[token] ELSE TokenSet(rows[t], t)[token]]
  <2>1. PICK set : set = TokenSet(rows[t], t)
    OBVIOUS
  <2>2. new = [token \in DOMAIN old \cup DOMAIN set |-> IF token \in DOMAIN old THEN old[token] ELSE set[token]]
    BY <1>3, <2>1 DEF Construct
  <2>3. DOMAIN old = tokens /\ DOMAIN set = fresh
    BY <1>4, <1>5, <2>1
  <2>4. QED
    BY <2>1, <2>2, <2>3
<1>8. ASSUME NEW token \in tokens \cup fresh
      PROVE  new[token] = Entries(rows[token[2]], token[1])
  <2>1. CASE token \in tokens
    BY <1>4, <1>7, <2>1
  <2>2. CASE token \notin tokens
    <3>1. token \in fresh
      BY <2>2
    <3>2. token[2] = t
      BY <1>3, <3>1
    <3>3. QED
      BY <1>5, <1>7, <2>2, <3>1, <3>2
  <2>3. QED
    BY <2>1, <2>2
<1>9. tokens \cup fresh = UNION {KeywordsIn(rows[s]) \X {s} : s \in built'}
  <2>1. PICK f : f = [s \in Table |-> KeywordsIn(rows[s]) \X {s}]
    OBVIOUS
  <2>2. tokens = UNION {f[s] : s \in built} /\ fresh = f[t]
    BY <1>2, <1>3, <2>1
  <2>3. \A x : x \in tokens \cup fresh <=> \E s \in built' : x \in f[s]
    BY <1>1, <2>2
  <2>4. {f[s] : s \in built'} = {KeywordsIn(rows[s]) \X {s} : s \in built'}
    BY <1>1, <1>2, <2>1
  <2>5. QED
    BY <2>3, <2>4
<1>10. new = [token \in UNION {KeywordsIn(rows[s]) \X {s} : s \in built'} |-> Entries(rows[token[2]], token[1])]
  <2>1. PICK D : D = tokens \cup fresh
    OBVIOUS
  <2>2. new = [token \in D |-> new[token]]
    BY <1>7, <2>1
  <2>3. new = [token \in D |-> Entries(rows[token[2]], token[1])]
    BY <1>8, <2>1, <2>2
  <2>4. QED
    BY <1>9, <2>1, <2>3
<1>11. server'.cset = [s \in Table |-> IF s \in built' THEN CiphertextSet(rows[s], s) ELSE <<>>]
  BY <1>1, <1>4, <1>6
<1>12. server' = [tset |-> server'.tset, cset |-> server'.cset]
  BY <1>6
<1>13. built' \subseteq Table
  BY <1>1, <1>2
<1>14. JoinStored'
  <2>1. server' = [tset |-> new, cset |-> server'.cset]
    BY <1>3, <1>12
  <2>2. QED
    BY <1>1, <1>2, <1>10, <1>11, <1>13, <2>1 DEF JoinStored
<1>15. ResultStands'
  BY <1>1, <1>2 DEF ResultStands
<1>16. QED
  BY <1>14, <1>15 DEF JoinInv

(* An answer depends on nothing but what the server has and the rows.      *)
LEMMA AnswersStay ==
  ASSUME rows' = rows, server' = server, NEW u, NEW box, NEW time, NEW named, NEW hits
  PROVE  /\ QuerySlots(time[1], time[2])' = QuerySlots(time[1], time[2])
         /\ \A cubes, slots : SlotsIn(cubes, slots)' = SlotsIn(cubes, slots)
         /\ ResultFor(u, box, time, named, hits)' = ResultFor(u, box, time, named, hits)
<1>1. QuerySlots(time[1], time[2])' = QuerySlots(time[1], time[2])
  BY DEF QuerySlots
<1>2. \A cubes, slots : SlotsIn(cubes, slots)' = SlotsIn(cubes, slots)
  BY DEF SlotsIn
<1>3. \A s : TokensOf(s)' = TokensOf(s)
  BY DEF TokensOf
<1>4. \A kw : EntriesOf(kw)' = EntriesOf(kw)
  BY DEF EntriesOf
<1>5. \A kw, i : Key1(kw, i)' = Key1(kw, i)
  BY <1>4 DEF Key1
<1>6. \A kw, i : Key2(kw, u, i)' = Key2(kw, u, i)
  BY <1>4 DEF Key2
<1>7. \A t, key : GroupsAt(t, key)' = GroupsAt(t, key)
  BY DEF GroupsAt
<1>8. \A kw, i : GroupsAt(1, Key1(kw, i))' = GroupsAt(1, Key1(kw, i))
  BY <1>5 DEF GroupsAt
<1>9. \A kw, i : GroupsAt(2, Key2(kw, u, i))' = GroupsAt(2, Key2(kw, u, i))
  BY <1>6 DEF GroupsAt
<1>10. \A kw, i : PairOf(kw, u, i, hits)' = PairOf(kw, u, i, hits)
  BY <1>6, <1>8, <1>9 DEF PairOf
<1>11. \A kw, i : GroupsOf(kw, u, i, hits)' = GroupsOf(kw, u, i, hits)
  BY <1>6, <1>8, <1>9 DEF GroupsOf
<1>12. \A kw : StagOf(kw, u, hits)' = StagOf(kw, u, hits)
  BY <1>4, <1>11 DEF StagOf
<1>13. \A s : RangeOf(s, u, hits)' = RangeOf(s, u, hits)
  <2>1. TAKE s
  <2>2. \A kw : [i \in DOMAIN EntriesOf(kw)' |-> PairOf(kw, u, i, hits)'] =
                [i \in DOMAIN EntriesOf(kw) |-> PairOf(kw, u, i, hits)]
    BY <1>4, <1>10
  <2>3. QED
    BY <1>3, <2>2 DEF RangeOf
<1>14. \A intervals : ResRange(intervals, u, hits)' = ResRange(intervals, u, hits)
  BY <1>13 DEF ResRange
<1>15. \A keys : ResStag(keys, u, hits)' = ResStag(keys, u, hits)
  BY <1>12 DEF ResStag
<1>16. QED
  BY <1>1, <1>2, <1>14, <1>15 DEF ResultFor

LEMMA StoredStays ==
  ASSUME JoinStored, UNCHANGED <<rows, built, server>>, built = Table
  PROVE  JoinStored'
BY DEF JoinStored, Table

LEMMA SearchJoinStep ==
  ASSUME JoinInv, built = Table, NEW u, NEW box \in Box, NEW time \in Times, NEW named, NEW hits,
         SearchJoin(u, box, time, named, hits)
  PROVE  JoinInv'
<1>1. /\ rows' = rows /\ server' = server /\ built' = built
      /\ named \subseteq QuerySlots(time[1], time[2])
      /\ SlotsIn({CubeKey(c) : c \in QueryCubeCodes(box)}, QuerySlots(time[1], time[2])) \subseteq named
      /\ result' = ResultFor(u, box, time, named, hits)
  BY DEF SearchJoin, ResultFor
<1>2. PICK slots, cubes, found, answer1 :
        /\ slots = QuerySlots(time[1], time[2]) /\ cubes = {CubeKey(c) : c \in QueryCubeCodes(box)}
        /\ found = SlotsIn(cubes, slots) /\ answer1 = ResultFor(u, box, time, named, hits)
  OBVIOUS
<1>3. /\ QuerySlots(time[1], time[2])' = slots
      /\ SlotsIn(cubes, slots)' = found
      /\ ResultFor(u, box, time, named, hits)' = answer1
  BY <1>1, <1>2, AnswersStay
<1>4. Answers(u, box, time, named, hits)'
  BY <1>1, <1>2, <1>3 DEF Answers
<1>5. ResultStands'
  BY <1>4 DEF ResultStands
<1>6. JoinStored'
  BY <1>1, StoredStays DEF JoinInv
<1>7. QED
  BY <1>5, <1>6 DEF JoinInv

LEMMA TakeResultStep ==
  ASSUME JoinInv, TakeResult
  PROVE  JoinInv'
<1>1. rows' = rows /\ built' = built /\ server' = server /\ result' = NoResult /\ built = Table
  BY DEF TakeResult, JoinInv, JoinStored
<1>2. JoinStored'
  BY <1>1, StoredStays DEF JoinInv
<1>3. ResultStands'
  BY <1>1 DEF ResultStands
<1>4. QED
  BY <1>2, <1>3 DEF JoinInv

LEMMA JoinStutter ==
  ASSUME JoinInv, UNCHANGED joinVars
  PROVE  JoinInv'
<1>1. rows' = rows /\ built' = built /\ server' = server /\ result' = result
  BY DEF joinVars
<1>2. JoinStored'
  BY <1>1 DEF JoinInv, JoinStored
<1>3. ResultStands'
  <2>1. SUFFICES ASSUME result' # NoResult PROVE \E u, box, time, named, hits : Answers(u, box, time, named, hits)'
    BY DEF ResultStands
  <2>2. PICK u, box, time, named, hits : Answers(u, box, time, named, hits)
    BY <1>1, <2>1 DEF JoinInv, ResultStands
  <2>3. PICK slots, cubes, found, answer1 :
        /\ slots = QuerySlots(time[1], time[2]) /\ cubes = {CubeKey(c) : c \in QueryCubeCodes(box)}
        /\ found = SlotsIn(cubes, slots) /\ answer1 = ResultFor(u, box, time, named, hits)
    OBVIOUS
  <2>4. /\ QuerySlots(time[1], time[2])' = slots
        /\ SlotsIn(cubes, slots)' = found
        /\ ResultFor(u, box, time, named, hits)' = answer1
    BY <1>1, <2>3, AnswersStay
  <2>5. /\ box \in Box /\ time \in Times /\ named \subseteq slots /\ found \subseteq named
        /\ result = answer1
    BY <2>2, <2>3 DEF Answers
  <2>6. Answers(u, box, time, named, hits)'
    BY <1>1, <2>3, <2>4, <2>5 DEF Answers
  <2>7. QED
    BY <2>6
<1>4. QED
  BY <1>2, <1>3 DEF JoinInv

(* What the server has after the two constructions belongs to the rows     *)
(* they were given, and a result is the answer for one query on it.        *)
THEOREM JoinInvariant == JoinSpec => []JoinInv
<1>1. JoinInit => JoinInv
  BY JoinStarts
<1>2. JoinInv /\ [JoinNext]_joinVars => JoinInv'
  <2> SUFFICES ASSUME JoinInv, [JoinNext]_joinVars PROVE JoinInv'
    OBVIOUS
  <2>1. ASSUME NEW t \in Table, NEW row \in (IF t = 1 THEN Row1 ELSE Row2), Read(t, row) PROVE JoinInv'
    <3>1. row \in Row1 \cup Row2
      OBVIOUS
    <3>2. QED
      BY <2>1, <3>1, ReadStep
  <2>2. ASSUME NEW t \in Table, Construct(t) PROVE JoinInv'
    BY <2>2, ConstructStep
  <2>3. ASSUME built = Table, NEW u, NEW box \in Box, NEW time \in Times, NEW named, NEW hits,
               SearchJoin(u, box, time, named, hits)
        PROVE  JoinInv'
    BY <2>3, SearchJoinStep
  <2>4. CASE TakeResult
    BY <2>4, TakeResultStep
  <2>5. CASE UNCHANGED joinVars
    BY <2>5, JoinStutter
  <2>6. QED
    BY <2>1, <2>2, <2>3, <2>4, <2>5 DEF JoinNext
<1>3. QED
  BY <1>1, <1>2, PTL DEF JoinSpec

(* However the filter errs, the server's answer by slots is exactly the    *)
(* join, in pairs of groups, of the rows under the slots asked for, with   *)
(* every row of the query's cubes and times and none from before its start *)
(* or after its last day; the answer by cubes has every joined row of the  *)
(* cubes, and no other unless the filter was wrong (Server_JXTp::Search).  *)
THEOREM JoinIsExact == JoinSpec => []JoinAnswersAreExact
<1>1. JoinInv => JoinAnswersAreExact
  BY AnswersExact
<1>2. QED
  BY <1>1, JoinInvariant, PTL

-----------------------------------------------------------------------------
(* The cubes of a point                                                    *)

LEMMA PowersMultiply ==
  ASSUME NEW a \in Nat, NEW b \in Nat
  PROVE  Pow2[a + b] = Pow2[a] * Pow2[b]
<1> DEFINE R == {c \in Nat : Pow2[a + c] = Pow2[a] * Pow2[c]}
<1>1. Pow2[a] \in Nat
  BY Pow2Facts
<1>2. 0 \in R
  <2>1. Pow2[a] * 1 = Pow2[a] /\ a + 0 = a
    BY <1>1
  <2>2. QED
    BY <2>1, Pow2Facts
<1>3. ASSUME NEW c \in Nat, c \in R PROVE c + 1 \in R
  <2>1. PICK p \in Nat, q \in Nat : p = Pow2[a] /\ q = Pow2[c]
    BY Pow2Facts
  <2>2. Pow2[a + c] = p * q
    BY <1>3, <2>1
  <2>3. a + c \in Nat /\ a + (c + 1) = (a + c) + 1
    OBVIOUS
  <2>4. Pow2[a + (c + 1)] = 2 * (p * q) /\ Pow2[c + 1] = 2 * q
    BY <2>1, <2>2, <2>3, Pow2Facts
  <2>5. 2 * (p * q) = p * (2 * q)
    OBVIOUS
  <2>6. QED
    BY <2>1, <2>4, <2>5
<1> HIDE DEF R
<1>4. Nat \subseteq R
  BY <1>2, <1>3, NaturalInduction
<1>5. QED
  BY <1>4 DEF R

LEMMA QuotientIs ==
  ASSUME NEW x \in Int, NEW y \in Nat \ {0}, NEW d \in Int, y * d <= x, x < y * d + y
  PROVE  x \div y = d
<1>1. PICK e \in Int, p \in Int, q \in Int :
        e = x \div y /\ p = y * d /\ q = y * e /\ q <= x /\ x < q + y
  <2>1. y * d \in Int
    OBVIOUS
  <2>2. QED
    BY <2>1, DivisionFacts
<1>2. p <= x /\ x < p + y
  BY <1>1
<1>3. (d < e => y * d + y <= y * e) /\ (e < d => y * e + y <= y * d)
  BY ProductOrder
<1>4. ~(d < e) /\ ~(e < d)
  BY <1>1, <1>2, <1>3
<1>5. QED
  BY <1>1, <1>4

(* A product of s with what lies between multiples of w.                   *)
LEMMA Stretch ==
  ASSUME NEW s \in Nat \ {0}, NEW w \in Nat \ {0}, NEW i \in Int, NEW j \in Int,
         w * j <= i, i < w * j + w
  PROVE  s * (w * j) <= s * i /\ s * i + s <= s * (w * j) + s * w
<1>1. PICK k \in Int : k = w * j
  OBVIOUS
<1>2. k <= i /\ i + 1 <= k + w
  BY <1>1
<1>3. PICK d \in Nat, e \in Nat : i = k + d /\ k + w = (i + 1) + e
  <2>1. i - k \in Nat /\ (k + w) - (i + 1) \in Nat
    BY <1>2
  <2>2. i = k + (i - k) /\ k + w = (i + 1) + ((k + w) - (i + 1))
    OBVIOUS
  <2>3. QED
    BY <2>1, <2>2
<1>4. s * (k + d) = s * k + s * d /\ s * d \in Nat
  OBVIOUS
<1>5. s * (k + w) = s * k + s * w /\ s * ((i + 1) + e) = (s * i + s) + s * e /\ s * e \in Nat
  OBVIOUS
<1>6. s * i = s * k + s * d
  BY <1>3, <1>4
<1>7. s * k + s * w = (s * i + s) + s * e
  BY <1>3, <1>5
<1>8. s * k \in Int /\ s * i \in Int /\ s * w \in Int
  OBVIOUS
<1>9. s * k <= s * i /\ s * i + s <= s * k + s * w
  BY <1>4, <1>5, <1>6, <1>7, <1>8
<1>10. QED
  BY <1>1, <1>9

LEMMA DivideTwice ==
  ASSUME NEW x \in Int, NEW s \in Nat \ {0}, NEW w \in Nat \ {0}
  PROVE  (x \div s) \div w = x \div (s * w)
<1>1. PICK i \in Int, j \in Int : i = x \div s /\ j = i \div w
  BY DivisionFacts
<1>2. s * i <= x /\ x < s * i + s /\ w * j <= i /\ i < w * j + w
  BY <1>1, DivisionFacts
<1>3. PICK k \in Int : k = w * j
  OBVIOUS
<1>4. PICK m \in Nat \ {0} : m = s * w
  OBVIOUS
<1>5. s * k <= s * i /\ s * i + s <= s * k + m
  BY <1>2, <1>3, <1>4, Stretch
<1>6. s * k = m * j
  BY <1>3, <1>4
<1>7. m * j <= x /\ x < m * j + m
  <2>1. PICK p \in Int, q \in Int : p = s * k /\ q = s * i
    OBVIOUS
  <2>2. QED
    BY <1>2, <1>5, <1>6, <2>1
<1>8. x \div m = j
  BY <1>7, QuotientIs
<1>9. QED
  BY <1>1, <1>4, <1>8

(* A place kept within the first n.                                        *)
Clamp(i, n) == IF i < 0 THEN 0 ELSE IF i >= n THEN n - 1 ELSE i

LEMMA ClampFacts ==
  ASSUME NEW i \in Int, NEW n \in Nat \ {0}
  PROVE  Clamp(i, n) \in 0 .. n - 1
BY DEF Clamp

(* Clamping and then going up w-fold is going up and then clamping.        *)
LEMMA ClampThenDivide ==
  ASSUME NEW i \in Int, NEW n \in Nat \ {0}, NEW w \in Nat \ {0}
  PROVE  Clamp(i, n * w) \div w = Clamp(i \div w, n)
<1>1. PICK j \in Int, p \in Int : j = i \div w /\ p = w * j /\ p <= i /\ i < p + w
  BY DivisionFacts
<1>2. PICK m \in Nat \ {0} : m = n * w /\ m = w * n
  OBVIOUS
<1>3. CASE i < 0
  <2>1. w * 0 = 0
    OBVIOUS
  <2>2. 0 \div w = 0
    BY <2>1, QuotientIs
  <2>3. j < 0
    <3>1. SUFFICES ASSUME ~(j < 0) PROVE FALSE
      OBVIOUS
    <3>2. w * j \in Nat
      BY <3>1
    <3>3. QED
      BY <1>1, <1>3, <3>2
  <2>4. QED
    BY <1>1, <1>2, <1>3, <2>2, <2>3 DEF Clamp
<1>4. CASE ~(i < 0) /\ i >= m
  <2>1. w * (n - 1) = w * n - w
    OBVIOUS
  <2>2. w * (n - 1) <= m - 1 /\ m - 1 < w * (n - 1) + w
    BY <1>2, <2>1
  <2>3. (m - 1) \div w = n - 1
    BY <2>2, QuotientIs
  <2>4. ~(j < n)
    <3>1. j < n => w * j + w <= w * n
      BY ProductOrder
    <3>2. QED
      BY <1>1, <1>2, <1>4, <3>1
  <2>5. QED
    BY <1>1, <1>2, <1>4, <2>3, <2>4 DEF Clamp
<1>5. CASE ~(i < 0) /\ i < m
  <2>1. j < n
    <3>1. SUFFICES ASSUME ~(j < n) PROVE FALSE
      OBVIOUS
    <3>2. n < j => w * n + w <= w * j
      BY ProductOrder
    <3>3. n = j => w * n = w * j
      OBVIOUS
    <3>4. QED
      BY <1>1, <1>2, <1>5, <3>1, <3>2, <3>3
  <2>2. ~(j < 0)
    <3>1. SUFFICES ASSUME j < 0 PROVE FALSE
      OBVIOUS
    <3>2. j < 0 => w * j + w <= w * 0
      BY ProductOrder
    <3>3. w * 0 = 0
      OBVIOUS
    <3>4. QED
      BY <1>1, <1>5, <3>1, <3>2, <3>3
  <2>3. Clamp(i, m) = i /\ Clamp(j, n) = j
    BY <1>5, <2>1, <2>2 DEF Clamp
  <2>4. QED
    BY <1>1, <1>2, <2>3
<1>6. QED
  BY <1>3, <1>4, <1>5

LEMMA SideFacts ==
  ASSUME NEW l \in 0 .. Levels, NEW m \in l .. Levels
  PROVE  \E s \in Nat \ {0}, w \in Nat \ {0}, n \in Nat \ {0} :
           /\ s = Side(m) /\ w = Pow2[m - l] /\ n = Pow2[l]
           /\ Side(l) = s * w /\ Pow2[m] = n * w
           /\ Width = s * Pow2[m]
<1>1. Levels \in Nat
  BY JoinAssumption
<1>2. /\ l \in Nat /\ m \in Nat /\ m - l \in Nat /\ Levels + 1 - m \in Nat /\ Levels + 1 - l \in Nat
      /\ l + (m - l) = m /\ m + (Levels + 1 - m) = Levels + 1 /\ l + (Levels + 1 - l) = Levels + 1
      /\ (Levels + 1 - m) + (m - l) = Levels + 1 - l
  BY <1>1
<1>3. PICK s, w, n, p, big, t :
        /\ s = Pow2[Levels + 1 - m] /\ w = Pow2[m - l] /\ n = Pow2[l] /\ p = Pow2[m]
        /\ big = Width /\ t = Pow2[Levels + 1 - l]
  OBVIOUS
<1>4. s \in Nat \ {0} /\ w \in Nat \ {0} /\ n \in Nat \ {0} /\ p \in Nat \ {0} /\ t \in Nat \ {0}
  BY <1>2, <1>3, Pow2Facts
<1>5. p = n * w /\ big = p * s /\ t = s * w /\ big = n * t
  <2>1. Pow2[l + (m - l)] = Pow2[l] * Pow2[m - l]
    BY <1>2, PowersMultiply
  <2>2. Pow2[m + (Levels + 1 - m)] = Pow2[m] * Pow2[Levels + 1 - m]
    BY <1>2, PowersMultiply
  <2>3. Pow2[(Levels + 1 - m) + (m - l)] = Pow2[Levels + 1 - m] * Pow2[m - l]
    BY <1>2, PowersMultiply
  <2>4. Pow2[l + (Levels + 1 - l)] = Pow2[l] * Pow2[Levels + 1 - l]
    BY <1>2, PowersMultiply
  <2>5. QED
    BY <1>2, <1>3, <2>1, <2>2, <2>3, <2>4 DEF Width
<1>6. ASSUME NEW y \in Nat \ {0}, NEW d \in Nat \ {0} PROVE (y * d) \div y = d
  <2>1. PICK x \in Int : x = y * d
    OBVIOUS
  <2>2. y * d <= x /\ x < y * d + y
    BY <2>1
  <2>3. QED
    BY <2>1, <2>2, QuotientIs
<1>7. Side(m) = s /\ Side(l) = t
  <2>1. big \div p = s /\ big \div n = t
    BY <1>4, <1>5, <1>6
  <2>2. QED
    BY <1>3, <2>1 DEF Side
<1>8. p * s = s * p
  BY <1>4
<1>9. QED
  BY <1>3, <1>4, <1>5, <1>7, <1>8

LEMMA CubeAtFacts ==
  ASSUME NEW point \in [Coord -> Int], NEW m \in 0 .. Levels
  PROVE  /\ CubeAt(m, point).level = m
         /\ CubeAt(m, point) \in CubesOf(m)
         /\ \A l \in 0 .. m : Parent(CubeAt(m, point), l) = CubeAt(l, point)
         /\ CubeAt(m, point) = [level |-> m, place |-> [a \in Coord |-> Clamp(point[a] \div Side(m), Pow2[m])]]
<1>1. \A l : CubeAt(l, point) = [level |-> l, place |-> [a \in Coord |-> Clamp(point[a] \div Side(l), Pow2[l])]]
  BY DEF CubeAt, Clamp
<1>2. Levels \in Nat /\ m \in Nat
  BY JoinAssumption
<1>3. PICK s \in Nat \ {0}, n \in Nat \ {0} : s = Side(m) /\ n = Pow2[m]
  <2>1. m \in m .. Levels
    BY <1>2
  <2>2. QED
    BY <2>1, SideFacts
<1>4. ASSUME NEW a \in Coord PROVE Clamp(point[a] \div Side(m), Pow2[m]) \in 0 .. Pow2[m] - 1
  <2>1. point[a] \in Int
    OBVIOUS
  <2>2. point[a] \div s \in Int
    BY <2>1, DivisionFacts
  <2>3. Clamp(point[a] \div s, n) \in 0 .. n - 1
    BY <2>2, ClampFacts
  <2>4. QED
    BY <1>3, <2>3
<1>5. CubeAt(m, point) \in CubesOf(m)
  <2>1. PICK f : f = [a \in Coord |-> Clamp(point[a] \div Side(m), Pow2[m])]
    OBVIOUS
  <2>2. f \in [Coord -> 0 .. Pow2[m] - 1]
    BY <1>4, <2>1
  <2>3. CubeAt(m, point) = [level |-> m, place |-> f]
    BY <1>1, <2>1
  <2>4. QED
    BY <2>2, <2>3 DEF CubesOf
<1>6. ASSUME NEW l \in 0 .. m PROVE Parent(CubeAt(m, point), l) = CubeAt(l, point)
  <2>1. l \in 0 .. Levels /\ m \in l .. Levels
    BY <1>2
  <2>2. PICK w \in Nat \ {0}, k \in Nat \ {0} :
          w = Pow2[m - l] /\ k = Pow2[l] /\ Side(l) = s * w /\ n = k * w
    <3>1. PICK t \in Nat \ {0}, w \in Nat \ {0}, k \in Nat \ {0} :
            /\ t = Side(m) /\ w = Pow2[m - l] /\ k = Pow2[l]
            /\ Side(l) = t * w /\ Pow2[m] = k * w
            /\ Width = t * Pow2[m]
      <4>1. PICK i, j : i = l /\ j = m /\ i \in 0 .. Levels /\ j \in i .. Levels
        BY <2>1
      <4>2. \E t \in Nat \ {0}, w \in Nat \ {0}, k \in Nat \ {0} :
              /\ t = Side(j) /\ w = Pow2[j - i] /\ k = Pow2[i]
              /\ Side(i) = t * w /\ Pow2[j] = k * w
              /\ Width = t * Pow2[j]
        BY <4>1, SideFacts
      <4>3. QED
        BY <4>1, <4>2
    <3>2. QED
      BY <1>3, <3>1
  <2>3. ASSUME NEW a \in Coord
        PROVE  Clamp(point[a] \div s, n) \div w = Clamp(point[a] \div Side(l), Pow2[l])
    <3>1. PICK x \in Int, i \in Int : x = point[a] /\ i = x \div s
      <4>1. point[a] \in Int
        OBVIOUS
      <4>2. point[a] \div s \in Int
        BY <4>1, DivisionFacts
      <4>3. QED
        BY <4>1, <4>2
    <3>2. Clamp(i, k * w) \div w = Clamp(i \div w, k)
      BY ClampThenDivide
    <3>3. i \div w = x \div (s * w)
      BY <3>1, DivideTwice
    <3>4. QED
      BY <2>2, <3>1, <3>2, <3>3
  <2>4. PICK c : c = CubeAt(m, point)
    OBVIOUS
  <2>5. c.level = m /\ \A a \in Coord : c.place[a] = Clamp(point[a] \div s, n)
    BY <1>1, <1>3, <2>4
  <2>6. Parent(c, l) = [level |-> l, place |-> [a \in Coord |-> c.place[a] \div w]]
    BY <2>2, <2>5 DEF Parent
  <2>7. [a \in Coord |-> c.place[a] \div w] = [a \in Coord |-> Clamp(point[a] \div Side(l), Pow2[l])]
    BY <2>3, <2>5
  <2>8. QED
    BY <1>1, <2>4, <2>6, <2>7
<1>7. CubeAt(m, point).level = m
  BY <1>1
<1>8. QED
  BY <1>1, <1>5, <1>6, <1>7

(* A point in a box that meets the domain is counted to a smallest cube    *)
(* that meets the box.                                                     *)
LEMMA SmallestCubeMeets ==
  ASSUME NEW point \in [Coord -> Int], NEW box \in [Coord -> Int \X Int], MeetsDomain(box),
         \A a \in Coord : box[a][1] <= point[a] /\ point[a] < box[a][2]
  PROVE  Meets(CubeAt(Levels, point), box)
<1>1. Levels \in Nat /\ Levels \in 0 .. Levels /\ Levels \in Levels .. Levels
  BY JoinAssumption
<1>2. PICK s \in Nat \ {0}, n \in Nat \ {0} : s = Side(Levels) /\ n = Pow2[Levels] /\ Width = s * n
  <2>1. PICK s \in Nat \ {0}, w \in Nat \ {0}, n \in Nat \ {0} :
          s = Side(Levels) /\ n = Pow2[Levels] /\ Width = s * Pow2[Levels]
    BY <1>1, SideFacts
  <2>2. QED
    BY <2>1
<1>3. PICK c : c = CubeAt(Levels, point)
  OBVIOUS
<1>4. c = [level |-> Levels, place |-> [a \in Coord |-> Clamp(point[a] \div s, n)]]
  BY <1>1, <1>2, <1>3, CubeAtFacts
<1>5. ASSUME NEW a \in Coord
      PROVE  box[a][1] < High(c, a) /\ Low(c, a) < box[a][2]
  <2>1. PICK x \in Int, lo \in Int, hi \in Int :
          x = point[a] /\ lo = box[a][1] /\ hi = box[a][2] /\ lo <= x /\ x < hi /\ lo < Width /\ 0 < hi
    BY DEF MeetsDomain
  <2>2. PICK i \in Int, p \in Int : i = x \div s /\ p = s * i /\ p <= x /\ x < p + s
    BY DivisionFacts
  <2>3. PICK j \in Int, q \in Int : j = Clamp(i, n) /\ q = j * s /\ q = s * j
    <3>1. Clamp(i, n) \in 0 .. n - 1
      BY ClampFacts
    <3>2. PICK j \in Int : j = Clamp(i, n)
      BY <3>1
    <3>3. j * s = s * j /\ j * s \in Int
      OBVIOUS
    <3>4. QED
      BY <3>2, <3>3
  <2>4. c.level = Levels /\ c.place[a] = j
    BY <1>4, <2>1, <2>2, <2>3
  <2>5. Low(c, a) = q /\ High(c, a) = q + s
    BY <1>2, <2>3, <2>4 DEF Low, High
  <2>6. lo < q + s /\ q < hi
    <3>1. CASE i < 0
      <4>1. j = 0
        BY <2>3, <3>1 DEF Clamp
      <4>2. s * 0 = 0
        OBVIOUS
      <4>3. q = 0
        BY <2>3, <4>1, <4>2
      <4>4. i < 0 => s * i + s <= s * 0
        BY ProductOrder
      <4>5. QED
        BY <2>1, <2>2, <3>1, <4>2, <4>3, <4>4
    <3>2. CASE ~(i < 0) /\ i >= n
      <4>1. j = n - 1
        BY <2>3, <3>2 DEF Clamp
      <4>2. s * (n - 1) = s * n - s /\ s * n \in Int
        OBVIOUS
      <4>3. q + s = Width
        BY <1>2, <2>3, <4>1, <4>2
      <4>4. n < i => s * n + s <= s * i
        BY ProductOrder
      <4>5. n = i => s * n = s * i
        OBVIOUS
      <4>6. s * n <= p
        BY <2>2, <3>2, <4>2, <4>4, <4>5
      <4>7. QED
        BY <1>2, <2>1, <2>2, <4>2, <4>3, <4>6
    <3>3. CASE ~(i < 0) /\ ~(i >= n)
      <4>1. j = i
        BY <2>3, <3>3 DEF Clamp
      <4>2. q = p /\ q \in Int
        BY <2>2, <2>3, <4>1
      <4>3. QED
        <5>1. lo < p + s /\ p < hi
          <6>1. s \in Nat /\ p \in Int /\ x \in Int /\ lo \in Int /\ hi \in Int
            BY <1>2, <2>1, <2>2
          <6>2. lo <= x /\ x < hi /\ p <= x /\ x < p + s
            BY <2>1, <2>2
          <6>3. QED
            BY <6>1, <6>2
        <5>2. QED
          BY <4>2, <5>1
    <3>4. QED
      BY <3>1, <3>2, <3>3
  <2>7. QED
    BY <2>1, <2>5, <2>6
<1>6. QED
  BY <1>3, <1>5 DEF Meets

(* The cubes of a point lie in each other.                                 *)
Nested(outer, inner, a) ==
  \E lo \in Int, hi \in Int, low \in Int, high \in Int :
    /\ lo = Low(outer, a) /\ hi = High(outer, a) /\ low = Low(inner, a) /\ high = High(inner, a)
    /\ lo <= low /\ low < high /\ high <= hi

LEMMA CubesNest ==
  ASSUME NEW point \in [Coord -> Int], NEW m \in 0 .. Levels, NEW l \in 0 .. m, NEW a \in Coord
  PROVE  Nested(CubeAt(l, point), CubeAt(m, point), a)
<1>1. Levels \in Nat /\ l \in 0 .. Levels /\ m \in l .. Levels
  BY JoinAssumption
<1>2. PICK s \in Nat \ {0}, w \in Nat \ {0}, n \in Nat \ {0} :
        /\ s = Side(m) /\ w = Pow2[m - l] /\ n = Pow2[l]
        /\ Side(l) = s * w /\ Pow2[m] = n * w
        /\ Width = s * Pow2[m]
  <2>1. PICK i, j : i = l /\ j = m /\ i \in 0 .. Levels /\ j \in i .. Levels
    BY <1>1
  <2>2. \E s \in Nat \ {0}, w \in Nat \ {0}, n \in Nat \ {0} :
          /\ s = Side(j) /\ w = Pow2[j - i] /\ n = Pow2[i]
          /\ Side(i) = s * w /\ Pow2[j] = n * w
          /\ Width = s * Pow2[j]
    BY <2>1, SideFacts
  <2>3. QED
    BY <2>1, <2>2
<1>3. PICK c, d : c = CubeAt(m, point) /\ d = CubeAt(l, point)
  OBVIOUS
<1>4. c.level = m /\ c \in CubesOf(m) /\ Parent(c, l) = d
  BY <1>1, <1>3, CubeAtFacts
<1>5. d.level = l /\ d.place[a] = c.place[a] \div w
  BY <1>2, <1>4 DEF Parent
<1>6. PICK i \in Int : i = c.place[a]
  <2>1. c.place \in [Coord -> 0 .. Pow2[m] - 1]
    BY <1>4 DEF CubesOf
  <2>2. QED
    BY <2>1
<1>7. PICK j \in Int : j = i \div w /\ w * j <= i /\ i < w * j + w
  BY DivisionFacts
<1>8. s * (w * j) <= s * i /\ s * i + s <= s * (w * j) + s * w
  BY <1>7, Stretch
<1>9. PICK lo \in Int, low \in Int, side \in Int : lo = s * (w * j) /\ low = s * i /\ side = s * w
  OBVIOUS
<1>10. j * (s * w) = s * (w * j) /\ i * s = s * i
  OBVIOUS
<1>11. Low(d, a) = lo /\ High(d, a) = lo + side /\ Low(c, a) = low /\ High(c, a) = low + s
  BY <1>2, <1>4, <1>5, <1>6, <1>7, <1>9, <1>10 DEF Low, High
<1>12. lo <= low /\ low < low + s /\ low + s <= lo + side /\ low + s \in Int /\ lo + side \in Int
  BY <1>8, <1>9
<1>13. QED
  BY <1>3, <1>11, <1>12 DEF Nested

(* The cube of level 0 is the domain.                                      *)
LEMMA TopCube ==
  ASSUME NEW point \in [Coord -> Int], NEW box
  PROVE  Inside(CubeAt(0, point), box) <=> HoldsDomain(box)
<1>1. 0 \in 0 .. Levels
  BY JoinAssumption
<1>2. PICK c : c = CubeAt(0, point) /\ c.level = 0 /\ c \in CubesOf(0)
  BY <1>1, CubeAtFacts
<1>3. PICK s \in Nat \ {0} : s = Side(0) /\ Width = s * Pow2[0]
  <2>1. PICK i : i = 0 /\ i \in 0 .. Levels /\ i \in i .. Levels
    BY <1>1
  <2>2. \E s \in Nat \ {0}, w \in Nat \ {0}, n \in Nat \ {0} : s = Side(i) /\ Width = s * Pow2[i]
    BY <2>1, SideFacts
  <2>3. QED
    BY <2>1, <2>2
<1>4. Pow2[0] = 1
  BY Pow2Facts
<1>5. Width = s
  BY <1>3, <1>4
<1>6. ASSUME NEW a \in Coord PROVE Low(c, a) = 0 /\ High(c, a) = Width
  <2>1. c.place \in [Coord -> 0 .. Pow2[0] - 1]
    BY <1>2 DEF CubesOf
  <2>2. c.place[a] = 0
    BY <1>4, <2>1
  <2>3. 0 * s = 0 /\ 0 + s = s
    OBVIOUS
  <2>4. QED
    BY <1>2, <1>3, <1>5, <2>2, <2>3 DEF Low, High
<1>7. QED
  BY <1>2, <1>6 DEF Inside, HoldsDomain

(* Which of the cubes of a point make up the box: the largest inside it,   *)
(* or the smallest that meets it.                                          *)
LEMMA CubeIsQueried ==
  ASSUME NEW point \in [Coord -> Int], NEW box, NEW l \in 0 .. Levels
  PROVE  CubeAt(l, point) \in QueryCubeCodes(box) <=>
           /\ Inside(CubeAt(l, point), box) \/ (l = Levels /\ Meets(CubeAt(l, point), box))
           /\ \A k \in 0 .. l - 1 : ~Inside(CubeAt(k, point), box)
<1>1. PICK c : c = CubeAt(l, point)
  OBVIOUS
<1>2. c \in CubesOf(l) /\ c.level = l /\ \A k \in 0 .. l : Parent(c, k) = CubeAt(k, point)
  BY <1>1, CubeAtFacts
<1>3. Levels \in Nat
  BY JoinAssumption
<1>4. \A k \in 0 .. l - 1 : Parent(c, k) = CubeAt(k, point)
  <2>1. \A k \in 0 .. l - 1 : k \in 0 .. l
    BY <1>3
  <2>2. QED
    BY <1>2, <2>1
<1>5. c \in UNION {CubesOf(k) : k \in 0 .. Levels}
  BY <1>2
<1>6. QED
  BY <1>1, <1>2, <1>4, <1>5 DEF QueryCubeCodes

(* What a box of the query reaches, as for Reached.                        *)
Reaches(box, point) ==
  /\ ~HoldsDomain(box)
  /\ IF IsCorner(point) /\ Levels > 1 THEN Inside(CubeAt(1, point), box)
     ELSE Meets(CubeAt(Levels, point), box)

(* A point is filed under a cube of the box if and only if it is reached.  *)
LEMMA ReachedIsFiled ==
  ASSUME NEW point \in [Coord -> Int], NEW box \in [Coord -> Int \X Int]
  PROVE  DataCubeCodes(point) \cap QueryCubeCodes(box) # {} <=> Reaches(box, point)
<1>1. Levels \in Nat \ {0} /\ Levels \in 0 .. Levels
  BY JoinAssumption
<1>2. \A l \in 0 .. Levels : CubeAt(l, point) \in QueryCubeCodes(box) <=>
        /\ Inside(CubeAt(l, point), box) \/ (l = Levels /\ Meets(CubeAt(l, point), box))
        /\ \A k \in 0 .. l - 1 : ~Inside(CubeAt(k, point), box)
  BY CubeIsQueried
<1>3. Inside(CubeAt(0, point), box) <=> HoldsDomain(box)
  BY TopCube
<1>4. CASE IsCorner(point) /\ Levels > 1
  <2>1. 1 \in 0 .. Levels /\ 1 # Levels /\ 0 .. 1 - 1 = {0}
    BY <1>1, <1>4
  <2>2. CubeAt(1, point) \in QueryCubeCodes(box) <=> Inside(CubeAt(1, point), box) /\ ~HoldsDomain(box)
    BY <1>2, <1>3, <2>1
  <2>3. DataCubeCodes(point) = {CubeAt(1, point)}
    BY <1>4 DEF DataCubeCodes
  <2>4. QED
    BY <1>4, <2>2, <2>3 DEF Reaches
<1>5. CASE ~(IsCorner(point) /\ Levels > 1)
  <2>1. DataCubeCodes(point) = {CubeAt(l, point) : l \in 1 .. Levels}
    <3>1. CASE IsCorner(point)
      <4>1. 1 .. Levels = {1}
        BY <1>1, <1>5, <3>1
      <4>2. QED
        BY <3>1, <4>1 DEF DataCubeCodes
    <3>2. CASE ~IsCorner(point)
      BY <3>2 DEF DataCubeCodes
    <3>3. QED
      BY <3>1, <3>2
  <2>2. Reaches(box, point) <=> ~HoldsDomain(box) /\ Meets(CubeAt(Levels, point), box)
    BY <1>5 DEF Reaches
  <2>3. ASSUME NEW l \in 1 .. Levels, CubeAt(l, point) \in QueryCubeCodes(box)
        PROVE  ~HoldsDomain(box) /\ Meets(CubeAt(Levels, point), box)
    <3>1. l \in 0 .. Levels /\ 0 \in 0 .. l - 1
      BY <1>1
    <3>2. ~HoldsDomain(box)
      BY <1>2, <1>3, <2>3, <3>1
    <3>3. CASE Inside(CubeAt(l, point), box)
      <4>1. ASSUME NEW a \in Coord
            PROVE  box[a][1] < High(CubeAt(Levels, point), a) /\ Low(CubeAt(Levels, point), a) < box[a][2]
        <5>1. PICK m : m = Levels /\ m \in 0 .. Levels /\ l \in 0 .. m
          BY <1>1, <3>1
        <5>2. PICK lo \in Int, hi \in Int, low \in Int, high \in Int :
                /\ lo = Low(CubeAt(l, point), a) /\ hi = High(CubeAt(l, point), a)
                /\ low = Low(CubeAt(m, point), a) /\ high = High(CubeAt(m, point), a)
                /\ lo <= low /\ low < high /\ high <= hi
          <6>1. Nested(CubeAt(l, point), CubeAt(m, point), a)
            BY <5>1, CubesNest
          <6>2. QED
            BY <6>1 DEF Nested
        <5>3. PICK b1 \in Int, b2 \in Int : b1 = box[a][1] /\ b2 = box[a][2]
          OBVIOUS
        <5>4. b1 <= lo /\ hi <= b2
          BY <3>3, <5>2, <5>3 DEF Inside
        <5>5. b1 < high /\ low < b2
          BY <5>2, <5>4
        <5>6. QED
          BY <5>1, <5>2, <5>3, <5>5
      <4>2. QED
        BY <3>2, <4>1 DEF Meets
    <3>4. CASE ~Inside(CubeAt(l, point), box)
      BY <1>2, <2>3, <3>1, <3>2, <3>4
    <3>5. QED
      BY <3>3, <3>4
  <2>4. ASSUME ~HoldsDomain(box), Meets(CubeAt(Levels, point), box)
        PROVE  \E l \in 1 .. Levels : CubeAt(l, point) \in QueryCubeCodes(box)
    <3>1. PICK S : S = {l \in 0 .. Levels : Inside(CubeAt(l, point), box) \/ l = Levels}
      OBVIOUS
    <3>2. S \in SUBSET Nat /\ Levels \in S
      BY <1>1, <3>1
    <3>3. PICK l \in S : \A k \in S : l <= k
      BY <3>2, NatHasLeast
    <3>4. l \in 0 .. Levels /\ l \in 1 .. Levels
      <4>1. 0 \notin S
        BY <1>1, <1>3, <2>4, <3>1
      <4>2. l # 0 /\ l \in 0 .. Levels
        BY <3>1, <4>1
      <4>3. QED
        BY <1>1, <4>2
    <3>5. Inside(CubeAt(l, point), box) \/ (l = Levels /\ Meets(CubeAt(l, point), box))
      BY <2>4, <3>1
    <3>6. ASSUME NEW k \in 0 .. l - 1 PROVE ~Inside(CubeAt(k, point), box)
      <4>1. k \in 0 .. Levels /\ ~(l <= k)
        BY <1>1, <3>4
      <4>2. k \notin S
        BY <3>3, <4>1
      <4>3. QED
        BY <3>1, <4>1, <4>2
    <3>7. CubeAt(l, point) \in QueryCubeCodes(box)
      BY <1>2, <3>4, <3>5, <3>6
    <3>8. QED
      BY <3>4, <3>7
  <2>5. DataCubeCodes(point) \cap QueryCubeCodes(box) # {} <=>
          \E l \in 1 .. Levels : CubeAt(l, point) \in QueryCubeCodes(box)
    BY <2>1
  <2>6. QED
    BY <2>2, <2>3, <2>4, <2>5
<1>6. QED
  BY <1>4, <1>5

-----------------------------------------------------------------------------
(* What the client reads                                                   *)

LEMMA ConcatPlaces ==
  ASSUME NEW V, NEW p \in Seq(V), NEW q \in Seq(V)
  PROVE  /\ p \o q \in Seq(V) /\ Len(p \o q) = Len(p) + Len(q)
         /\ \A m \in 1 .. Len(p) : (p \o q)[m] = p[m]
         /\ \A m \in 1 .. Len(q) : (p \o q)[m + Len(p)] = q[m]
<1>1. PICK k, l, c : k = Len(p) /\ l = Len(q) /\ c = p \o q
  OBVIOUS
<1>2. /\ k \in Nat /\ l \in Nat
      /\ DOMAIN p = 1 .. k /\ DOMAIN q = 1 .. l /\ DOMAIN c = 1 .. k + l
  BY <1>1
<1>3. (\A m \in 1 .. k : c[m] = p[m]) /\ \A m \in 1 .. l : c[m + k] = q[m]
  BY <1>1, <1>2
<1>4. c \in Seq(V) /\ Len(c) = k + l
  BY <1>1, <1>2
<1>5. QED
  BY <1>1, <1>3, <1>4

(* Sequences of two, strung together: item j of them is at places 2j - 1   *)
(* and 2j.                                                                 *)
LEMMA FlattenPlaces ==
  ASSUME NEW V, NEW n \in Nat, NEW s \in [1 .. n -> Seq(V)], \A j \in 1 .. n : Len(s[j]) = 2
  PROVE  /\ FlattenSeq(s) \in Seq(V) /\ Len(FlattenSeq(s)) = 2 * n
         /\ \A j \in 1 .. n : /\ FlattenSeq(s)[2 * j - 1] = s[j][1]
                              /\ FlattenSeq(s)[2 * j] = s[j][2]
<1>1. CASE n = 0
  <2>1. s = <<>> /\ Len(s) = 0
    BY <1>1
  <2>2. FlattenSeq(s) = <<>>
    BY <2>1 DEF FlattenSeq
  <2>3. QED
    BY <1>1, <2>2
<1>2. CASE n # 0
  <2>1. PICK F : Strung(V, n, s, F)
    BY <1>2, FlattenUnfolds
  <2> DEFINE Good(i) == /\ Len(F[i]) = 2 * i
                        /\ \A j \in 1 .. i : F[i][2 * j - 1] = s[j][1] /\ F[i][2 * j] = s[j][2]
             R == {i \in Nat : i + 1 \in 1 .. n => Good(i + 1)}
  <2>2. F \in [1 .. n -> Seq(V)] /\ FlattenSeq(s) = F[n] /\ F[1] = s[1]
    BY <2>1 DEF Strung
  <2>3. \A i \in 2 .. n : F[i] = F[i - 1] \o s[i]
    BY <2>1 DEF Strung
  <2>4. 0 \in R
    <3>1. 1 \in 1 .. n
      BY <1>2
    <3>2. Len(F[1]) = 2
      BY <2>2, <3>1
    <3>3. \A j \in 1 .. 1 : j = 1
      OBVIOUS
    <3>4. F[1][2 * 1 - 1] = s[1][1] /\ F[1][2 * 1] = s[1][2]
      BY <2>2
    <3>5. Good(1)
      BY <3>2, <3>3, <3>4
    <3>6. QED
      BY <3>5
  <2>5. ASSUME NEW i \in Nat, i \in R PROVE i + 1 \in R
    <3>1. SUFFICES ASSUME (i + 1) + 1 \in 1 .. n PROVE Good((i + 1) + 1)
      OBVIOUS
    <3>2. PICK k \in Nat, m \in Nat : k = i + 1 /\ m = k + 1
      OBVIOUS
    <3>3. k \in 1 .. n /\ m \in 2 .. n /\ m - 1 = k /\ k \in 1 .. k
      BY <3>1, <3>2
    <3>4. Good(k)
      BY <2>5, <3>2, <3>3
    <3>5. PICK f, g, h : f = F[k] /\ g = s[m] /\ h = F[m]
      OBVIOUS
    <3>6. f \in Seq(V) /\ g \in Seq(V) /\ Len(g) = 2 /\ h = f \o g
      <4>1. f \in Seq(V)
        BY <2>2, <3>3, <3>5
      <4>2. m \in 1 .. n
        BY <3>3
      <4>3. g \in Seq(V) /\ Len(g) = 2
        BY <3>5, <4>2
      <4>4. h = f \o g
        BY <2>3, <3>3, <3>5
      <4>5. QED
        BY <4>1, <4>3, <4>4
    <3>7. Len(f) = 2 * k /\ \A j \in 1 .. k : f[2 * j - 1] = s[j][1] /\ f[2 * j] = s[j][2]
      BY <3>4, <3>5
    <3>8. PICK d \in Nat : d = Len(f) /\ d = 2 * k
      BY <3>6, <3>7
    <3>8a. /\ Len(f \o g) = Len(f) + Len(g)
           /\ \A p \in 1 .. Len(f) : (f \o g)[p] = f[p]
           /\ \A p \in 1 .. Len(g) : (f \o g)[p + Len(f)] = g[p]
      <4>1. f \in Seq(V) /\ g \in Seq(V)
        BY <3>6
      <4>2. QED
        BY <4>1, ConcatPlaces
    <3>9. Len(h) = d + 2
      BY <3>6, <3>8, <3>8a
    <3>10. (\A p \in 1 .. d : h[p] = f[p]) /\ h[d + 1] = g[1] /\ h[d + 2] = g[2]
      <4>1. (\A p \in 1 .. d : h[p] = f[p]) /\ \A p \in 1 .. 2 : h[p + d] = g[p]
        BY <3>6, <3>8, <3>8a
      <4>2. 1 \in 1 .. 2 /\ 2 \in 1 .. 2 /\ 1 + d = d + 1 /\ 2 + d = d + 2
        OBVIOUS
      <4>3. h[1 + d] = g[1] /\ h[2 + d] = g[2]
        BY <4>1, <4>2
      <4>4. QED
        BY <4>1, <4>2, <4>3
    <3>11. Len(h) = 2 * m
      BY <3>2, <3>8, <3>9
    <3>12. ASSUME NEW j \in 1 .. m PROVE h[2 * j - 1] = s[j][1] /\ h[2 * j] = s[j][2]
      <4>1. CASE j = m
        <5>1. 2 * j - 1 = d + 1 /\ 2 * j = d + 2
          BY <3>2, <3>8, <4>1
        <5>2. QED
          BY <3>5, <3>10, <4>1, <5>1
      <4>2. CASE j # m
        <5>1. j \in 1 .. k
          BY <3>2, <4>2
        <5>2. 2 * j - 1 \in 1 .. d /\ 2 * j \in 1 .. d
          BY <3>8, <5>1
        <5>3. QED
          BY <3>7, <3>10, <5>1, <5>2
      <4>3. QED
        BY <4>1, <4>2
    <3>13. Good(m)
      BY <3>5, <3>11, <3>12
    <3>14. QED
      BY <3>2, <3>13
  <2>6. Nat \subseteq R
    <3> HIDE DEF R
    <3>1. QED
      BY <2>4, <2>5, NaturalInduction
  <2>7. PICK i \in Nat : i + 1 = n
    <3>1. n - 1 \in Nat /\ (n - 1) + 1 = n
      BY <1>2
    <3>2. QED
      BY <3>1
  <2>8. n \in 1 .. n
    BY <1>2
  <2>9. Good(n)
    <3>1. i \in R
      BY <2>6
    <3>2. QED
      BY <2>7, <2>8, <3>1
  <2>10. F[n] \in Seq(V)
    BY <2>2, <2>8
  <2>11. QED
    BY <2>2, <2>9, <2>10
<1>3. QED
  BY <1>1, <1>2

LEMMA DecryptedGroups ==
  ASSUME JoinStored, NEW u
  PROVE  /\ \A kw, v : IdsIn(GroupOf1(kw, v)) = {<<1, i>> : i \in FiledOf(rows[1], kw, v)}
         /\ \A kw, v, keys, wrong :
              Decrypted(GroupOf1(kw, v), keys, wrong) \subseteq IdsIn(GroupOf1(kw, v)) \cup {Garbage}
         /\ \A keys, wrong : Decrypted(GroupOf2(u), keys, wrong) \subseteq IdsIn(GroupOf2(u)) \cup {Garbage}
         /\ \A kw, v, keys, wrong : \A k \in Nat :
              DOMAIN keys = 1 .. k /\ kw \in Range(keys) =>
                \A x \in IdsIn(GroupOf1(kw, v)) : ReadOrLost(x, Decrypted(GroupOf1(kw, v), keys, wrong), wrong)
         /\ \A kw, wrong : Decrypted(GroupOf1(kw, u), <<kw>>, wrong) = IdsIn(GroupOf1(kw, u))
         /\ \A wrong : Decrypted(GroupOf2(u), <<UserKey(u)>>, wrong) = IdsIn(GroupOf2(u))
<1>1. rows[1] \in Seq(Row1 \cup Row2) /\ rows[2] \in Seq(Row1 \cup Row2)
  BY RowFacts
<1>2. ASSUME NEW kw, NEW v, NEW keys, NEW wrong
      PROVE  Decrypted(GroupOf1(kw, v), keys, wrong) \subseteq IdsIn(GroupOf1(kw, v)) \cup {Garbage}
  BY <1>1, GroupFacts DEF GroupOf1
<1>3. PICK user : user = UserKey(u)
  OBVIOUS
<1>4. GroupOf2(u) = GroupFor(rows[2], 2, user, u)
  BY <1>3 DEF GroupOf2
<1>5. ASSUME NEW keys, NEW wrong
      PROVE  Decrypted(GroupOf2(u), keys, wrong) \subseteq IdsIn(GroupOf2(u)) \cup {Garbage}
  BY <1>1, <1>4, GroupFacts
<1>6. ASSUME NEW kw, NEW v, NEW keys, NEW wrong, NEW k \in Nat, DOMAIN keys = 1 .. k, kw \in Range(keys),
             NEW x \in IdsIn(GroupOf1(kw, v))
      PROVE  ReadOrLost(x, Decrypted(GroupOf1(kw, v), keys, wrong), wrong)
  BY <1>1, <1>6, GroupFacts DEF GroupOf1
<1>7. ASSUME NEW kw, NEW wrong PROVE Decrypted(GroupOf1(kw, u), <<kw>>, wrong) = IdsIn(GroupOf1(kw, u))
  BY <1>1, GroupFacts DEF GroupOf1
<1>8. ASSUME NEW wrong PROVE Decrypted(GroupOf2(u), <<user>>, wrong) = IdsIn(GroupOf2(u))
  BY <1>1, <1>4, GroupFacts
<1>9. ASSUME NEW kw, NEW v PROVE IdsIn(GroupOf1(kw, v)) = {<<1, i>> : i \in FiledOf(rows[1], kw, v)}
  BY <1>1, GroupFacts DEF GroupOf1
<1>10. QED
  BY <1>2, <1>3, <1>5, <1>6, <1>7, <1>8, <1>9

(* For a group of table 1 the client tries every cube of the query under   *)
(* which table 1 has rows, and for one of table 2 the user only.           *)
LEMMA KeysTried ==
  ASSUME JoinInv, result.kind = "found", NEW n
  PROVE  /\ n % 2 = 1 =>
              \E k \in Nat : /\ DOMAIN KeysAt(n) = 1 .. k
                             /\ \A v : \A kw \in result.cubes :
                                  FiledOf(rows[1], kw, v) # {} => kw \in Range(KeysAt(n))
         /\ n % 2 # 1 => KeysAt(n) = <<UserKey(result.user)>>
<1>0. JoinStored /\ built = Table
  BY ResultFacts DEF JoinInv
<1>1. PICK cubes, K : cubes = result.cubes /\ K = {kw \in cubes : EntriesOf(kw) # <<>>}
  OBVIOUS
<1>2. cubes = {CubeKey(c) : c \in QueryCubeCodes(result.box)}
  BY <1>1, ResultFacts
<1>3. IsFiniteSet(K)
  <2>1. IsFiniteSet(cubes)
    BY <1>2, FewCubes
  <2>2. K \in SUBSET cubes
    BY <1>1
  <2>3. QED
    BY <2>1, <2>2, FS_Subset
<1>4. PICK keys : keys = SetToSeq(K)
  OBVIOUS
<1>5. PICK k \in Nat : keys \in [1 .. k -> K] /\ \A kw \in K : \E i \in 1 .. k : keys[i] = kw
  BY <1>3, <1>4, SetToSeqFacts
<1>6. ASSUME NEW kw \in cubes, NEW v, FiledOf(rows[1], kw, v) # {} PROVE kw \in Range(keys)
  <2>1. PICK m \in Nat : DOMAIN EntriesOf(kw) = 1 .. m /\ \E i \in 1 .. m : UserAt(kw, i) = v
    BY <1>0, <1>6, EntryFacts
  <2>2. EntriesOf(kw) # <<>>
    BY <2>1
  <2>3. kw \in K
    BY <1>1, <2>2
  <2>4. QED
    BY <1>5, <2>3 DEF Range
<1>7. n % 2 = 1 => KeysAt(n) = keys
  BY <1>1, <1>4 DEF KeysAt
<1>8. n % 2 # 1 => KeysAt(n) = <<UserKey(result.user)>>
  BY DEF KeysAt
<1>9. DOMAIN keys = 1 .. k
  BY <1>5
<1>10. QED
  BY <1>1, <1>6, <1>7, <1>8, <1>9

(* The rows of table 1 filed under a cube of the query, and the joined     *)
(* rows that the query reaches.                                            *)
FiledInCubes ==
  {<<1, i>> : i \in {j \in DOMAIN rows[1] : KeywordsOf(rows[1][j]) \cap result.cubes # {}}}
ReachedRows == {x \in Joined(UserRows(1)) : Reached(rows[1][x[2]].point)}

(* Whatever the filter says and whichever keys are wrong, no other rows.   *)
LEMMA StagIsFiled ==
  ASSUME JoinInv, result.kind = "found", NEW wrong
  PROVE  ReadStag(wrong) \subseteq FiledInCubes \cup UserRows(2) \cup {Garbage}
<1>0. JoinStored
  BY DEF JoinInv
<1>1. PICK u, q, hits, cubes : /\ u = result.user /\ q = result.stag /\ hits = result.hits
                               /\ cubes = result.cubes
  OBVIOUS
<1>2. PICK m, keys : /\ m \in Nat /\ keys = [n \in 1 .. m |-> keys[n]] /\ KeysOf(keys, m) = cubes
                     /\ q = ResStag(keys, u, hits)
  BY <1>1, ResultFacts
<1>3. \A n \in DOMAIN q : AnyGroup(q[n], keys, m, u)
  <2>1. built = Table
    BY ResultFacts
  <2>2. QED
    BY <1>0, <1>2, <2>1, StagHas
<1>4. ASSUME NEW x \in ReadStag(wrong) PROVE x \in FiledInCubes \cup UserRows(2) \cup {Garbage}
  <2>1. PICK n \in DOMAIN q : x \in Decrypted(q[n], KeysAt(n), wrong)
    BY <1>1 DEF ReadStag
  <2>2. CASE q[n] = GroupOf2(u)
    <3>1. x \in IdsIn(GroupOf2(u)) \cup {Garbage}
      BY <1>0, <2>1, <2>2, DecryptedGroups
    <3>2. IdsIn(GroupOf2(u)) = UserRows(2)
      BY <1>0, <1>1, GroupIds
    <3>3. QED
      BY <3>1, <3>2
  <2>3. CASE q[n] # GroupOf2(u)
    <3>1. PICK j \in 1 .. m : \E v : q[n] = GroupOf1(keys[j], v)
      BY <1>3, <2>3 DEF AnyGroup
    <3>0. PICK v : q[n] = GroupOf1(keys[j], v)
      BY <3>1
    <3>2. PICK kw : kw = keys[j] /\ kw \in cubes
      BY <1>2 DEF KeysOf
    <3>3. x \in IdsIn(GroupOf1(kw, v)) \cup {Garbage}
      BY <1>0, <2>1, <3>0, <3>2, DecryptedGroups
    <3>4. IdsIn(GroupOf1(kw, v)) = {<<1, i>> : i \in FiledOf(rows[1], kw, v)}
      BY <1>0, DecryptedGroups
    <3>5. IdsIn(GroupOf1(kw, v)) \subseteq FiledInCubes
      BY <1>1, <3>2, <3>4 DEF FiledInCubes, FiledOf
    <3>6. QED
      BY <3>3, <3>5
  <2>4. QED
    BY <2>2, <2>3
<1>5. QED
  BY <1>4

(* If the filter was right: the joined rows filed under the query's cubes, *)
(* but for those that a wrong key lost, and their partners.                *)
LEMMA StagIsRead ==
  ASSUME JoinInv, result.kind = "found", result.hits = {}, NEW wrong,
         NEW found, found = Joined(FiledUnder(result.cubes))
  PROVE  /\ ReadStag(wrong) \subseteq found \cup {Garbage} \cup (IF found = {} THEN {} ELSE UserRows(2))
         /\ found # {} => UserRows(2) \subseteq ReadStag(wrong)
         /\ \A x \in found : ReadOrLost(x, ReadStag(wrong), wrong)
<1>0. JoinStored /\ built = Table
  BY ResultFacts DEF JoinInv
<1>1. PICK u, q, cubes : u = result.user /\ q = result.stag /\ cubes = result.cubes
  OBVIOUS
<1>2. PICK m, keys : m \in Nat /\ keys = [n \in 1 .. m |-> keys[n]] /\ KeysOf(keys, m) = cubes /\ q = ResStag(keys, u, {})
  BY <1>1, ResultFacts
<1>3. m \in Nat /\ u = result.user /\ AnswersBy(q, keys, m, u)
  <2>1. AnswersBy(ResStag(keys, u, {}), keys, m, u)
    BY <1>0, <1>2, StagGives
  <2>2. QED
    BY <1>1, <1>2, <2>1
<1>4. /\ \A n \in DOMAIN q : n % 2 = 0 \/ n % 2 = 1
      /\ \A n \in DOMAIN q : n % 2 = 0 => q[n] = GroupOf2(u)
      /\ \A n \in DOMAIN q : n % 2 = 1 =>
           /\ n + 1 \in DOMAIN q /\ q[n + 1] = GroupOf2(u)
           /\ \E j \in 1 .. m : q[n] = GroupOf1(keys[j], u)
      /\ OddIds(q) = Joined(FiledUnder(KeysOf(keys, m)))
      /\ DOMAIN q # {} => OddIds(q) # {}
      /\ DOMAIN q \subseteq Nat
  <2>1. q \in Seq(Range(q))
    BY <1>0, <1>3, TurnsHold
  <2>2. DOMAIN q \subseteq Nat
    BY <2>1
  <2>3. QED
    BY <1>0, <1>3, <2>2, TurnsHold
<1>5. OddIds(q) = found
  BY <1>1, <1>2, <1>4
<1>6. IdsIn(GroupOf2(u)) = UserRows(2)
  BY <1>0, <1>1, GroupIds
<1>7. \A x : x \in ReadStag(wrong) <=> \E n \in DOMAIN q : x \in Decrypted(q[n], KeysAt(n), wrong)
  BY <1>1 DEF ReadStag
<1>8. \A x : x \in found <=> \E n \in DOMAIN q : n % 2 = 1 /\ x \in IdsIn(q[n])
  BY <1>5 DEF OddIds
<1>9. ASSUME NEW x \in ReadStag(wrong)
      PROVE  x \in found \/ x = Garbage \/ (found # {} /\ x \in UserRows(2))
  <2>1. PICK n \in DOMAIN q : x \in Decrypted(q[n], KeysAt(n), wrong)
    BY <1>7
  <2>2. x \in IdsIn(q[n]) \/ x = Garbage
    <3>1. q[n] = GroupOf2(u) \/ \E j \in 1 .. m : q[n] = GroupOf1(keys[j], u)
      BY <1>4
    <3>2. Decrypted(q[n], KeysAt(n), wrong) \subseteq IdsIn(q[n]) \cup {Garbage}
      BY <1>0, <3>1, DecryptedGroups
    <3>3. QED
      BY <2>1, <3>2
  <2>3. CASE n % 2 = 1
    BY <1>8, <2>2, <2>3
  <2>4. CASE n % 2 = 0
    <3>1. found # {}
      BY <1>4, <1>5
    <3>2. IdsIn(q[n]) = UserRows(2)
      BY <1>4, <1>6, <2>4
    <3>3. QED
      BY <2>2, <3>1, <3>2
  <2>5. QED
    BY <1>4, <2>3, <2>4
<1>10. ASSUME NEW x \in UserRows(2), found # {} PROVE x \in ReadStag(wrong)
  <2>1. PICK n \in DOMAIN q : n % 2 = 1
    BY <1>8, <1>10
  <2>2. n + 1 \in DOMAIN q /\ q[n + 1] = GroupOf2(u) /\ (n + 1) % 2 # 1
    <3>1. n \in Nat
      BY <1>4
    <3>2. (n + 1) % 2 # 1
      BY <2>1, <3>1
    <3>3. QED
      BY <1>4, <2>1, <3>2
  <2>3. KeysAt(n + 1) = <<UserKey(u)>>
    BY <1>1, <2>2, KeysTried
  <2>4. Decrypted(GroupOf2(u), <<UserKey(u)>>, wrong) = UserRows(2)
    BY <1>0, <1>6, DecryptedGroups
  <2>5. x \in Decrypted(q[n + 1], KeysAt(n + 1), wrong)
    BY <2>2, <2>3, <2>4
  <2>6. QED
    BY <1>7, <2>2, <2>5
<1>11. ASSUME NEW x \in found PROVE ReadOrLost(x, ReadStag(wrong), wrong)
  <2>1. PICK n \in DOMAIN q : n % 2 = 1 /\ x \in IdsIn(q[n])
    BY <1>8
  <2>2. PICK j \in 1 .. m : q[n] = GroupOf1(keys[j], u)
    BY <1>4, <2>1
  <2>3. PICK kw : kw = keys[j] /\ kw \in cubes
    BY <1>2 DEF KeysOf
  <2>4. FiledOf(rows[1], kw, u) # {}
    <3>1. IdsIn(GroupOf1(kw, u)) # {}
      BY <2>1, <2>2, <2>3
    <3>2. QED
      BY <1>0, <1>1, <3>1, GroupIds
  <2>5. PICK tried, k : /\ k \in Nat /\ tried = KeysAt(n) /\ DOMAIN tried = 1 .. k
                        /\ kw \in Range(tried)
    BY <1>1, <2>1, <2>3, <2>4, KeysTried
  <2>6. ReadOrLost(x, Decrypted(GroupOf1(kw, u), tried, wrong), wrong)
    BY <1>0, <2>1, <2>2, <2>3, <2>5, DecryptedGroups
  <2>7. Decrypted(GroupOf1(kw, u), tried, wrong) \subseteq ReadStag(wrong)
    BY <1>7, <2>2, <2>3, <2>5
  <2>8. QED
    BY <2>6, <2>7 DEF ReadOrLost
<1>12. QED
  BY <1>9, <1>10, <1>11

LEMMA FiledAreReached ==
  ASSUME JoinInv, result.kind = "found"
  PROVE  Joined(FiledUnder(result.cubes)) = ReachedRows
<1>0. JoinStored
  BY DEF JoinInv
<1>1. PICK box, cubes : box = result.box /\ cubes = result.cubes
  OBVIOUS
<1>2. box \in [Coord -> Int \X Int] /\ cubes = {CubeKey(c) : c \in QueryCubeCodes(box)}
  BY <1>1, ResultFacts, JoinAssumption
<1>3. ASSUME NEW x \in UserRows(1)
      PROVE  KeywordsOf(rows[1][x[2]]) \cap cubes # {} <=> Reached(rows[1][x[2]].point)
  <2>1. PICK row, point : row = rows[1][x[2]] /\ point = row.point
    OBVIOUS
  <2>2. x[2] \in DOMAIN rows[1]
    BY <1>0, GroupIds
  <2>3. point \in [Coord -> Int]
    BY <1>0, <2>1, <2>2, RowFacts
  <2>4. DataCubeCodes(point) \cap QueryCubeCodes(box) # {} <=> Reaches(box, point)
    BY <1>2, <2>3, ReachedIsFiled
  <2>5. Reaches(box, point) <=> Reached(point)
    BY <1>1 DEF Reaches, Reached
  <2>6. \A c : CubeKey(c) \in KeywordsOf(row) <=> c \in DataCubeCodes(point)
    BY <2>1, KeywordFacts
  <2>7. KeywordsOf(row) \cap cubes # {} <=> DataCubeCodes(point) \cap QueryCubeCodes(box) # {}
    BY <1>2, <2>6
  <2>8. QED
    BY <2>1, <2>4, <2>5, <2>7
<1>4. QED
  BY <1>1, <1>3 DEF ReachedRows, Joined, FiledUnder

(* A row in a box that meets the domain is reached, but for corners of the *)
(* domain and boxes as large as it.                                        *)
LEMMA BoxIsReached ==
  ASSUME JoinInv, result.kind = "found", NEW x \in Joined(UserRows(1)),
         InBox(rows[1][x[2]].point), ~IsCorner(rows[1][x[2]].point),
         MeetsDomain(result.box), ~HoldsDomain(result.box)
  PROVE  x \in ReachedRows
<1>0. JoinStored
  BY DEF JoinInv
<1>1. PICK point, box : point = rows[1][x[2]].point /\ box = result.box
  OBVIOUS
<1>2. x \in UserRows(1)
  BY DEF Joined
<1>3. x[2] \in DOMAIN rows[1]
  BY <1>0, <1>2, GroupIds
<1>4. point \in [Coord -> Int]
  BY <1>0, <1>1, <1>3, RowFacts
<1>5. box \in [Coord -> Int \X Int]
  BY <1>1, ResultFacts, JoinAssumption
<1>6. \A a \in Coord : box[a][1] <= point[a] /\ point[a] < box[a][2]
  BY <1>1 DEF InBox
<1>7. Meets(CubeAt(Levels, point), box)
  BY <1>1, <1>4, <1>5, <1>6, SmallestCubeMeets
<1>8. Reached(point)
  BY <1>1, <1>7 DEF Reached
<1>9. QED
  BY <1>1, <1>8 DEF ReachedRows

LEMMA PairOfSlot ==
  ASSUME JoinStored, built = Table, NEW s, NEW u, NEW hits, NEW q, q = RangeOf(s, u, hits), Len(q) = 2
  PROVE  q = <<GroupOf1(SlotKey(s), u), GroupOf2(u)>>
<1>1. PICK g, h, V : g = GroupOf1(SlotKey(s), u) /\ h = GroupOf2(u) /\ V = {g, h}
  OBVIOUS
<1>2. Turns(q, V, IfFound(SlotKey(s), u, g), IfFound(SlotKey(s), u, h))
  BY <1>1, SlotGives
<1>3. q \in Seq(V) /\ DOMAIN q = 1 .. 2
  BY <1>2 DEF Turns
<1>4. 1 % 2 = 1 /\ 2 % 2 = 0 /\ 1 \in 1 .. 2 /\ 2 \in 1 .. 2
  OBVIOUS
<1>5. AtOdd(q, q[1]) /\ AtEven(q, q[2])
  BY <1>3, <1>4 DEF AtOdd, AtEven
<1>6. q[1] \in IfFound(SlotKey(s), u, g) /\ q[2] \in IfFound(SlotKey(s), u, h)
  BY <1>2, <1>5 DEF Turns
<1>7. q[1] = g /\ q[2] = h
  BY <1>6 DEF IfFound
<1>8. q = [i \in 1 .. 2 |-> q[i]]
  BY <1>3
<1>9. \A i \in 1 .. 2 : i = 1 \/ i = 2
  OBVIOUS
<1>10. [i \in 1 .. 2 |-> q[i]] = [i \in 1 .. 2 |-> IF i = 1 THEN g ELSE h]
  BY <1>7, <1>9
<1>11. <<g, h>> = [i \in 1 .. 2 |-> IF i = 1 THEN g ELSE h]
  OBVIOUS
<1>12. QED
  BY <1>1, <1>8, <1>10, <1>11

LEMMA Places ==
  ASSUME NEW k \in Nat, NEW n \in 1 .. 2 * k
  PROVE  \E j \in 1 .. k : /\ n = 2 * j - 1 \/ n = 2 * j
                           /\ (n + 1) \div 2 = j
                           /\ n = 2 * j - 1 => n % 2 = 1
                           /\ n = 2 * j => n % 2 = 0
OBVIOUS

(* If each slot has given one pair, the client reads every group.          *)
LEMMA PairsAreRead ==
  ASSUME JoinInv, result.kind = "found", NEW wrong,
         \A n \in DOMAIN result.intervals :
           Len(RangeOf(result.intervals[n], result.user, result.hits)) = 2
  PROVE  \A n \in DOMAIN result.range :
           /\ (n + 1) \div 2 <= Len(result.intervals)
           /\ Decrypted(result.range[n], <<KeyAt(n)>>, wrong) = IdsIn(result.range[n])
<1>0. JoinStored /\ built = Table
  BY ResultFacts DEF JoinInv
<1>1. PICK u, q, hits, intervals : /\ u = result.user /\ q = result.range /\ hits = result.hits
                                   /\ intervals = result.intervals
  OBVIOUS
<1>2. PICK k : k \in Nat /\ Len(intervals) = k /\ DOMAIN intervals = 1 .. k
  BY <1>1, ResultFacts
<1>3. q = ResRange(intervals, u, hits)
  BY <1>1, ResultFacts
<1>4. PICK parts : parts = [n \in 1 .. k |-> RangeOf(intervals[n], u, hits)]
  OBVIOUS
<1>5. q = FlattenSeq(parts)
  BY <1>2, <1>3, <1>4 DEF ResRange
<1>6. PICK h, keys : /\ h = GroupOf2(u)
                     /\ keys = [n \in 1 .. k |-> SlotKey(intervals[n])]
  OBVIOUS
<1>7. ASSUME NEW n \in 1 .. k PROVE parts[n] = <<GroupOf1(keys[n], u), h>> /\ Len(parts[n]) = 2
  <2>1. PICK s, p : s = intervals[n] /\ p = RangeOf(s, u, hits)
    OBVIOUS
  <2>2. parts[n] = p /\ keys[n] = SlotKey(s)
    BY <1>4, <1>6, <2>1
  <2>3. Len(p) = 2
    BY <1>1, <1>2, <2>1
  <2>4. p = <<GroupOf1(SlotKey(s), u), GroupOf2(u)>>
    BY <1>0, <2>1, <2>3, PairOfSlot
  <2>5. QED
    BY <1>6, <2>2, <2>3, <2>4
<1>8. PICK V : h \in V /\ \A n \in 1 .. k : GroupOf1(keys[n], u) \in V
  <2>1. PICK U : U = {GroupOf1(keys[n], u) : n \in 1 .. k}
    OBVIOUS
  <2>2. PICK V : V = U \cup {h}
    OBVIOUS
  <2>3. h \in V /\ \A n \in 1 .. k : GroupOf1(keys[n], u) \in V
    BY <2>1, <2>2
  <2>4. QED
    BY <2>3
<1>9. parts \in [1 .. k -> Seq(V)]
  <2>1. ASSUME NEW n \in 1 .. k PROVE parts[n] \in Seq(V)
    <3>1. PICK g : g = GroupOf1(keys[n], u)
      OBVIOUS
    <3>2. g \in V /\ h \in V
      BY <1>8, <3>1
    <3>3. <<g, h>> \in Seq(V)
      BY <3>2
    <3>4. QED
      BY <1>7, <3>1, <3>3
  <2>2. QED
    BY <1>4, <2>1
<1>10. /\ q \in Seq(V) /\ Len(q) = 2 * k
       /\ \A j \in 1 .. k : q[2 * j - 1] = parts[j][1] /\ q[2 * j] = parts[j][2]
  <2>1. k \in Nat /\ \A n \in 1 .. k : Len(parts[n]) = 2
    BY <1>2, <1>7
  <2>2. QED
    BY <1>5, <1>9, <2>1, FlattenPlaces
<1>11. DOMAIN q = 1 .. 2 * k
  BY <1>2, <1>10
<1>12. ASSUME NEW n \in 1 .. 2 * k
       PROVE  (n + 1) \div 2 <= k /\ Decrypted(q[n], <<KeyAt(n)>>, wrong) = IdsIn(q[n])
  <2>0. k \in Nat
    BY <1>2
  <2>1. PICK j \in 1 .. k : /\ n = 2 * j - 1 \/ n = 2 * j
                            /\ (n + 1) \div 2 = j
                            /\ n = 2 * j - 1 => n % 2 = 1
                            /\ n = 2 * j => n % 2 = 0
    BY <2>0, Places
  <2>2. parts[j][1] = GroupOf1(keys[j], u) /\ parts[j][2] = h
    BY <1>7
  <2>3. CASE n = 2 * j - 1
    <3>1. q[n] = GroupOf1(keys[j], u)
      BY <1>10, <2>2, <2>3
    <3>2. KeyAt(n) = SlotKey(intervals[j])
      BY <1>1, <2>1, <2>3 DEF KeyAt
    <3>3. KeyAt(n) = keys[j]
      BY <1>6, <3>2
    <3>4. Decrypted(GroupOf1(keys[j], u), <<keys[j]>>, wrong) = IdsIn(GroupOf1(keys[j], u))
      BY <1>0, DecryptedGroups
    <3>5. QED
      BY <2>0, <2>1, <3>1, <3>3, <3>4
  <2>4. CASE n = 2 * j
    <3>1. q[n] = h /\ n % 2 # 1
      <4>1. q[2 * j] = h
        BY <1>10, <2>2
      <4>2. n % 2 = 0
        BY <2>1, <2>4
      <4>3. QED
        BY <2>4, <4>1, <4>2
    <3>2. KeyAt(n) = UserKey(u)
      BY <1>1, <3>1 DEF KeyAt
    <3>3. Decrypted(GroupOf2(u), <<UserKey(u)>>, wrong) = IdsIn(GroupOf2(u))
      BY <1>0, DecryptedGroups
    <3>4. QED
      BY <1>6, <2>0, <2>1, <3>1, <3>2, <3>3
  <2>5. QED
    BY <2>1, <2>3, <2>4
<1>13. QED
  BY <1>1, <1>2, <1>11, <1>12

LEMMA RangeIsRead ==
  ASSUME JoinInv, result.kind = "found", NEW wrong,
         \A n \in DOMAIN result.intervals :
           Len(RangeOf(result.intervals[n], result.user, result.hits)) = 2
  PROVE  ReadRange(wrong) = UNION {IdsIn(result.range[n]) : n \in DOMAIN result.range}
<1>1. \A n \in DOMAIN result.range :
        /\ (n + 1) \div 2 <= Len(result.intervals)
        /\ Decrypted(result.range[n], <<KeyAt(n)>>, wrong) = IdsIn(result.range[n])
  BY PairsAreRead
<1>2. EntriesRead = DOMAIN result.range
  BY <1>1 DEF EntriesRead
<1>3. {Decrypted(result.range[n], <<KeyAt(n)>>, wrong) : n \in EntriesRead} =
        {IdsIn(result.range[n]) : n \in DOMAIN result.range}
  BY <1>1, <1>2
<1>4. QED
  BY <1>3 DEF ReadRange

LEMMA ClientReads == JoinInv => ClientReadsTheBox
<1> SUFFICES ASSUME JoinInv, result.kind = "found" PROVE ClientReadsTheBox
  BY DEF ClientReadsTheBox
<1>1. \A x \in Joined(UserRows(1)) :
        InBox(rows[1][x[2]].point) /\ ~IsCorner(rows[1][x[2]].point)
          /\ MeetsDomain(result.box) /\ ~HoldsDomain(result.box) => x \in ReachedRows
  BY BoxIsReached
<1>2. ASSUME NEW wrong
      PROVE  /\ ReadStag(wrong) \subseteq FiledInCubes \cup UserRows(2) \cup {Garbage}
             /\ result.hits = {} =>
                  /\ ReadStag(wrong) \subseteq ReachedRows \cup {Garbage} \cup
                                                 (IF ReachedRows = {} THEN {} ELSE UserRows(2))
                  /\ ReachedRows # {} => UserRows(2) \subseteq ReadStag(wrong)
                  /\ \A x \in ReachedRows : ReadOrLost(x, ReadStag(wrong), wrong)
             /\ (\A n \in DOMAIN result.intervals :
                   Len(RangeOf(result.intervals[n], result.user, result.hits)) = 2)
                  => ReadRange(wrong) = UNION {IdsIn(result.range[n]) : n \in DOMAIN result.range}
  <2>1. Joined(FiledUnder(result.cubes)) = ReachedRows
    BY FiledAreReached
  <2>2. ReadStag(wrong) \subseteq FiledInCubes \cup UserRows(2) \cup {Garbage}
    BY StagIsFiled
  <2>3. ASSUME result.hits = {}
        PROVE  /\ ReadStag(wrong) \subseteq ReachedRows \cup {Garbage} \cup
                                              (IF ReachedRows = {} THEN {} ELSE UserRows(2))
               /\ ReachedRows # {} => UserRows(2) \subseteq ReadStag(wrong)
               /\ \A x \in ReachedRows : ReadOrLost(x, ReadStag(wrong), wrong)
    BY <2>1, <2>3, StagIsRead
  <2>4. QED
    BY <2>2, <2>3, RangeIsRead
<1>3. QED
  BY <1>1, <1>2 DEF ClientReadsTheBox, ReachedRows, FiledInCubes, ReadOrLost

(* If the filter was right, the client reads by cubes the joined rows that *)
(* the query reaches and all their partners; a row it misses has been      *)
(* turned into garbage by a key of another cube, which is tried first.     *)
(* Rows in a box that meets the domain are reached, but for corners of the *)
(* domain and boxes as large as it.  If the filter was wrong it may show   *)
(* rows of other users as well, but only such as are filed under a cube of *)
(* the query.  By slots it reads all if each slot gave one pair.  That is  *)
(* so whichever wrong keys decrypt (the loops over ResStag and ResRange in *)
(* JXTpTest).                                                              *)
THEOREM ClientReadsItsBox == JoinSpec => []ClientReadsTheBox
<1>1. JoinInv => ClientReadsTheBox
  BY ClientReads
<1>2. QED
  BY <1>1, JoinInvariant, PTL
=============================================================================
