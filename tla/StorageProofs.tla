---------------------------- MODULE StorageProofs ----------------------------
(***************************************************************************)
(* Proofs about the storage components.  First PageManagement, for any     *)
(* keys, any number and size of pages, any batch and any read buffer; then *)
(* libbf: that the blocks of a bit vector are exactly the bits its callers *)
(* set, for any width of a block, and what the filters count and remember, *)
(* for any objects and hashers.                                            *)
(***************************************************************************)
EXTENDS PageManagement, Bitvector, BloomVariants, SumTheorems, SequenceTheorems


-----------------------------------------------------------------------------
(* The inductive invariant                                                 *)

TypeInv ==
  /\ mfree \in Seq(MemPage) /\ mused \in Seq(MemPage) /\ dfree \in Seq(DiskPage)
  /\ rows \in [Page -> Seq(Nat)]
  /\ index \in [DOMAIN index -> SUBSET Page] /\ DOMAIN index \subseteq Key
  /\ usedPage \in [DOMAIN index -> MemPage]
  /\ bufPages \in Nat /\ given \in [Key -> Nat]
  /\ call \in {Idle} \cup [kind : {"write"}, left : Nat]
               \cup [kind : {"set"}, left : Nat \ {0}, key : Key]
  /\ call.kind = "set" /\ fault = "none" => call.key \in DOMAIN index

(* Pages move from one queue to the other and never come back: none is     *)
(* queued twice, and a page in use is in no queue it could be taken from.  *)
QueueInv ==
  /\ IsInjective(mfree) /\ IsInjective(mused) /\ IsInjective(dfree)
  /\ \A k \in DOMAIN index : index[k] \cap (Range(mfree) \cup Range(dfree)) = {}
  /\ \A p \in Range(mused) : \E k \in DOMAIN index : p \in index[k]
  /\ Len(mfree) + Len(mused) <= Len(dfree)

OwnerInv ==
  /\ \A k, l \in DOMAIN index : k # l => index[k] \cap index[l] = {}
  /\ \A k \in DOMAIN index :
       ~IsFull(usedPage[k]) => usedPage[k] \in index[k] \cap Range(mused)
  /\ fault = "no used page" => \A k \in DOMAIN index : IsFull(usedPage[k])

(* A page that waits for its first item is empty, and so is the count of a *)
(* key that was never stored under.                                        *)
ItemInv ==
  /\ \A p \in Range(mfree) : rows[p] = <<>>
  /\ \A k \in Key \ DOMAIN index : given[k] = 0
  /\ PagesHoldEveryItem

PageInv == TypeInv /\ QueueInv /\ OwnerInv /\ ItemInv

-----------------------------------------------------------------------------
(* Queues                                                                  *)

(* Taking the first element of a queue without duplicates. *)
LEMMA Popped ==
  ASSUME NEW S, NEW q \in Seq(S), q # <<>>, IsInjective(q)
  PROVE  /\ Tail(q) \in Seq(S) /\ IsInjective(Tail(q)) /\ Len(Tail(q)) = Len(q) - 1
         /\ Head(q) \in S /\ Head(q) \in Range(q)
         /\ Range(Tail(q)) = Range(q) \ {Head(q)}
<1>1. /\ Tail(q) \in Seq(S) /\ Len(Tail(q)) = Len(q) - 1 /\ Len(q) \in Nat \ {0}
      /\ \A i \in 1 .. Len(q) - 1 : Tail(q)[i] = q[i + 1]
      /\ Head(q) = q[1] /\ DOMAIN q = 1 .. Len(q) /\ DOMAIN Tail(q) = 1 .. Len(q) - 1
  OBVIOUS
<1>2. \A i, j \in 1 .. Len(q) : q[i] = q[j] => i = j
  BY <1>1 DEF IsInjective
<1>3. IsInjective(Tail(q))
  <2>1. \A i, j \in 1 .. Len(q) - 1 : Tail(q)[i] = Tail(q)[j] => i = j
    BY <1>1, <1>2
  <2>2. QED
    BY <1>1, <2>1 DEF IsInjective
<1>4. Head(q) \in Range(q) /\ Head(q) \in S
  BY <1>1 DEF Range
<1>5. Range(Tail(q)) = Range(q) \ {Head(q)}
  <2>1. ASSUME NEW x \in Range(Tail(q)) PROVE x \in Range(q) \ {Head(q)}
    <3>1. PICK i \in 1 .. Len(q) - 1 : x = q[i + 1]
      BY <1>1 DEF Range
    <3>2. i + 1 \in 1 .. Len(q) /\ 1 \in 1 .. Len(q) /\ i + 1 # 1
      BY <1>1
    <3>3. QED
      BY <1>1, <1>2, <3>1, <3>2 DEF Range
  <2>2. ASSUME NEW x \in Range(q) \ {Head(q)} PROVE x \in Range(Tail(q))
    <3>1. PICK i \in 1 .. Len(q) : x = q[i]
      BY <1>1 DEF Range
    <3>2. i - 1 \in 1 .. Len(q) - 1 /\ (i - 1) + 1 = i
      BY <1>1, <2>2, <3>1
    <3>3. x = Tail(q)[i - 1]
      BY <1>1, <3>1, <3>2
    <3>4. QED
      BY <1>1, <3>2, <3>3 DEF Range
  <2>3. QED
    BY <2>1, <2>2
<1>6. QED
  BY <1>1, <1>3, <1>4, <1>5

(* Appending an element. *)
LEMMA Pushed ==
  ASSUME NEW S, NEW q \in Seq(S), NEW x \in S
  PROVE  /\ Append(q, x) \in Seq(S) /\ Len(Append(q, x)) = Len(q) + 1
         /\ Range(Append(q, x)) = Range(q) \cup {x}
         /\ IsInjective(q) /\ x \notin Range(q) => IsInjective(Append(q, x))
<1>1. /\ Append(q, x) \in Seq(S) /\ Len(Append(q, x)) = Len(q) + 1 /\ Len(q) \in Nat
      /\ DOMAIN q = 1 .. Len(q) /\ DOMAIN Append(q, x) = 1 .. Len(q) + 1
      /\ Append(q, x)[Len(q) + 1] = x
      /\ \A i \in 1 .. Len(q) : Append(q, x)[i] = q[i]
  OBVIOUS
<1>2. Range(Append(q, x)) = Range(q) \cup {x}
  BY <1>1 DEF Range
<1>3. ASSUME IsInjective(q), x \notin Range(q) PROVE IsInjective(Append(q, x))
  <2>1. \A i \in 1 .. Len(q) : q[i] # x
    BY <1>1, <1>3 DEF Range
  <2>2. \A i, j \in 1 .. Len(q) : q[i] = q[j] => i = j
    BY <1>1, <1>3 DEF IsInjective
  <2>3. \A i, j \in 1 .. Len(q) + 1 : Append(q, x)[i] = Append(q, x)[j] => i = j
    BY <1>1, <2>1, <2>2
  <2>4. QED
    BY <1>1, <2>3 DEF IsInjective
<1>4. QED
  BY <1>1, <1>2, <1>3

-----------------------------------------------------------------------------
(* The types                                                               *)

Calls ==
  {Idle} \cup [kind : {"write"}, left : Nat] \cup [kind : {"set"}, left : Nat \ {0}, key : Key]

(* Memory and disk pages are different, and there are finitely many. *)
LEMMA PageFacts ==
  /\ MemPage \cap DiskPage = {} /\ Page = 1 .. 2 * NumPages /\ Page \subseteq Nat
  /\ IsFiniteSet(Page)
<1>1. MemPage \cap DiskPage = {} /\ Page = 1 .. 2 * NumPages /\ Page \subseteq Nat
  BY PageAssumption DEF MemPage, DiskPage, Page
<1>2. IsFiniteSet(1 .. 2 * NumPages)
  BY PageAssumption, FS_Interval
<1>3. QED
  BY <1>1, <1>2

LEMMA InitPageInv == Init => PageInv
<1> SUFFICES ASSUME Init PROVE PageInv
  OBVIOUS
<1> USE DEF Init
<1>1. /\ mfree \in Seq(MemPage) /\ Len(mfree) = NumPages
      /\ mused \in Seq(MemPage) /\ Len(mused) = 0
      /\ dfree \in Seq(DiskPage) /\ Len(dfree) = NumPages
  BY PageAssumption DEF MemPage, DiskPage
<1>2. DOMAIN index = {} /\ index = [k \in {} |-> {}] /\ usedPage = [k \in {} |-> 1]
  OBVIOUS
<1>3. TypeInv
  BY <1>1, <1>2 DEF TypeInv, Idle
<1>4. QueueInv
  <2>1. IsInjective(mfree) /\ IsInjective(mused) /\ IsInjective(dfree)
    BY PageAssumption DEF IsInjective, MemPage
  <2>2. Range(mused) = {}
    BY DEF Range
  <2>3. QED
    BY <1>1, <1>2, <2>1, <2>2, PageAssumption DEF QueueInv
<1>5. OwnerInv
  BY <1>2 DEF OwnerInv
<1>6. ItemInv
  <2>1. \A p \in Range(mfree) : p \in Page
    BY DEF Range, MemPage, Page
  <2>2. QED
    BY <1>2, <2>1 DEF ItemInv, PagesHoldEveryItem
<1>7. QED
  BY <1>3, <1>4, <1>5, <1>6 DEF PageInv

(* What a step leaves as it is needs no proof; a step that only goes on    *)
(* with its call, reads, or runs into undefined behaviour leaves it all.   *)
LEMMA PagesRest ==
  ASSUME PageInv, UNCHANGED <<mfree, mused, dfree, rows, index, usedPage, given>>,
         bufPages' \in Nat, call' \in Calls,
         call'.kind = "set" /\ fault' = "none" => call'.key \in DOMAIN index,
         fault' = "no used page" => \A k \in DOMAIN index : IsFull(usedPage[k])
  PROVE  PageInv'
<1>1. TypeInv'
  BY DEF PageInv, TypeInv, Calls
<1>2. QueueInv'
  BY DEF PageInv, QueueInv
<1>3. OwnerInv'
  BY DEF PageInv, OwnerInv, IsFull
<1>4. ItemInv'
  <2>1. Filled' = Filled
    BY DEF Filled
  <2>2. \A k \in DOMAIN index : RowsOf(index[k])' = RowsOf(index[k])
    BY DEF RowsOf
  <2>3. QED
    BY <2>1, <2>2 DEF PageInv, ItemInv, PagesHoldEveryItem
<1>5. QED
  BY <1>1, <1>2, <1>3, <1>4 DEF PageInv

-----------------------------------------------------------------------------
(* Taking a page                                                           *)

(* What the sums of PagesHoldEveryItem range over. *)
LEMMA FilledFacts ==
  ASSUME TypeInv
  PROVE  /\ \A p \in Page : Filled[p] \in Nat /\ Filled[p] = Len(rows[p])
         /\ \A k \in DOMAIN index : IsFiniteSet(index[k]) /\ index[k] \subseteq Page
<1>1. \A p \in Page : Filled[p] \in Nat /\ Filled[p] = Len(rows[p])
  BY DEF Filled, TypeInv
<1>2. \A k \in DOMAIN index : index[k] \in SUBSET Page
  BY DEF TypeInv
<1>3. \A k \in DOMAIN index : IsFiniteSet(index[k])
  BY <1>2, PageFacts, FS_Subset
<1>4. QED
  BY <1>1, <1>2, <1>3

(* A free page joins the pages of its key.  It is empty, in no index and   *)
(* in no other queue, and it becomes the page in use.                      *)
LEMMA NewPageKeepsPageInv ==
  ASSUME PageInv, fault = "none", NEW k \in Key, NewPage(k),
         call' \in Calls, call'.kind = "set" => call'.key = k
  PROVE  PageInv'
<1>1. CASE mfree = <<>>
  <2>1. /\ UNCHANGED <<mfree, mused, dfree, rows, index, usedPage, given, bufPages>>
        /\ fault' = "no free page"
    BY <1>1 DEF NewPage, Undefined, stored
  <2>2. bufPages' \in Nat
    BY <2>1 DEF PageInv, TypeInv
  <2>3. QED
    BY <2>1, <2>2, PagesRest
<1>2. CASE mfree # <<>>
  <2> DEFINE p == Head(mfree)
             old == IF k \in DOMAIN index THEN index[k] ELSE {}
  <2>0. PageInv /\ TypeInv /\ QueueInv /\ OwnerInv /\ ItemInv
    BY DEF PageInv
  <2>1. /\ mfree' = Tail(mfree) /\ mused' = Append(mused, p)
        /\ usedPage' = Put(usedPage, k, p) /\ index' = Put(index, k, {p} \cup old)
        /\ UNCHANGED <<dfree, rows, bufPages, answer, given, fault>>
    BY <1>2 DEF NewPage, stored
  <2>2. /\ mfree' \in Seq(MemPage) /\ IsInjective(mfree') /\ Len(mfree') = Len(mfree) - 1
        /\ p \in MemPage /\ p \in Range(mfree) /\ Range(mfree') = Range(mfree) \ {p}
    BY <1>2, <2>0, <2>1, Popped DEF TypeInv, QueueInv
  <2> HIDE DEF p
  <2>3. \A l \in DOMAIN index : p \notin index[l]
    BY <2>0, <2>2 DEF QueueInv
  <2>4. p \notin Range(mused)
    BY <2>0, <2>3 DEF QueueInv
  <2>5. /\ mused' \in Seq(MemPage) /\ Len(mused') = Len(mused) + 1 /\ IsInjective(mused')
        /\ Range(mused') = Range(mused) \cup {p}
    BY <2>0, <2>1, <2>2, <2>4, Pushed DEF TypeInv, QueueInv
  <2>6. /\ DOMAIN index' = DOMAIN index \cup {k} /\ index'[k] = {p} \cup old
        /\ \A l \in DOMAIN index \ {k} : index'[l] = index[l]
        /\ index' = [l \in DOMAIN index' |-> index'[l]]
    BY <2>1 DEF Put
  <2>7. /\ DOMAIN usedPage' = DOMAIN index \cup {k} /\ usedPage'[k] = p
        /\ \A l \in DOMAIN index \ {k} : usedPage'[l] = usedPage[l]
        /\ usedPage' = [l \in DOMAIN usedPage' |-> usedPage'[l]]
    BY <2>0, <2>1 DEF Put, TypeInv
  <2>8. p \in Page /\ p \notin DiskPage /\ old \subseteq Page /\ p \notin old
    BY <2>0, <2>2, <2>3, PageFacts DEF TypeInv, Page
  <2> HIDE DEF old
  <2>9. TypeInv'
    <3>1. index' \in [DOMAIN index' -> SUBSET Page] /\ DOMAIN index' \subseteq Key
      BY <2>0, <2>6, <2>8 DEF TypeInv
    <3>2. usedPage' \in [DOMAIN index' -> MemPage]
      BY <2>0, <2>2, <2>6, <2>7 DEF TypeInv
    <3>3. QED
      BY <2>0, <2>1, <2>2, <2>5, <2>6, <3>1, <3>2 DEF TypeInv, Calls
  <2>10. QueueInv'
    <3>1. p \notin Range(mfree') /\ p \notin Range(dfree)
      <4>1. Range(dfree) \subseteq DiskPage
        BY <2>0 DEF TypeInv, Range
      <4>2. QED
        BY <2>2, <2>8, <4>1
    <3>2. old \cap (Range(mfree') \cup Range(dfree)) = {}
      BY <2>0, <2>2 DEF old, QueueInv
    <3>3. ASSUME NEW l \in DOMAIN index'
          PROVE  index'[l] \cap (Range(mfree') \cup Range(dfree')) = {}
      <4>1. CASE l = k
        BY <2>1, <2>6, <3>1, <3>2, <4>1
      <4>2. CASE l # k
        <5>1. index'[l] = index[l] /\ index[l] \cap (Range(mfree) \cup Range(dfree)) = {}
          BY <2>0, <2>6, <4>2 DEF QueueInv
        <5>2. QED
          BY <2>1, <2>2, <5>1
      <4>3. QED
        BY <4>1, <4>2
    <3>4. \A q \in Range(mused') : \E l \in DOMAIN index' : q \in index'[l]
      <4>1. \A q \in Range(mused) : \E l \in DOMAIN index' : q \in index'[l]
        BY <2>0, <2>6 DEF QueueInv, old
      <4>2. QED
        BY <2>5, <2>6, <4>1
    <3>5. Len(mfree') + Len(mused') <= Len(dfree')
      BY <2>0, <2>1, <2>2, <2>5 DEF QueueInv, TypeInv
    <3>6. QED
      BY <2>0, <2>1, <2>2, <2>5, <3>3, <3>4, <3>5 DEF QueueInv
  <2>11. OwnerInv'
    <3>1. \A l, m \in DOMAIN index' : l # m => index'[l] \cap index'[m] = {}
      <4>1. \A l \in DOMAIN index \ {k} : index[l] \cap ({p} \cup old) = {}
        BY <2>0, <2>3 DEF OwnerInv, old
      <4>2. QED
        BY <2>0, <2>6, <4>1 DEF OwnerInv
    <3>2. ASSUME NEW l \in DOMAIN index', ~(Len(rows'[usedPage'[l]]) >= PageItems)
          PROVE  usedPage'[l] \in index'[l] \cap Range(mused')
      <4>1. CASE l = k
        BY <2>5, <2>6, <2>7, <4>1
      <4>2. CASE l # k
        <5>1. l \in DOMAIN index /\ index'[l] = index[l] /\ usedPage'[l] = usedPage[l]
          BY <2>6, <2>7, <4>2
        <5>2. usedPage[l] \in index[l] \cap Range(mused)
          BY <2>0, <2>1, <3>2, <5>1 DEF OwnerInv, IsFull
        <5>3. QED
          BY <2>5, <5>1, <5>2
      <4>3. QED
        BY <4>1, <4>2
    <3>3. fault' # "no used page"
      BY <2>1
    <3>4. QED
      BY <3>1, <3>2, <3>3 DEF OwnerInv, IsFull
  <2>12. ItemInv'
    <3>1. Filled' = Filled /\ Filled[p] = 0
      BY <2>0, <2>1, <2>2, <2>8, FilledFacts DEF Filled, ItemInv
    <3>2. SumFunctionOnSet(Filled, {p} \cup old) = given[k]
      <4>1. IsFiniteSet({p} \cup old) /\ IsFiniteSet(old) /\ {p} \cup old \subseteq Page
        <5>1. {p} \cup old \in SUBSET Page /\ old \in SUBSET Page
          BY <2>8
        <5>2. QED
          BY <5>1, PageFacts, FS_Subset
      <4>2. SumFunctionOnSet(Filled, {p} \cup old) = Filled[p] + SumFunctionOnSet(Filled, old)
        <5>1. ({p} \cup old) \ {p} = old
          BY <2>8
        <5>2. QED
          BY <2>0, <4>1, <5>1, SumTakeOut, FilledFacts
      <4>3. SumFunctionOnSet(Filled, old) = given[k]
        BY <2>0, <4>1, SumStep DEF old, ItemInv, PagesHoldEveryItem
      <4>4. given[k] \in Nat
        BY <2>0 DEF TypeInv
      <4>5. QED
        BY <3>1, <4>2, <4>3, <4>4
    <3>3. k \notin Positional => RowsOf({p} \cup old) = 0 .. given[k] - 1
      <4>1. RowsOf({p} \cup old) = Range(rows[p]) \cup RowsOf(old)
        BY DEF RowsOf
      <4>2. Range(rows[p]) = {}
        BY <2>0, <2>2 DEF ItemInv, Range
      <4>3. k \notin DOMAIN index => RowsOf(old) = {} /\ given[k] = 0
        BY <2>0 DEF old, RowsOf, ItemInv
      <4>4. k \in DOMAIN index /\ k \notin Positional => RowsOf(old) = 0 .. given[k] - 1
        BY <2>0 DEF old, ItemInv, PagesHoldEveryItem
      <4>5. RowsOf({p} \cup old) = RowsOf(old) /\ 0 .. 0 - 1 = {}
        BY <4>1, <4>2
      <4>6. QED
        BY <4>3, <4>4, <4>5
    <3>4. \A l \in DOMAIN index' :
            /\ SumFunctionOnSet(Filled, index'[l]) = given[l]
            /\ l \notin Positional => RowsOf(index'[l]) = 0 .. given[l] - 1
      BY <2>0, <2>6, <3>2, <3>3 DEF PagesHoldEveryItem, ItemInv
    <3>5. PagesHoldEveryItem'
      <4>1. \A l \in DOMAIN index' : RowsOf(index[l])' = RowsOf(index'[l])
        BY <2>1 DEF RowsOf
      <4>2. QED
        BY <2>1, <3>1, <3>4, <4>1 DEF PagesHoldEveryItem
    <3>6. QED
      BY <2>0, <2>1, <2>2, <2>6, <3>5 DEF ItemInv
  <2>13. QED
    BY <2>9, <2>10, <2>11, <2>12 DEF PageInv
<1>3. QED
  BY <1>1, <1>2

-----------------------------------------------------------------------------
(* Storing an item                                                         *)

(* The rows in some pages, when the pages hold r. *)
RowsIn(r, pages) == UNION {Range(r[p]) : p \in pages}

LEMMA RowsAreUnion ==
  \A r, pages : /\ \A y : y \in RowsIn(r, pages) <=> \E p \in pages : y \in Range(r[p])
                /\ \A z : (\A y : y \in z <=> \E p \in pages : y \in Range(r[p]))
                          => z = RowsIn(r, pages)
BY DEF RowsIn

(* The page in use has room, so it is one of its key's pages and the item  *)
(* counts there; no other key has that page.                               *)
LEMMA SetItemKeepsPageInv ==
  ASSUME PageInv, NEW v \in Value, SetItem(v)
  PROVE  PageInv'
<1> DEFINE k == call.key
           u == usedPage[k]
           x == WritableItem(k)
<1>0. PageInv /\ TypeInv /\ QueueInv /\ OwnerInv /\ ItemInv
  BY DEF PageInv
<1>1. /\ k \in DOMAIN index /\ k \in Key /\ ~IsFull(u) /\ u \in MemPage /\ u \in index[k]
      /\ u \in Range(mused)
  BY <1>0 DEF SetItem, TypeInv, OwnerInv
<1>2. /\ rows' = [rows EXCEPT ![u] = Append(@, x)] /\ given' = [given EXCEPT ![k] = @ + 1]
      /\ call' = IF call.left = 1 THEN Idle ELSE [call EXCEPT !.left = @ - 1]
      /\ UNCHANGED <<mfree, mused, dfree, index, usedPage, bufPages, answer, fault>>
      /\ call.kind = "set" /\ fault = "none"
  BY DEF SetItem
<1>3. x \in Nat
  BY <1>0, <1>1 DEF WritableItem, TypeInv, Page
<1>4. k \notin Positional => x = given[k]
  BY DEF WritableItem
<1> HIDE DEF x, u
<1>5. u \in Page /\ rows[u] \in Seq(Nat) /\ given[k] \in Nat
  BY <1>0, <1>1 DEF TypeInv, Page
<1>6. /\ rows' \in [Page -> Seq(Nat)] /\ Len(rows'[u]) = Len(rows[u]) + 1
      /\ Range(rows'[u]) = Range(rows[u]) \cup {x}
      /\ \A p \in Page \ {u} : rows'[p] = rows[p]
  <2>1. rows \in [Page -> Seq(Nat)]
    BY <1>0 DEF TypeInv
  <2>2. rows'[u] = Append(rows[u], x) /\ \A p \in Page \ {u} : rows'[p] = rows[p]
    BY <1>2, <1>5, <2>1
  <2>3. /\ Append(rows[u], x) \in Seq(Nat) /\ Len(Append(rows[u], x)) = Len(rows[u]) + 1
        /\ Range(Append(rows[u], x)) = Range(rows[u]) \cup {x}
    BY <1>3, <1>5, Pushed
  <2>4. rows' \in [Page -> Seq(Nat)]
    BY <1>2, <2>1, <2>2, <2>3
  <2>5. QED
    BY <2>2, <2>3, <2>4
<1>7. /\ call' \in Calls /\ (call'.kind = "set" => call'.key = k)
  <2>1. CASE call.left = 1
    BY <1>2, <2>1 DEF Calls, Idle
  <2>2. CASE call.left # 1
    <3>1. call \in [kind : {"set"}, left : Nat \ {0}, key : Key]
      BY <1>0, <1>2 DEF TypeInv, Idle
    <3>2. call' = [call EXCEPT !.left = @ - 1] /\ call.left \in Nat \ {0}
      BY <1>2, <2>2, <3>1
    <3>3. call' \in [kind : {"set"}, left : Nat \ {0}, key : Key] /\ call'.key = k
      BY <2>2, <3>1, <3>2
    <3>4. QED
      BY <3>3 DEF Calls
  <2>3. QED
    BY <2>1, <2>2
<1>8. TypeInv'
  <2>1. given' \in [Key -> Nat]
    BY <1>0, <1>2 DEF TypeInv
  <2>2. QED
    BY <1>0, <1>1, <1>2, <1>6, <1>7, <2>1 DEF TypeInv, Calls
<1>9. QueueInv'
  BY <1>0, <1>2 DEF QueueInv
<1>10. OwnerInv'
  <2>1. ASSUME NEW l \in DOMAIN index, ~(Len(rows'[usedPage[l]]) >= PageItems)
        PROVE  usedPage[l] \in index[l] \cap Range(mused)
    <3>1. usedPage[l] \in Page
      BY <1>0 DEF TypeInv, Page
    <3>2. Len(rows'[usedPage[l]]) >= Len(rows[usedPage[l]]) /\ Len(rows[usedPage[l]]) \in Nat
          /\ Len(rows'[usedPage[l]]) \in Nat
      <4>1. rows[usedPage[l]] \in Seq(Nat) /\ rows'[usedPage[l]] \in Seq(Nat)
        BY <1>0, <1>6, <3>1 DEF TypeInv
      <4>2. rows'[usedPage[l]] = rows[usedPage[l]] \/ usedPage[l] = u
        BY <1>6, <3>1
      <4>3. QED
        BY <1>6, <4>1, <4>2
    <3>3. ~IsFull(usedPage[l])
      BY <2>1, <3>2, PageAssumption DEF IsFull
    <3>4. QED
      BY <1>0, <3>3 DEF OwnerInv
  <2>2. QED
    BY <1>0, <1>2, <2>1 DEF OwnerInv, IsFull
<1>11. ItemInv'
  <2>1. u \notin Range(mfree)
    BY <1>0, <1>1 DEF QueueInv
  <2>2. \A p \in Range(mfree) : rows'[p] = <<>>
    <3>1. Range(mfree) \subseteq Page
      BY <1>0 DEF TypeInv, Range, Page
    <3>2. QED
      BY <1>0, <1>6, <2>1, <3>1 DEF ItemInv
  <2>3. \A l \in DOMAIN index \ {k} : u \notin index[l]
    BY <1>0, <1>1 DEF OwnerInv
  <2>4. /\ \A p \in Page : Filled[p] \in Nat /\ Filled[p] = Len(rows[p])
        /\ \A l \in DOMAIN index : IsFiniteSet(index[l]) /\ index[l] \subseteq Page
    BY <1>0, FilledFacts
  <2>5. Filled'[u] = Filled[u] + 1 /\ \A p \in Page \ {u} : Filled'[p] = Filled[p]
    BY <1>5, <1>6, <2>4 DEF Filled
  <2>6. ASSUME NEW l \in DOMAIN index
        PROVE  SumFunctionOnSet(Filled', index[l]) = given'[l]
    <3>1. SumFunctionOnSet(Filled, index[l]) = given[l] /\ given[l] \in Nat
      BY <1>0 DEF ItemInv, PagesHoldEveryItem, TypeInv
    <3>2. CASE l = k
      <4>1. SumFunctionOnSet(Filled', index[l]) =
              SumFunctionOnSet(Filled, index[l]) - Filled[u] + Filled'[u]
        <5>1. /\ IsFiniteSet(index[l]) /\ u \in index[l] /\ \A p \in index[l] : Filled[p] \in Nat
              /\ Filled'[u] \in Nat /\ \A p \in index[l] \ {u} : Filled'[p] = Filled[p]
          BY <1>1, <1>5, <2>4, <2>5, <3>2
        <5>2. QED
          BY <5>1, SumChange
      <4>2. given'[l] = given[l] + 1
        BY <1>0, <1>1, <1>2, <3>2 DEF TypeInv
      <4>3. QED
        BY <1>5, <2>4, <2>5, <3>1, <4>1, <4>2
    <3>3. CASE l # k
      <4>1. SumFunctionOnSet(Filled', index[l]) = SumFunctionOnSet(Filled, index[l])
        <5>1. IsFiniteSet(index[l]) /\ \A p \in index[l] : Filled'[p] = Filled[p]
          BY <2>3, <2>4, <2>5, <3>3
        <5>2. QED
          BY <5>1, SumOfEqualFunctions
      <4>2. given'[l] = given[l]
        BY <1>0, <1>2, <3>3 DEF TypeInv
      <4>3. QED
        BY <3>1, <4>1, <4>2
    <3>4. QED
      BY <3>2, <3>3
  <2>7. ASSUME NEW l \in DOMAIN index, l \notin Positional
        PROVE  RowsOf(index[l])' = 0 .. given'[l] - 1
    <3>1. RowsOf(index[l])' = RowsIn(rows', index[l]) /\ RowsOf(index[l]) = RowsIn(rows, index[l])
      BY <1>2 DEF RowsOf, RowsIn
    <3>2. RowsOf(index[l]) = 0 .. given[l] - 1 /\ given[l] \in Nat
      BY <1>0, <2>7 DEF ItemInv, PagesHoldEveryItem, TypeInv
    <3>3. CASE l = k
      <4>1. RowsIn(rows', index[l]) = RowsIn(rows, index[l]) \cup {x}
        <5>1. u \in index[l] /\ \A p \in index[l] \ {u} : rows'[p] = rows[p]
          BY <1>1, <1>6, <2>4, <3>3
        <5>2. QED
          BY <1>6, <5>1, RowsAreUnion
      <4>2. given'[l] = given[l] + 1 /\ x = given[l]
        BY <1>0, <1>1, <1>2, <1>4, <2>7, <3>3 DEF TypeInv
      <4>3. (0 .. given[l] - 1) \cup {given[l]} = 0 .. (given[l] + 1) - 1
        BY <3>2
      <4>4. QED
        BY <3>1, <3>2, <4>1, <4>2, <4>3
    <3>4. CASE l # k
      <4>1. RowsIn(rows', index[l]) = RowsIn(rows, index[l])
        <5>1. \A p \in index[l] : rows'[p] = rows[p]
          BY <1>6, <2>3, <2>4, <3>4
        <5>2. QED
          BY <5>1, RowsAreUnion
      <4>2. given'[l] = given[l]
        BY <1>0, <1>2, <3>4 DEF TypeInv
      <4>3. QED
        BY <3>1, <3>2, <4>1, <4>2
    <3>5. QED
      BY <3>3, <3>4
  <2>8. PagesHoldEveryItem'
    BY <1>2, <2>6, <2>7 DEF PagesHoldEveryItem
  <2>9. \A l \in Key \ DOMAIN index : given'[l] = 0
    BY <1>0, <1>1, <1>2 DEF ItemInv, TypeInv
  <2>10. QED
    BY <1>2, <2>2, <2>8, <2>9 DEF ItemInv
<1>12. QED
  BY <1>8, <1>9, <1>10, <1>11 DEF PageInv

-----------------------------------------------------------------------------
(* Writing pages to disk                                                   *)

(* What both ways of popping a full page have in common. *)
LEMMA FullPagePopped ==
  ASSUME PageInv, mused # <<>>, IsFull(Head(mused)), mused' = Tail(mused), dfree' = Tail(dfree)
  PROVE  /\ mused' \in Seq(MemPage) /\ IsInjective(mused') /\ Len(mused') = Len(mused) - 1
         /\ dfree' \in Seq(DiskPage) /\ IsInjective(dfree') /\ Len(dfree') = Len(dfree) - 1
         /\ Range(mused') = Range(mused) \ {Head(mused)} /\ Head(mused) \in Range(mused)
         /\ Range(dfree') = Range(dfree) \ {Head(dfree)} /\ Head(dfree) \in Range(dfree)
         /\ Head(mused) \in MemPage /\ Head(dfree) \in DiskPage
         /\ \A k \in DOMAIN index : ~IsFull(usedPage[k]) => usedPage[k] \in index[k] \cap Range(mused')
<1>1. TypeInv /\ QueueInv /\ OwnerInv
  BY DEF PageInv
<1>2. mused \in Seq(MemPage) /\ dfree \in Seq(DiskPage) /\ mfree \in Seq(MemPage)
  BY <1>1 DEF TypeInv
<1>3. dfree # <<>>
  <2>1. Len(mused) > 0 /\ Len(mfree) >= 0 /\ Len(mfree) + Len(mused) <= Len(dfree)
    BY <1>1, <1>2 DEF QueueInv
  <2>2. QED
    BY <1>2, <2>1
<1>4. IsInjective(mused) /\ IsInjective(dfree)
  BY <1>1 DEF QueueInv
<1>5. /\ mused' \in Seq(MemPage) /\ IsInjective(mused') /\ Len(mused') = Len(mused) - 1
      /\ Range(mused') = Range(mused) \ {Head(mused)} /\ Head(mused) \in Range(mused)
      /\ Head(mused) \in MemPage
  BY <1>2, <1>4, Popped
<1>6. /\ dfree' \in Seq(DiskPage) /\ IsInjective(dfree') /\ Len(dfree') = Len(dfree) - 1
      /\ Range(dfree') = Range(dfree) \ {Head(dfree)} /\ Head(dfree) \in Range(dfree)
      /\ Head(dfree) \in DiskPage
  BY <1>2, <1>3, <1>4, Popped
<1>7. \A k \in DOMAIN index : ~IsFull(usedPage[k]) => usedPage[k] \in index[k] \cap Range(mused')
  <2>1. SUFFICES ASSUME NEW k \in DOMAIN index, ~IsFull(usedPage[k])
                 PROVE  usedPage[k] \in index[k] \cap Range(mused')
    OBVIOUS
  <2>2. usedPage[k] \in index[k] \cap Range(mused) /\ usedPage[k] # Head(mused)
    BY <1>1, <2>1 DEF OwnerInv
  <2>3. QED
    BY <1>5, <2>2
<1>8. QED
  BY <1>5, <1>6, <1>7

(* The rest of the batch. *)
LEMMA WriteGoesOn ==
  ASSUME PageInv, call.kind = "write", call.left > 0
  PROVE  /\ [call EXCEPT !.left = @ - 1] \in Calls
         /\ [call EXCEPT !.left = @ - 1].kind = "write"
<1>1. call \in [kind : {"write"}, left : Nat]
  BY DEF PageInv, TypeInv, Idle
<1>2. QED
  BY <1>1 DEF Calls

(* The disk page takes the place of the full memory page, contents and     *)
(* index alike, so that the sums stay.  The memory page leaves every       *)
(* structure; the page in use cannot be one with room.                     *)
LEMMA SpillPageKeepsPageInv ==
  ASSUME PageInv, call.kind = "write", call.left > 0, fault = "none", SpillPage
  PROVE  PageInv'
<1> DEFINE p == Head(mused)
           d == Head(dfree)
           k == OwnerOf(p)
           rest == index[k] \ {p}
<1>0. PageInv /\ TypeInv /\ QueueInv /\ OwnerInv /\ ItemInv
  BY DEF PageInv
<1>1. /\ mused # <<>> /\ IsFull(p) /\ mused' = Tail(mused) /\ dfree' = Tail(dfree)
      /\ rows' = [rows EXCEPT ![d] = rows[p]] /\ index' = [index EXCEPT ![k] = (@ \ {p}) \cup {d}]
      /\ call' = [call EXCEPT !.left = @ - 1]
      /\ UNCHANGED <<mfree, usedPage, bufPages, answer, given, fault>>
  BY DEF SpillPage
<1>2. /\ mused' \in Seq(MemPage) /\ IsInjective(mused') /\ Len(mused') = Len(mused) - 1
      /\ dfree' \in Seq(DiskPage) /\ IsInjective(dfree') /\ Len(dfree') = Len(dfree) - 1
      /\ Range(mused') = Range(mused) \ {p} /\ p \in Range(mused)
      /\ Range(dfree') = Range(dfree) \ {d} /\ d \in Range(dfree)
      /\ p \in MemPage /\ d \in DiskPage
      /\ \A l \in DOMAIN index : ~IsFull(usedPage[l]) => usedPage[l] \in index[l] \cap Range(mused')
  BY <1>0, <1>1, FullPagePopped
<1>3. call' \in Calls /\ call'.kind = "write"
  BY <1>0, <1>1, WriteGoesOn
<1>4. k \in DOMAIN index /\ p \in index[k]
  <2>1. \E l \in DOMAIN index : p \in index[l]
    BY <1>0, <1>2 DEF QueueInv
  <2>2. QED
    BY <2>1 DEF OwnerOf
<1> HIDE DEF p, d, k
<1>5. p \in Page /\ d \in Page /\ p # d
  BY <1>2, PageFacts DEF Page
<1>6. \A l \in DOMAIN index : d \notin index[l]
  BY <1>0, <1>2 DEF QueueInv
<1>7. \A l \in DOMAIN index \ {k} : p \notin index[l]
  BY <1>0, <1>4 DEF OwnerInv
<1>8. /\ DOMAIN index' = DOMAIN index /\ index'[k] = rest \cup {d}
      /\ \A l \in DOMAIN index \ {k} : index'[l] = index[l]
      /\ index \in [DOMAIN index -> SUBSET Page]
  BY <1>0, <1>1, <1>4 DEF TypeInv
<1>9. /\ rows' \in [Page -> Seq(Nat)] /\ rows'[d] = rows[p]
      /\ \A q \in Page \ {d} : rows'[q] = rows[q]
  <2>1. rows \in [Page -> Seq(Nat)]
    BY <1>0 DEF TypeInv
  <2>2. QED
    BY <1>1, <1>5, <2>1
<1>10. rest \subseteq Page /\ p \notin rest /\ d \notin rest /\ index[k] = rest \cup {p}
  BY <1>4, <1>6, <1>8
<1>11. TypeInv'
  <2>1. index' \in [DOMAIN index' -> SUBSET Page]
    <3>1. \A l \in DOMAIN index' : index'[l] \in SUBSET Page
      BY <1>5, <1>8, <1>10
    <3>2. QED
      BY <1>1, <1>8, <3>1
  <2>2. QED
    BY <1>0, <1>1, <1>2, <1>3, <1>8, <1>9, <2>1 DEF TypeInv, Calls
<1> HIDE DEF rest
<1>12. QueueInv'
  <2>1. ASSUME NEW l \in DOMAIN index
        PROVE  index'[l] \cap (Range(mfree) \cup Range(dfree')) = {}
    <3>1. index[l] \cap (Range(mfree) \cup Range(dfree)) = {}
      BY <1>0 DEF QueueInv
    <3>2. d \notin Range(mfree)
      <4>1. Range(mfree) \subseteq MemPage
        BY <1>0 DEF TypeInv, Range
      <4>2. QED
        BY <1>2, <4>1, PageFacts
    <3>3. index'[l] \subseteq index[l] \cup {d}
      BY <1>8, <1>10
    <3>4. QED
      BY <1>2, <3>1, <3>2, <3>3
  <2>2. ASSUME NEW q \in Range(mused') PROVE \E l \in DOMAIN index : q \in index'[l]
    <3>1. PICK l \in DOMAIN index : q \in index[l]
      BY <1>0, <1>2 DEF QueueInv
    <3>2. q # p
      BY <1>2
    <3>3. q \in index'[l]
      BY <1>8, <1>10, <3>1, <3>2
    <3>4. QED
      BY <3>3
  <2>3. Len(mfree) + Len(mused') <= Len(dfree')
    BY <1>0, <1>2 DEF QueueInv, TypeInv
  <2>4. QED
    BY <1>0, <1>1, <1>2, <1>8, <2>1, <2>2, <2>3 DEF QueueInv
<1>13. OwnerInv'
  <2>1. \A l, m \in DOMAIN index : l # m => index'[l] \cap index'[m] = {}
    <3>1. \A l, m \in DOMAIN index : l # m => index[l] \cap index[m] = {}
      BY <1>0 DEF OwnerInv
    <3>2. \A l \in DOMAIN index \ {k} : (rest \cup {d}) \cap index[l] = {}
      BY <1>4, <1>6, <1>10, <3>1
    <3>3. QED
      BY <1>4, <1>8, <3>1, <3>2
  <2>2. ASSUME NEW l \in DOMAIN index, ~(Len(rows'[usedPage[l]]) >= PageItems)
        PROVE  usedPage[l] \in index'[l] \cap Range(mused')
    <3>1. usedPage[l] \in MemPage
      BY <1>0 DEF TypeInv
    <3>2. usedPage[l] \in Page /\ usedPage[l] # d
      BY <1>2, <3>1, PageFacts DEF Page
    <3>3. usedPage[l] \in index[l] \cap Range(mused')
      BY <1>2, <1>9, <2>2, <3>2 DEF IsFull
    <3>4. usedPage[l] # p
      BY <1>2, <3>3
    <3>5. QED
      BY <1>8, <1>10, <3>3, <3>4
  <2>3. fault' # "no used page"
    BY <1>1
  <2>4. QED
    BY <1>1, <1>8, <2>1, <2>2, <2>3 DEF OwnerInv, IsFull
<1>14. ItemInv'
  <2>1. \A q \in Range(mfree) : rows'[q] = <<>>
    <3>1. Range(mfree) \subseteq MemPage
      BY <1>0 DEF TypeInv, Range
    <3>2. QED
      BY <1>0, <1>2, <1>9, <3>1, PageFacts DEF ItemInv, Page
  <2>2. /\ \A q \in Page : Filled[q] \in Nat /\ Filled[q] = Len(rows[q])
        /\ \A l \in DOMAIN index : IsFiniteSet(index[l]) /\ index[l] \subseteq Page
    BY <1>0, FilledFacts
  <2>3. Filled'[d] = Filled[p] /\ \A q \in Page \ {d} : Filled'[q] = Filled[q]
    BY <1>5, <1>9 DEF Filled
  <2>4. SumFunctionOnSet(Filled', rest \cup {d}) = SumFunctionOnSet(Filled, rest \cup {p})
    <3>1. IsFiniteSet(rest) /\ IsFiniteSet(rest \cup {p}) /\ IsFiniteSet(rest \cup {d})
      <4>1. rest \in SUBSET Page /\ rest \cup {p} \in SUBSET Page /\ rest \cup {d} \in SUBSET Page
        BY <1>5, <1>10
      <4>2. QED
        BY <4>1, PageFacts, FS_Subset
    <3>2. SumFunctionOnSet(Filled, rest \cup {p}) = Filled[p] + SumFunctionOnSet(Filled, rest)
      <4>1. (rest \cup {p}) \ {p} = rest /\ \A q \in rest \cup {p} : Filled[q] \in Nat
        BY <1>5, <1>10, <2>2
      <4>2. QED
        BY <3>1, <4>1, SumTakeOut
    <3>3. SumFunctionOnSet(Filled', rest \cup {d}) = Filled'[d] + SumFunctionOnSet(Filled', rest)
      <4>1. (rest \cup {d}) \ {d} = rest /\ \A q \in rest \cup {d} : Filled'[q] \in Nat
        BY <1>5, <1>10, <2>2, <2>3
      <4>2. QED
        BY <3>1, <4>1, SumTakeOut
    <3>4. SumFunctionOnSet(Filled', rest) = SumFunctionOnSet(Filled, rest)
      <4>1. \A q \in rest : Filled'[q] = Filled[q]
        BY <1>10, <2>3
      <4>2. QED
        BY <3>1, <4>1, SumOfEqualFunctions
    <3>5. QED
      BY <2>3, <3>2, <3>3, <3>4
  <2>5. RowsIn(rows', rest \cup {d}) = RowsIn(rows, rest \cup {p})
    <3>1. \A q \in rest : rows'[q] = rows[q]
      BY <1>9, <1>10
    <3>2. \A y : y \in RowsIn(rows, rest \cup {p}) <=> \E q \in rest \cup {d} : y \in Range(rows'[q])
      BY <1>9, <3>1, RowsAreUnion
    <3>3. QED
      BY <3>2, RowsAreUnion
  <2>6. ASSUME NEW l \in DOMAIN index
        PROVE  /\ SumFunctionOnSet(Filled', index'[l]) = given[l]
               /\ l \notin Positional => RowsIn(rows', index'[l]) = 0 .. given[l] - 1
    <3>1. /\ SumFunctionOnSet(Filled, index[l]) = given[l]
          /\ l \notin Positional => RowsIn(rows, index[l]) = 0 .. given[l] - 1
      BY <1>0 DEF ItemInv, PagesHoldEveryItem, RowsOf, RowsIn
    <3>2. CASE l = k
      BY <1>8, <1>10, <2>4, <2>5, <3>1, <3>2
    <3>3. CASE l # k
      <4>1. IsFiniteSet(index[l]) /\ \A q \in index[l] : Filled'[q] = Filled[q] /\ rows'[q] = rows[q]
        BY <1>6, <1>9, <2>2, <2>3
      <4>2. SumFunctionOnSet(Filled', index[l]) = SumFunctionOnSet(Filled, index[l])
        BY <4>1, SumOfEqualFunctions
      <4>3. RowsIn(rows', index[l]) = RowsIn(rows, index[l])
        <5>1. \A y : y \in RowsIn(rows, index[l]) <=> \E q \in index[l] : y \in Range(rows'[q])
          BY <4>1, RowsAreUnion
        <5>2. QED
          BY <5>1, RowsAreUnion
      <4>4. QED
        BY <1>8, <3>1, <3>3, <4>2, <4>3
    <3>4. QED
      BY <3>2, <3>3
  <2>7. PagesHoldEveryItem'
    <3>1. \A l \in DOMAIN index : RowsOf(index[l])' = RowsIn(rows', index'[l])
      BY DEF RowsOf, RowsIn
    <3>2. QED
      BY <1>1, <1>8, <2>6, <3>1 DEF PagesHoldEveryItem
  <2>8. QED
    BY <1>0, <1>1, <1>8, <2>1, <2>7 DEF ItemInv
<1>15. QED
  BY <1>11, <1>12, <1>13, <1>14 DEF PageInv

(* The write that throws leaves the index at the memory page: only the     *)
(* queues change.                                                          *)
LEMMA SpillFailsKeepsPageInv ==
  ASSUME PageInv, fault = "none", SpillFails
  PROVE  PageInv'
<1>0. PageInv /\ TypeInv /\ QueueInv /\ OwnerInv /\ ItemInv
  BY DEF PageInv
<1>1. /\ mused # <<>> /\ IsFull(Head(mused)) /\ mused' = Tail(mused) /\ dfree' = Tail(dfree)
      /\ call' = Idle
      /\ UNCHANGED <<mfree, rows, index, usedPage, bufPages, answer, given, fault>>
  BY DEF SpillFails, stored
<1>2. /\ mused' \in Seq(MemPage) /\ IsInjective(mused') /\ Len(mused') = Len(mused) - 1
      /\ dfree' \in Seq(DiskPage) /\ IsInjective(dfree') /\ Len(dfree') = Len(dfree) - 1
      /\ Range(mused') = Range(mused) \ {Head(mused)}
      /\ Range(dfree') = Range(dfree) \ {Head(dfree)}
      /\ \A k \in DOMAIN index : ~IsFull(usedPage[k]) => usedPage[k] \in index[k] \cap Range(mused')
  BY <1>0, <1>1, FullPagePopped
<1>3. TypeInv'
  BY <1>0, <1>1, <1>2 DEF TypeInv, Idle
<1>4. QueueInv'
  <2>1. \A k \in DOMAIN index : index[k] \cap (Range(mfree) \cup Range(dfree')) = {}
    <3>1. \A k \in DOMAIN index : index[k] \cap (Range(mfree) \cup Range(dfree)) = {}
      BY <1>0 DEF QueueInv
    <3>2. Range(dfree') \subseteq Range(dfree)
      BY <1>2
    <3>3. QED
      BY <3>1, <3>2
  <2>2. \A p \in Range(mused') : \E k \in DOMAIN index : p \in index[k]
    BY <1>0, <1>2 DEF QueueInv
  <2>3. Len(mfree) + Len(mused') <= Len(dfree')
    BY <1>0, <1>2 DEF QueueInv, TypeInv
  <2>4. QED
    BY <1>0, <1>1, <1>2, <2>1, <2>2, <2>3 DEF QueueInv
<1>5. OwnerInv'
  BY <1>0, <1>1, <1>2 DEF OwnerInv, IsFull
<1>6. ItemInv'
  <2>1. Filled' = Filled
    BY <1>1 DEF Filled
  <2>2. \A k \in DOMAIN index : RowsOf(index[k])' = RowsOf(index[k])
    BY <1>1 DEF RowsOf
  <2>3. QED
    BY <1>0, <1>1, <2>1, <2>2 DEF ItemInv, PagesHoldEveryItem
<1>7. QED
  BY <1>3, <1>4, <1>5, <1>6 DEF PageInv

(* A page with room goes from the front of the used queue to the back. *)
LEMMA SpillStopsKeepsPageInv ==
  ASSUME PageInv, fault = "none", SpillStops
  PROVE  PageInv'
<1>0. PageInv /\ TypeInv /\ QueueInv /\ OwnerInv /\ ItemInv
  BY DEF PageInv
<1>1. /\ mused # <<>> /\ mused' = Append(Tail(mused), Head(mused)) /\ call' = Idle
      /\ UNCHANGED <<mfree, dfree, rows, index, usedPage, bufPages, answer, given, fault>>
  BY DEF SpillStops, stored
<1>2. /\ Tail(mused) \in Seq(MemPage) /\ IsInjective(Tail(mused))
      /\ Len(Tail(mused)) = Len(mused) - 1 /\ Head(mused) \in MemPage
      /\ Head(mused) \in Range(mused) /\ Range(Tail(mused)) = Range(mused) \ {Head(mused)}
  BY <1>0, <1>1, Popped DEF TypeInv, QueueInv
<1>3. /\ mused' \in Seq(MemPage) /\ Len(mused') = (Len(mused) - 1) + 1
      /\ Range(mused') = (Range(mused) \ {Head(mused)}) \cup {Head(mused)}
      /\ IsInjective(mused')
  <2> DEFINE q == Tail(mused)
             x == Head(mused)
  <2>1. mused' = Append(q, x) /\ q \in Seq(MemPage) /\ x \in MemPage
        /\ IsInjective(q) /\ x \notin Range(q)
    BY <1>1, <1>2
  <2>2. /\ Append(q, x) \in Seq(MemPage) /\ Len(Append(q, x)) = Len(q) + 1
        /\ Range(Append(q, x)) = Range(q) \cup {x} /\ IsInjective(Append(q, x))
    <3> HIDE DEF q, x
    <3>1. QED
      BY <2>1, Pushed
  <2>3. QED
    BY <1>2, <2>1, <2>2
<1>4. Range(mused') = Range(mused) /\ Len(mused') = Len(mused)
  BY <1>0, <1>2, <1>3 DEF TypeInv
<1>5. TypeInv' /\ QueueInv'
  BY <1>0, <1>1, <1>3, <1>4 DEF TypeInv, QueueInv, Idle
<1>6. OwnerInv'
  BY <1>0, <1>1, <1>4 DEF OwnerInv, IsFull
<1>7. ItemInv'
  <2>1. Filled' = Filled
    BY <1>1 DEF Filled
  <2>2. \A k \in DOMAIN index : RowsOf(index[k])' = RowsOf(index[k])
    BY <1>1 DEF RowsOf
  <2>3. QED
    BY <1>0, <1>1, <2>1, <2>2 DEF ItemInv, PagesHoldEveryItem
<1>8. QED
  BY <1>5, <1>6, <1>7 DEF PageInv

-----------------------------------------------------------------------------
(* All steps                                                               *)

LEMMA NextKeepsPageInv == PageInv /\ [Next]_vars => PageInv'
<1> SUFFICES ASSUME PageInv, [Next]_vars PROVE PageInv'
  OBVIOUS
<1>0. bufPages \in Nat /\ call \in Calls /\ (call.kind = "set" /\ fault = "none" => call.key \in DOMAIN index)
      /\ (fault = "no used page" => \A k \in DOMAIN index : IsFull(usedPage[k]))
  BY DEF PageInv, TypeInv, OwnerInv, Calls
<1>1. ASSUME NEW k \in Key, NEW n \in Counts, Set(k, n) PROVE PageInv'
  <2>1. call' \in Calls /\ (call'.kind = "set" => call'.key = k) /\ fault = "none"
    <3>1. call' = (IF n = 0 THEN Idle ELSE [kind |-> "set", left |-> n, key |-> k]) /\ n \in Nat
      BY <1>1, PageAssumption DEF Set
    <3>2. QED
      BY <1>1, <3>1 DEF Set, Calls, Idle
  <2>2. CASE k \in DOMAIN index /\ ~IsFull(usedPage[k])
    <3>1. UNCHANGED <<mfree, mused, dfree, rows, index, usedPage, bufPages, answer, given, fault>>
      BY <1>1, <2>2 DEF Set, stored
    <3>2. QED
      BY <1>0, <2>1, <2>2, <3>1, PagesRest
  <2>3. CASE NewPage(k)
    BY <2>1, <2>3, NewPageKeepsPageInv
  <2>4. QED
    BY <1>1, <2>2, <2>3 DEF Set
<1>2. CASE SetNextPage
  <2>1. NewPage(call.key) /\ call' = call /\ call.kind = "set" /\ fault = "none"
    BY <1>2 DEF SetNextPage
  <2>2. call.key \in Key
    BY <1>0, <2>1 DEF Calls, Idle
  <2>3. QED
    BY <1>0, <2>1, <2>2, NewPageKeepsPageInv
<1>3. ASSUME NEW v \in Value, SetItem(v) PROVE PageInv'
  BY <1>3, SetItemKeepsPageInv
<1>4. CASE Write2Disk \/ WriteDone
  <2>1. call' \in Calls /\ call'.kind # "set"
    BY <1>4, PageAssumption DEF Write2Disk, WriteDone, Calls, Idle
  <2>2. QED
    BY <1>0, <1>4, <2>1, PagesRest DEF Write2Disk, WriteDone, stored
<1>5. CASE WriteStep
  <2>1. call.kind = "write" /\ call.left > 0 /\ fault = "none"
    BY <1>5 DEF WriteStep
  <2>2. CASE SpillPage
    BY <2>1, <2>2, SpillPageKeepsPageInv
  <2>3. CASE SpillFails
    BY <2>1, <2>3, SpillFailsKeepsPageInv
  <2>4. CASE SpillStops
    BY <2>1, <2>4, SpillStopsKeepsPageInv
  <2>5. CASE SpillStarves
    <3>1. /\ mused = <<>> /\ call' = call /\ fault' = "no used page"
          /\ UNCHANGED <<mfree, mused, dfree, rows, index, usedPage, bufPages, answer, given>>
      BY <2>5 DEF SpillStarves, Undefined, stored
    <3>2. \A k \in DOMAIN index : IsFull(usedPage[k])
      <4>1. Range(mused) = {}
        <5>1. mused \in Seq(MemPage) /\ Len(mused) = 0
          BY <3>1 DEF PageInv, TypeInv
        <5>2. DOMAIN mused = {}
          BY <5>1
        <5>3. QED
          BY <5>2 DEF Range
      <4>2. QED
        BY <4>1 DEF PageInv, OwnerInv
    <3>3. QED
      BY <1>0, <2>1, <3>1, <3>2, PagesRest
  <2>6. QED
    BY <1>5, <2>2, <2>3, <2>4, <2>5 DEF WriteStep
<1>6. ASSUME NEW k \in Key, Get(k) PROVE PageInv'
  <2> DEFINE reads == Cardinality(index[k] \cap DiskPage)
  <2>1. call' = call /\ k \in DOMAIN index /\ fault = "none" /\ call = Idle
    BY <1>6 DEF Get
  <2>2. reads \in Nat
    <3>1. index[k] \cap DiskPage \in SUBSET Page
      BY DEF Page
    <3>2. QED
      BY <3>1, PageFacts, FS_Subset, FS_CardinalityType
  <2>3. CASE bufPages + reads > BufferPages
    <3>1. /\ fault' = "behind the buffer"
          /\ UNCHANGED <<mfree, mused, dfree, rows, index, usedPage, bufPages, answer, given>>
      BY <1>6, <2>3 DEF Get, Undefined, OnDisk, stored
    <3>2. QED
      BY <1>0, <2>1, <3>1, PagesRest
  <2>4. CASE ~(bufPages + reads > BufferPages)
    <3>1. /\ bufPages' = bufPages + reads
          /\ UNCHANGED <<mfree, mused, dfree, rows, index, usedPage, given, fault>>
      BY <1>6, <2>4 DEF Get, OnDisk, stored
    <3> HIDE DEF reads
    <3>2. bufPages' \in Nat
      <4>1. \A b, r \in Nat : b + r \in Nat
        OBVIOUS
      <4>2. QED
        BY <1>0, <2>2, <3>1, <4>1
    <3>3. QED
      BY <1>0, <2>1, <3>1, <3>2, PagesRest
  <2>5. QED
    BY <2>3, <2>4
<1>7. ASSUME NEW k \in Key, GetFails(k) PROVE PageInv'
  <2>1. /\ call' = call /\ call = Idle /\ fault' = "short read"
        /\ UNCHANGED <<mfree, mused, dfree, rows, index, usedPage, bufPages, given>>
    BY <1>7 DEF GetFails, Undefined, stored
  <2>2. QED
    BY <1>0, <2>1, PagesRest DEF Idle
<1>8. CASE UNCHANGED vars
  BY <1>0, <1>8, PagesRest DEF vars, stored
<1>9. QED
  BY <1>1, <1>2, <1>3, <1>4, <1>5, <1>6, <1>7, <1>8 DEF Next

LEMMA PageInvariant == Spec => []PageInv
<1>1. Init => PageInv
  BY InitPageInv
<1>2. PageInv /\ [Next]_vars => PageInv'
  BY NextKeepsPageInv
<1>3. QED
  BY <1>1, <1>2, PTL DEF Spec

-----------------------------------------------------------------------------
(* The values of the items                                                 *)

(* Page p has an item with row y whose value is the key. *)
HasRow(r, v, p, k, y) == \E i \in DOMAIN v[p] : v[p][i] = k /\ r[p][i] = y

WantedAreHeld(k) == \A y : y \in wanted[k] <=> \E p \in index[k] : HasRow(rows, values, p, k, y)

(* Rows and values of a page lie side by side, a page on the disk is full, *)
(* and the pages of a key hold the rows a Get has to find.  Rows the       *)
(* caller numbered are in one page only.                                   *)
MatchInv ==
  /\ values \in [Page -> Seq(Value)] /\ wanted \in [Key -> SUBSET Nat]
  /\ \A p \in Page : Len(values[p]) = Len(rows[p]) /\ Len(rows[p]) <= PageItems
  /\ \A k \in DOMAIN index : \A p \in OnDisk(k) : Len(rows[p]) = PageItems
  /\ \A k \in Key \ DOMAIN index : wanted[k] = {}
  /\ \A k \in DOMAIN index : WantedAreHeld(k)
  /\ \A k \in DOMAIN index \ Positional : \A p, q \in index[k] :
       p # q => Range(rows[p]) \cap Range(rows[q]) = {}

LEMMA InitMatchInv == Init => MatchInv
<1> SUFFICES ASSUME Init PROVE MatchInv
  OBVIOUS
<1>1. DOMAIN index = {} /\ \A p \in Page : rows[p] = <<>> /\ values[p] = <<>>
  BY DEF Init
<1>2. values \in [Page -> Seq(Value)] /\ wanted \in [Key -> SUBSET Nat] /\ \A k \in Key : wanted[k] = {}
  BY DEF Init
<1>3. \A p \in Page : Len(values[p]) = Len(rows[p]) /\ Len(rows[p]) <= PageItems
  BY <1>1, PageAssumption
<1>4. QED
  BY <1>1, <1>2, <1>3 DEF MatchInv

LEMMA MatchesRest ==
  ASSUME MatchInv, UNCHANGED <<rows, values, wanted, index>>
  PROVE  MatchInv'
BY DEF MatchInv, WantedAreHeld, OnDisk

(* A page just taken is an empty one in memory. *)
LEMMA NewPageKeepsMatchInv ==
  ASSUME PageInv, MatchInv, NEW k \in Key, NewPage(k)
  PROVE  MatchInv'
<1>1. CASE mfree = <<>>
  BY <1>1, MatchesRest DEF NewPage, Undefined, stored
<1>2. CASE mfree # <<>>
  <2> DEFINE p == Head(mfree)
             old == IF k \in DOMAIN index THEN index[k] ELSE {}
  <2>1. index' = Put(index, k, {p} \cup old) /\ UNCHANGED <<rows, values, given, wanted>>
    BY <1>2 DEF NewPage, stored
  <2>2. p \in MemPage /\ p \in Range(mfree)
    BY <1>2, Popped DEF PageInv, TypeInv, QueueInv
  <2>3. rows[p] = <<>> /\ p \in Page /\ p \notin DiskPage
    BY <2>2, PageFacts DEF PageInv, ItemInv, Page
  <2> HIDE DEF p
  <2>4. /\ DOMAIN index' = DOMAIN index \cup {k} /\ index'[k] = {p} \cup old
        /\ \A l \in DOMAIN index \ {k} : index'[l] = index[l]
    BY <2>1 DEF Put
  <2>5. values[p] \in Seq(Value) /\ Len(values[p]) = Len(rows[p]) /\ Len(rows[p]) = 0
    BY <2>3 DEF MatchInv
  <2>6. DOMAIN values[p] = {} /\ Range(rows[p]) = {}
    <3>1. DOMAIN values[p] = 1 .. 0 /\ DOMAIN rows[p] = 1 .. 0
      BY <2>3, <2>5
    <3>2. QED
      BY <3>1 DEF Range
  <2>7. \A l \in DOMAIN index' : OnDisk(l)' = IF l \in DOMAIN index THEN OnDisk(l) ELSE {}
    BY <2>3, <2>4 DEF OnDisk
  <2>8. \A l \in DOMAIN index' : WantedAreHeld(l)'
    <3>1. \A y : ~HasRow(rows, values, p, k, y)
      BY <2>6 DEF HasRow
    <3>2. \A y : y \in wanted[k] <=> \E q \in old : HasRow(rows, values, q, k, y)
      BY DEF MatchInv, WantedAreHeld
    <3>3. \A y : y \in wanted[k] <=> \E q \in {p} \cup old : HasRow(rows, values, q, k, y)
      BY <3>1, <3>2
    <3>4. WantedAreHeld(k)'
      BY <2>1, <2>4, <3>3 DEF WantedAreHeld
    <3>5. \A l \in DOMAIN index \ {k} : WantedAreHeld(l)'
      BY <2>1, <2>4 DEF MatchInv, WantedAreHeld
    <3>6. QED
      BY <2>4, <3>4, <3>5
  <2>9. \A l \in DOMAIN index' \ Positional : \A q, s \in index'[l] :
          q # s => Range(rows[q]) \cap Range(rows[s]) = {}
    BY <2>4, <2>6 DEF MatchInv
  <2>10. \A l \in DOMAIN index' : \A q \in OnDisk(l)' : Len(rows[q]) = PageItems
    BY <2>7 DEF MatchInv
  <2>11. \A l \in Key \ DOMAIN index' : wanted[l] = {}
    BY <2>4 DEF MatchInv
  <2> HIDE DEF old
  <2>12. QED
    BY <2>1, <2>8, <2>9, <2>10, <2>11 DEF MatchInv
<1>3. QED
  BY <1>1, <1>2

(* The new item lies behind the others of its page, and the row a caller   *)
(* gave it is one no item of the key has.                                  *)
LEMMA SetItemKeepsMatchInv ==
  ASSUME PageInv, MatchInv, NEW v \in Value, SetItem(v)
  PROVE  MatchInv'
<1>0. call.key \in Key /\ call.key \in DOMAIN index
  BY DEF SetItem, PageInv, TypeInv
<1> PICK k \in Key : k = call.key
  BY <1>0
<1> DEFINE u == usedPage[k]
           x == WritableItem(k)
<1>1. /\ k \in DOMAIN index /\ k \in Key /\ ~IsFull(u) /\ u \in MemPage /\ u \in index[k]
  BY <1>0 DEF SetItem, PageInv, TypeInv, OwnerInv
<1>2. /\ rows' = [rows EXCEPT ![u] = Append(@, x)] /\ values' = [values EXCEPT ![u] = Append(@, v)]
      /\ wanted' = [wanted EXCEPT ![k] = IF v = k THEN @ \cup {x} ELSE @] /\ index' = index
  BY DEF SetItem
<1>3. u \in Page /\ u \notin DiskPage /\ rows \in [Page -> Seq(Nat)] /\ values \in [Page -> Seq(Value)]
      /\ wanted \in [Key -> SUBSET Nat]
  BY <1>1, PageFacts DEF PageInv, TypeInv, Page, MatchInv
<1>4. x \in Nat
  BY <1>1, <1>3 DEF WritableItem, PageInv, TypeInv
<1>5. k \notin Positional => x \notin RowsOf(index[k])
  <2>1. k \notin Positional => x = given[k] /\ given[k] \in Nat /\ RowsOf(index[k]) = 0 .. given[k] - 1
    BY <1>1 DEF WritableItem, PageInv, ItemInv, TypeInv, PagesHoldEveryItem
  <2>2. QED
    BY <2>1
<1> HIDE DEF x, u
<1>6. /\ rows'[u] = Append(rows[u], x) /\ values'[u] = Append(values[u], v)
      /\ \A p \in Page \ {u} : rows'[p] = rows[p] /\ values'[p] = values[p]
      /\ rows[u] \in Seq(Nat) /\ values[u] \in Seq(Value)
  BY <1>2, <1>3
<1>7. /\ Len(values[u]) = Len(rows[u]) /\ Len(rows[u]) < PageItems /\ Len(rows[u]) \in Nat
  BY <1>1, <1>3, <1>6, PageAssumption DEF MatchInv, IsFull
<1> DEFINE n == Len(rows[u])
<1>8. /\ DOMAIN values[u] = 1 .. n /\ DOMAIN values'[u] = 1 .. n + 1
      /\ values'[u][n + 1] = v /\ rows'[u][n + 1] = x
      /\ \A i \in 1 .. n : values'[u][i] = values[u][i] /\ rows'[u][i] = rows[u][i]
      /\ values'[u] \in Seq(Value) /\ Len(values'[u]) = n + 1 /\ Len(rows'[u]) = n + 1
  BY <1>4, <1>6, <1>7
<1>9. Range(rows'[u]) = Range(rows[u]) \cup {x}
  <2>1. rows'[u] = Append(rows[u], x) /\ rows[u] \in Seq(Nat)
    BY <1>6
  <2>2. Range(Append(rows[u], x)) = Range(rows[u]) \cup {x}
    BY <1>4, <2>1, Pushed
  <2>3. QED
    BY <2>1, <2>2
<1>10. values' \in [Page -> Seq(Value)]
  <2>1. \A p \in Page : values'[p] \in Seq(Value)
    BY <1>3, <1>6, <1>8
  <2>2. QED
    BY <1>2, <1>3, <2>1
<1>11. \A p \in Page : Len(values'[p]) = Len(rows'[p]) /\ Len(rows'[p]) <= PageItems
  <2>1. Len(values'[u]) = Len(rows'[u]) /\ Len(rows'[u]) <= PageItems
    BY <1>7, <1>8, PageAssumption
  <2>2. QED
    BY <1>6, <2>1 DEF MatchInv
<1>12. /\ wanted' \in [Key -> SUBSET Nat] /\ wanted'[k] = (IF v = k THEN wanted[k] \cup {x} ELSE wanted[k])
       /\ \A l \in Key \ {k} : wanted'[l] = wanted[l]
  BY <1>1, <1>2, <1>3, <1>4
<1>13. \A y : HasRow(rows', values', u, k, y) <=> HasRow(rows, values, u, k, y) \/ (v = k /\ y = x)
  <2>1. \A i : i \in 1 .. n + 1 <=> i \in 1 .. n \/ i = n + 1
    BY <1>7
  <2> DEFINE N == 1 .. n + 1
             M == 1 .. n
             m == n + 1
  <2>2. /\ DOMAIN values[u] = M /\ DOMAIN values'[u] = N /\ values'[u][m] = v /\ rows'[u][m] = x
        /\ \A i \in M : values'[u][i] = values[u][i] /\ rows'[u][i] = rows[u][i]
        /\ \A i : i \in N <=> i \in M \/ i = m
    BY <1>8, <2>1
  <2> HIDE DEF N, M, m
  <2>3. ASSUME NEW y, HasRow(rows', values', u, k, y) PROVE HasRow(rows, values, u, k, y) \/ (v = k /\ y = x)
    <3>1. PICK i \in N : values'[u][i] = k /\ rows'[u][i] = y
      BY <2>2, <2>3 DEF HasRow
    <3>2. CASE i \in M
      BY <2>2, <3>1, <3>2 DEF HasRow
    <3>3. CASE i = m
      BY <2>2, <3>1, <3>3
    <3>4. QED
      BY <2>2, <3>2, <3>3
  <2>4. ASSUME NEW y, HasRow(rows, values, u, k, y) PROVE HasRow(rows', values', u, k, y)
    BY <2>2, <2>4 DEF HasRow
  <2>5. ASSUME NEW y, v = k, y = x PROVE HasRow(rows', values', u, k, y)
    BY <2>2, <2>5 DEF HasRow
  <2>6. QED
    BY <2>3, <2>4, <2>5
<1>14. \A l \in DOMAIN index \ {k} : u \notin index[l]
  BY <1>1 DEF PageInv, OwnerInv
<1>15. \A l \in DOMAIN index : index[l] \subseteq Page
  BY DEF PageInv, TypeInv
<1>16. ASSUME NEW l \in DOMAIN index PROVE WantedAreHeld(l)'
  <2>1. \A y : y \in wanted[l] <=> \E p \in index[l] : HasRow(rows, values, p, l, y)
    BY DEF MatchInv, WantedAreHeld
  <2>2. \A y : \A p \in index[l] \ {u} : HasRow(rows', values', p, l, y) <=> HasRow(rows, values, p, l, y)
    BY <1>6, <1>15 DEF HasRow
  <2>3. \A y : y \in wanted'[l] <=> \E p \in index[l] : HasRow(rows', values', p, l, y)
    <3>1. CASE l = k
      <4>1. \A y : y \in wanted[k] <=> \E p \in index[k] : HasRow(rows, values, p, k, y)
        BY <2>1, <3>1
      <4>2. \A y : \A p \in index[k] \ {u} : HasRow(rows', values', p, k, y) <=> HasRow(rows, values, p, k, y)
        BY <2>2, <3>1
      <4>3. \A y : (\E p \in index[k] : HasRow(rows', values', p, k, y)) <=>
                    \/ HasRow(rows, values, u, k, y) \/ (v = k /\ y = x)
                    \/ \E p \in index[k] \ {u} : HasRow(rows, values, p, k, y)
        BY <1>1, <1>13, <4>2
      <4>4. \A y : (\E p \in index[k] : HasRow(rows', values', p, k, y)) <=> y \in wanted[k] \/ (v = k /\ y = x)
        BY <1>1, <4>3, <4>1
      <4>5. CASE v = k
        <5>1. wanted'[k] = wanted[k] \cup {x}
          BY <1>12, <4>5
        <5>2. \A y : y \in wanted'[k] <=> y \in wanted[k] \/ y = x
          BY <5>1
        <5>3. QED
          BY <3>1, <4>5, <4>4, <5>2
      <4>6. CASE v # k
        <5>1. wanted'[k] = wanted[k]
          BY <1>12, <4>6
        <5>2. QED
          BY <3>1, <4>6, <4>4, <5>1
      <4>7. QED
        BY <4>5, <4>6
    <3>2. CASE l # k
      <4>1. wanted'[l] = wanted[l] /\ u \notin index[l]
        BY <1>12, <1>14, <3>2 DEF PageInv, TypeInv
      <4>2. QED
        BY <2>1, <2>2, <4>1
    <3>3. QED
      BY <3>1, <3>2
  <2>4. QED
    BY <1>2, <2>3 DEF WantedAreHeld
<1>17. ASSUME NEW l \in DOMAIN index \ Positional, NEW p \in index[l], NEW q \in index[l], p # q
       PROVE  Range(rows'[p]) \cap Range(rows'[q]) = {}
  <2>1. Range(rows[p]) \cap Range(rows[q]) = {} /\ p \in Page /\ q \in Page
    BY <1>15, <1>17 DEF MatchInv
  <2>2. u \in index[l] => x \notin Range(rows[p]) \cup Range(rows[q])
    BY <1>5, <1>14 DEF RowsOf
  <2>3. QED
    <3>1. CASE p = u
      <4>1. rows'[q] = rows[q] /\ u \in index[l]
        BY <1>6, <1>17, <2>1, <3>1
      <4>2. QED
        BY <1>9, <2>1, <2>2, <3>1, <4>1
    <3>2. CASE q = u
      <4>1. rows'[p] = rows[p] /\ u \in index[l]
        BY <1>6, <1>17, <2>1, <3>2
      <4>2. QED
        BY <1>9, <2>1, <2>2, <3>2, <4>1
    <3>3. CASE p # u /\ q # u
      BY <1>6, <2>1, <3>3
    <3>4. QED
      BY <3>1, <3>2, <3>3
<1>18. \A l \in DOMAIN index : \A p \in OnDisk(l) : p # u /\ p \in Page /\ Len(rows[p]) = PageItems
  BY <1>3, <1>15 DEF MatchInv, OnDisk
<1>19. \A l \in DOMAIN index : OnDisk(l)' = OnDisk(l)
  BY <1>2 DEF OnDisk
<1>20. \A l \in DOMAIN index' : \A p \in OnDisk(l)' : Len(rows'[p]) = PageItems
  BY <1>2, <1>6, <1>18, <1>19
<1>21. \A l \in Key \ DOMAIN index' : wanted'[l] = {}
  BY <1>1, <1>2, <1>12 DEF MatchInv
<1>22. QED
  BY <1>2, <1>10, <1>11, <1>12, <1>16, <1>17, <1>20, <1>21 DEF MatchInv

(* The disk page takes over rows and values of a full page. *)
LEMMA SpillPageKeepsMatchInv ==
  ASSUME PageInv, MatchInv, SpillPage
  PROVE  MatchInv'
<1> DEFINE p == Head(mused)
           d == Head(dfree)
           k == OwnerOf(p)
<1>1. /\ IsFull(p) /\ rows' = [rows EXCEPT ![d] = rows[p]] /\ values' = [values EXCEPT ![d] = values[p]]
      /\ index' = [index EXCEPT ![k] = (@ \ {p}) \cup {d}] /\ wanted' = wanted
  BY DEF SpillPage
<1>2. p \in Range(mused) /\ p \in MemPage /\ d \in DiskPage /\ d \in Range(dfree)
  BY FullPagePopped DEF SpillPage
<1>3. k \in DOMAIN index /\ p \in index[k]
  <2>1. \E l \in DOMAIN index : p \in index[l]
    BY <1>2 DEF PageInv, QueueInv
  <2>2. QED
    BY <2>1 DEF OwnerOf
<1> HIDE DEF p, d, k
<1>4. p \in Page /\ d \in Page /\ p # d /\ p \notin DiskPage
  BY <1>2, PageFacts DEF Page
<1>5. \A l \in DOMAIN index : d \notin index[l]
  BY <1>2 DEF PageInv, QueueInv
<1>6. /\ DOMAIN index' = DOMAIN index /\ index'[k] = (index[k] \ {p}) \cup {d}
      /\ \A l \in DOMAIN index \ {k} : index'[l] = index[l]
      /\ \A l \in DOMAIN index : index[l] \subseteq Page
  BY <1>1, <1>3 DEF PageInv, TypeInv
<1>7. /\ rows'[d] = rows[p] /\ \A q \in Page \ {d} : rows'[q] = rows[q]
      /\ values'[d] = values[p] /\ \A q \in Page \ {d} : values'[q] = values[q]
      /\ values' \in [Page -> Seq(Value)]
  <2>1. rows \in [Page -> Seq(Nat)] /\ values \in [Page -> Seq(Value)]
    BY DEF PageInv, TypeInv, MatchInv
  <2>2. QED
    BY <1>1, <1>4, <2>1
<1>8. \A q \in Page : Len(values'[q]) = Len(rows'[q]) /\ Len(rows'[q]) <= PageItems
  BY <1>4, <1>7 DEF MatchInv
<1>9. Len(rows[p]) = PageItems
  <2>1. Len(rows[p]) <= PageItems /\ Len(rows[p]) >= PageItems
    BY <1>1, <1>4 DEF MatchInv, IsFull
  <2>2. Len(rows[p]) \in Nat /\ PageItems \in Nat
    BY <1>4, PageAssumption DEF PageInv, TypeInv
  <2>3. QED
    BY <2>1, <2>2
<1>10. ASSUME NEW l \in DOMAIN index, NEW q \in OnDisk(l)' PROVE Len(rows'[q]) = PageItems
  <2>1. q \in index'[l] \cap DiskPage
    BY <1>10 DEF OnDisk
  <2>2. CASE q = d
    BY <1>7, <1>9, <2>2
  <2>3. CASE q # d
    <3>1. q \in OnDisk(l) /\ q \in Page
      BY <1>6, <2>1, <2>3 DEF OnDisk
    <3>2. QED
      BY <1>7, <2>3, <3>1 DEF MatchInv
  <2>4. QED
    BY <2>2, <2>3
<1>11. ASSUME NEW l \in DOMAIN index PROVE WantedAreHeld(l)'
  <2>1. \A y : y \in wanted[l] <=> \E q \in index[l] : HasRow(rows, values, q, l, y)
    BY DEF MatchInv, WantedAreHeld
  <2>2. \A y : \A q \in index[l] : HasRow(rows', values', q, l, y) <=> HasRow(rows, values, q, l, y)
    BY <1>5, <1>6, <1>7 DEF HasRow
  <2>3. \A y : HasRow(rows', values', d, l, y) <=> HasRow(rows, values, p, l, y)
    BY <1>7 DEF HasRow
  <2>4. \A y : y \in wanted[l] <=> \E q \in index'[l] : HasRow(rows', values', q, l, y)
    <3>1. CASE l = k
      BY <1>3, <1>6, <2>1, <2>2, <2>3, <3>1
    <3>2. CASE l # k
      BY <1>6, <2>1, <2>2, <3>2
    <3>3. QED
      BY <3>1, <3>2
  <2>5. QED
    BY <1>1, <2>4 DEF WantedAreHeld
<1>12. ASSUME NEW l \in DOMAIN index \ Positional, NEW q \in index'[l], NEW s \in index'[l], q # s
       PROVE  Range(rows'[q]) \cap Range(rows'[s]) = {}
  <2>1. \A a, b \in index[l] : a # b => Range(rows[a]) \cap Range(rows[b]) = {}
    BY DEF MatchInv
  <2>2. \A a \in index'[l] \ {d} : a \in index[l] /\ rows'[a] = rows[a] /\ (l = k => a # p)
    BY <1>4, <1>6, <1>7
  <2>3. d \in index'[l] => l = k
    BY <1>5, <1>6
  <2>4. QED
    <3>1. CASE q = d
      <4>1. l = k /\ s # d
        BY <1>12, <2>3, <3>1
      <4>2. s \in index[l] /\ rows'[s] = rows[s] /\ s # p /\ p \in index[l] /\ rows'[q] = rows[p]
        BY <1>3, <1>7, <2>2, <3>1, <4>1
      <4>3. QED
        BY <2>1, <4>2
    <3>2. CASE s = d
      <4>1. l = k /\ q # d
        BY <1>12, <2>3, <3>2
      <4>2. q \in index[l] /\ rows'[q] = rows[q] /\ q # p /\ p \in index[l] /\ rows'[s] = rows[p]
        BY <1>3, <1>7, <2>2, <3>2, <4>1
      <4>3. QED
        BY <2>1, <4>2
    <3>3. CASE q # d /\ s # d
      BY <1>12, <2>1, <2>2, <3>3
    <3>4. QED
      BY <3>1, <3>2, <3>3
<1>13. wanted \in [Key -> SUBSET Nat] /\ \A l \in Key \ DOMAIN index : wanted[l] = {}
  BY DEF MatchInv
<1>14. QED
  BY <1>1, <1>6, <1>7, <1>8, <1>10, <1>11, <1>12, <1>13 DEF MatchInv

LEMMA NextKeepsMatchInv == PageInv /\ MatchInv /\ [Next]_vars => MatchInv'
<1> SUFFICES ASSUME PageInv, MatchInv, [Next]_vars PROVE MatchInv'
  OBVIOUS
<1>1. ASSUME NEW k \in Key, NEW n \in Counts, Set(k, n) PROVE MatchInv'
  <2>1. CASE NewPage(k)
    BY <2>1, NewPageKeepsMatchInv
  <2>2. CASE UNCHANGED <<rows, values, wanted, index>>
    BY <2>2, MatchesRest
  <2>3. QED
    BY <1>1, <2>1, <2>2 DEF Set, stored
<1>2. CASE SetNextPage
  <2>1. NewPage(call.key) /\ call.key \in Key
    BY <1>2 DEF SetNextPage, PageInv, TypeInv
  <2>2. QED
    BY <2>1, NewPageKeepsMatchInv
<1>3. ASSUME NEW v \in Value, SetItem(v) PROVE MatchInv'
  BY <1>3, SetItemKeepsMatchInv
<1>4. CASE Write2Disk \/ WriteDone
  BY <1>4, MatchesRest DEF Write2Disk, WriteDone, stored
<1>5. CASE WriteStep
  <2>1. CASE SpillPage
    BY <2>1, SpillPageKeepsMatchInv
  <2>2. CASE SpillFails \/ SpillStops \/ SpillStarves
    BY <2>2, MatchesRest DEF SpillFails, SpillStops, SpillStarves, Undefined, stored
  <2>3. QED
    BY <1>5, <2>1, <2>2 DEF WriteStep
<1>6. ASSUME NEW k \in Key, Get(k) \/ GetFails(k) PROVE MatchInv'
  BY <1>6, MatchesRest DEF Get, GetFails, Undefined, stored
<1>7. CASE UNCHANGED vars
  BY <1>7, MatchesRest DEF vars, stored
<1>8. QED
  BY <1>1, <1>2, <1>3, <1>4, <1>5, <1>6, <1>7 DEF Next

LEMMA MatchInvariant == Spec => [](PageInv /\ MatchInv)
<1>1. Init => PageInv /\ MatchInv
  BY InitPageInv, InitMatchInv
<1>2. PageInv /\ MatchInv /\ [Next]_vars => PageInv' /\ MatchInv'
  BY NextKeepsPageInv, NextKeepsMatchInv
<1>3. QED
  BY <1>1, <1>2, PTL DEF Spec

-----------------------------------------------------------------------------
(* The theorems                                                            *)

(* PageManagement.cpp neither loses nor doubles an item: the pages the     *)
(* index names for a key hold as many as were stored under it and, with    *)
(* the Set that takes row ids, these rows.                                 *)
THEOREM ItemsAreKept == Spec => []PagesHoldEveryItem
<1>1. PageInv => PagesHoldEveryItem
  BY DEF PageInv, ItemInv
<1>2. QED
  BY <1>1, PageInvariant, PTL

(* A page serves one key and is in one queue at most; a page with room is  *)
(* not spilled; disk pages outlast memory pages.                           *)
THEOREM PagesAreOwned == Spec => []PagesHaveOneOwner
<1>1. ASSUME PageInv PROVE PagesHaveOneOwner
  <2>1. Cardinality(Range(mused)) = Len(mused)
    <3>1. mused \in Seq(MemPage) /\ IsInjective(mused)
      BY <1>1 DEF PageInv, TypeInv, QueueInv
    <3>2. mused \in Bijection(1 .. Len(mused), Range(mused)) /\ Len(mused) \in Nat
      BY <3>1 DEF Bijection, Injection, Surjection, IsInjective, Range
    <3>3. QED
      BY <3>2, FS_CountingElements DEF ExistsBijection
  <2>2. Range(mused) \subseteq UNION {index[k] : k \in DOMAIN index}
    BY <1>1 DEF PageInv, QueueInv
  <2>3. QED
    BY <1>1, <2>1, <2>2 DEF PagesHaveOneOwner, PageInv, QueueInv, OwnerInv
<1>2. QED
  BY <1>1, PageInvariant, PTL

(* What the scan of a page finds. *)
LEMMA MatchesAreRows ==
  ASSUME TypeInv, MatchInv, NEW p \in Page, NEW k
  PROVE  /\ \A y : y \in {rows[p][i] : i \in Matches(p, k)} <=> HasRow(rows, values, p, k, y)
         /\ \A q \in Page : Len(rows[q]) = Len(rows[p]) =>
              {rows[q][i] : i \in Matches(p, k)} \subseteq Range(rows[q])
<1>1. \A y : y \in {rows[p][i] : i \in Matches(p, k)} <=> HasRow(rows, values, p, k, y)
  BY DEF Matches, HasRow
<1>2. ASSUME NEW q \in Page, Len(rows[q]) = Len(rows[p])
      PROVE  {rows[q][i] : i \in Matches(p, k)} \subseteq Range(rows[q])
  <2>1. rows[q] \in Seq(Nat) /\ values[p] \in Seq(Value) /\ Len(values[p]) = Len(rows[q])
    BY <1>2 DEF TypeInv, MatchInv
  <2>2. DOMAIN rows[q] = DOMAIN values[p]
    BY <2>1
  <2>3. QED
    BY <2>2 DEF Matches, Range
<1>3. QED
  BY <1>1, <1>2

(* What Get finds are rows of its key; in memory those whose value is the  *)
(* key, and on the disk these too in the first read of a single page.      *)
THEOREM GetsAreExact == Spec => GetIsExact
<1>1. ASSUME PageInv, MatchInv, NEW k \in DOMAIN index \ Positional, Get(k), fault' = "none"
      PROVE  /\ answer'.rows \subseteq 0 .. given[k] - 1
             /\ wanted[k] \ RowsOf(OnDisk(k)) \subseteq answer'.rows
             /\ bufPages > 0 => answer'.rows = wanted[k] \ RowsOf(OnDisk(k))
             /\ bufPages = 0 /\ Cardinality(OnDisk(k)) <= 1 => answer'.rows = wanted[k]
  <2> DEFINE disk == OnDisk(k)
             first == CHOOSE d \in disk : \A e \in disk : d <= e
             last == CHOOSE d \in disk : \A e \in disk : e <= d
             inMemory == UNION {{rows[p][i] : i \in Matches(p, k)} : p \in index[k] \cap MemPage}
             overlaid == {rows[last][i] : i \in Matches(first, k)}
  <2>1. answer'.rows = inMemory \cup (IF disk # {} /\ bufPages = 0 THEN overlaid ELSE {})
    <3>1. answer'.rows = Scanned(k)
      BY <1>1 DEF Get, Undefined
    <3>2. Scanned(k) = inMemory \cup (IF disk # {} /\ bufPages = 0 THEN overlaid ELSE {})
      BY Zenon DEF Scanned
    <3>3. QED
      BY <3>1, <3>2
  <2>2. /\ index[k] \in SUBSET Page /\ MemPage \cap DiskPage = {} /\ Page = MemPage \cup DiskPage
        /\ disk = index[k] \cap DiskPage /\ disk \in SUBSET Page
    BY <1>1, PageFacts DEF PageInv, TypeInv, Page, OnDisk
  <2>3. RowsOf(index[k]) = 0 .. given[k] - 1
    BY <1>1 DEF PageInv, ItemInv, PagesHoldEveryItem
  <2>4. \A p \in index[k] : /\ \A y : y \in {rows[p][i] : i \in Matches(p, k)} <=> HasRow(rows, values, p, k, y)
                            /\ {rows[p][i] : i \in Matches(p, k)} \subseteq Range(rows[p])
    BY <1>1, <2>2, MatchesAreRows DEF PageInv
  <2>5. \A y : y \in wanted[k] <=> \E p \in index[k] : HasRow(rows, values, p, k, y)
    BY <1>1 DEF MatchInv, WantedAreHeld
  <2>6. \A y : y \in inMemory <=> \E p \in index[k] \cap MemPage : HasRow(rows, values, p, k, y)
    BY <2>4
  <2>7. \A p, q \in index[k] : p # q => Range(rows[p]) \cap Range(rows[q]) = {}
    BY <1>1 DEF MatchInv
  <2>8. \A p \in index[k] : \A y : HasRow(rows, values, p, k, y) => y \in Range(rows[p])
    BY <2>4
  <2>9. \A y : y \in RowsOf(disk) <=> \E p \in disk : y \in Range(rows[p])
    BY DEF RowsOf
  <2> HIDE DEF inMemory
  <2>10. inMemory = wanted[k] \ RowsOf(disk)
    <3>1. \A y : y \in inMemory => y \in wanted[k] /\ y \notin RowsOf(disk)
      <4>1. SUFFICES ASSUME NEW y \in inMemory PROVE y \in wanted[k] /\ y \notin RowsOf(disk)
        OBVIOUS
      <4>2. PICK p \in index[k] \cap MemPage : HasRow(rows, values, p, k, y)
        BY <2>6
      <4>3. \A q \in disk : q \in index[k] /\ q # p
        BY <2>2
      <4>4. QED
        BY <2>5, <2>7, <2>8, <2>9, <4>2, <4>3
    <3>2. \A y : y \in wanted[k] /\ y \notin RowsOf(disk) => y \in inMemory
      <4>1. SUFFICES ASSUME NEW y \in wanted[k], y \notin RowsOf(disk) PROVE y \in inMemory
        OBVIOUS
      <4>2. PICK p \in index[k] : HasRow(rows, values, p, k, y)
        BY <2>5
      <4>3. p \notin disk
        BY <2>8, <2>9, <4>1, <4>2
      <4>4. QED
        BY <2>2, <2>6, <4>2, <4>3
    <3>3. QED
      BY <3>1, <3>2
  <2>11. ASSUME disk # {}
         PROVE  first \in disk /\ last \in disk /\ overlaid \subseteq Range(rows[last])
    <3>1. disk \in SUBSET (0 .. 2 * NumPages) /\ 2 * NumPages \in Nat
      BY <2>2, PageAssumption DEF DiskPage
    <3>2. \E d \in disk : \A e \in disk : e <= d
      <4> HIDE DEF disk
      <4>1. QED
        BY <2>11, <3>1, BoundedHasGreatest
    <3>3. \E d \in disk : \A e \in disk : d <= e
      <4> HIDE DEF disk
      <4>1. disk \in SUBSET Nat
        BY <3>1
      <4>2. QED
        BY <2>11, <4>1, NatHasLeast
    <3>4. first \in disk /\ last \in disk
      BY <3>2, <3>3
    <3>5. first \in Page /\ last \in Page /\ Len(rows[last]) = Len(rows[first])
      BY <1>1, <2>2, <3>4 DEF MatchInv
    <3> HIDE DEF first, last
    <3>6. QED
      BY <1>1, <3>4, <3>5, MatchesAreRows DEF PageInv
  <2>12. answer'.rows \subseteq 0 .. given[k] - 1
    <3>1. disk # {} => overlaid \subseteq RowsOf(index[k])
      BY <2>2, <2>11 DEF RowsOf
    <3>2. wanted[k] \subseteq RowsOf(index[k])
      BY <2>5, <2>8 DEF RowsOf
    <3> HIDE DEF overlaid
    <3>3. QED
      BY <2>1, <2>3, <2>10, <3>1, <3>2
  <2>13. ASSUME bufPages = 0, Cardinality(disk) <= 1 PROVE answer'.rows = wanted[k]
    <3>1. IsFiniteSet(disk)
      BY <2>2, PageFacts, FS_Subset
    <3>2. CASE disk = {}
      BY <2>1, <2>9, <2>10, <3>2
    <3>3. CASE disk # {}
      <4>1. Cardinality(disk) = 1
        <5> HIDE DEF disk
        <5>1. Cardinality(disk) \in Nat /\ Cardinality(disk) # 0
          BY <3>1, <3>3, FS_CardinalityType, FS_EmptySet
        <5>2. QED
          BY <2>13, <5>1
      <4>2. PICK d : disk = {d}
        <5> HIDE DEF disk
        <5>1. QED
          BY <3>1, <4>1, FS_Singleton
      <4>3. first = d /\ last = d /\ d \in index[k]
        BY <2>2, <2>11, <3>3, <4>2
      <4>4. overlaid = {rows[d][i] : i \in Matches(d, k)}
        BY <4>3
      <4>5. \A y : y \in overlaid <=> HasRow(rows, values, d, k, y)
        BY <2>4, <4>3, <4>4
      <4> HIDE DEF overlaid
      <4>6. \A y : y \in wanted[k] <=> y \in inMemory \/ y \in overlaid
        <5>1. index[k] = (index[k] \cap MemPage) \cup {d}
          BY <2>2, <4>2
        <5>2. QED
          BY <2>5, <2>6, <4>5, <5>1
      <4>7. answer'.rows = inMemory \cup overlaid
        BY <2>1, <2>13, <3>3
      <4>8. QED
        BY <4>6, <4>7
    <3>4. QED
      BY <3>2, <3>3
  <2>14. ASSUME bufPages > 0 PROVE answer'.rows = wanted[k] \ RowsOf(disk)
    <3>1. bufPages # 0
      BY <1>1, <2>14 DEF PageInv, TypeInv
    <3>2. QED
      BY <2>1, <2>10, <3>1
  <2>15. wanted[k] \ RowsOf(disk) \subseteq answer'.rows
    BY <2>1, <2>10
  <2>16. QED
    BY <2>12, <2>13, <2>14, <2>15
<1>2. PageInv /\ MatchInv /\ [Next]_vars =>
        [\A k \in DOMAIN index \ Positional :
           Get(k) /\ fault' = "none" =>
             /\ answer'.rows \subseteq 0 .. given[k] - 1
             /\ wanted[k] \ RowsOf(OnDisk(k)) \subseteq answer'.rows
             /\ bufPages > 0 => answer'.rows = wanted[k] \ RowsOf(OnDisk(k))
             /\ bufPages = 0 /\ Cardinality(OnDisk(k)) <= 1 => answer'.rows = wanted[k]]_vars
  BY <1>1
<1>3. QED
  BY <1>2, MatchInvariant, PTL DEF Spec, GetIsExact


-----------------------------------------------------------------------------
(* Blocks and positions                                                    *)

LEMMA Products ==
  /\ W \in Nat \ {0} /\ W * 0 = 0
  /\ \A a \in Nat : W * a \in Nat /\ W * (a + 1) = W * a + W
  /\ \A a, b \in Nat : W * (a + b) = W * a + W * b
  /\ \A a, b \in Nat : a < b => W * a + W <= W * b
<1>0. W \in Nat \ {0} /\ W * 0 = 0
  BY BitvectorAssumption
<1>1. \A a \in Nat : W * a \in Nat
  BY <1>0
<1>2. \A a, b \in Nat : W * (a + b) = W * a + W * b
  BY <1>0
<1>3. \A a \in Nat : W * (a + 1) = W * a + W
  BY <1>0
<1>4. ASSUME NEW a \in Nat, NEW b \in Nat, a < b PROVE W * a + W <= W * b
  <2>1. PICK c \in Nat : b = (a + 1) + c
    <3>1. b - a - 1 \in Nat /\ b = (a + 1) + (b - a - 1)
      BY <1>4
    <3>2. QED
      BY <3>1
  <2>2. W * b = W * (a + 1) + W * c
    BY <1>2, <2>1
  <2>3. W * (a + 1) = W * a + W /\ W * c \in Nat /\ W * a \in Nat
    BY <1>1, <1>3
  <2>4. QED
    BY ONLY <1>0, <2>2, <2>3
<1>5. QED
  BY <1>0, <1>1, <1>2, <1>3, <1>4

(* Division by the width of a block. *)
LEMMA Division ==
  ASSUME NEW i \in Nat
  PROVE  i \div W \in Nat /\ i % W \in Pos /\ i = W * (i \div W) + (i % W)
<1>0. W \in Nat /\ W > 0
  BY Products
<1>1. i \div W \in Int /\ i % W \in Int /\ i = W * (i \div W) + (i % W)
  BY <1>0
<1>2. 0 <= i % W /\ i % W < W
  BY <1>0
<1>3. i \div W \in Nat
  BY <1>0
<1>4. QED
  BY <1>0, <1>1, <1>2, <1>3 DEF Pos

LEMMA DivisionIs ==
  ASSUME NEW q \in Nat, NEW p \in Pos
  PROVE  (W * q + p) \div W = q /\ (W * q + p) % W = p
<1>0. W \in Nat /\ p \in Nat /\ p < W /\ W * q \in Nat
  BY Products DEF Pos
<1>1. PICK i \in Nat : i = W * q + p
  BY <1>0
<1>2. PICK d \in Nat, r \in Nat : d = i \div W /\ r = i % W /\ r < W /\ i = W * d + r
  <2>1. PICK d \in Nat, r \in Nat : d = i \div W /\ r = i % W
    BY <1>0, Division DEF Pos
  <2>2. r < W /\ i = W * d + r
    BY <1>0, <2>1, Division DEF Pos
  <2>3. QED
    BY <2>1, <2>2
<1>3. W * d \in Nat
  BY Products
<1>4. ~(d < q)
  <2>1. d < q => W * d + W <= W * q
    BY Products
  <2>2. QED
    BY <1>0, <1>1, <1>2, <1>3, <2>1
<1>5. ~(q < d)
  <2>1. q < d => W * q + W <= W * d
    BY Products
  <2>2. QED
    BY <1>0, <1>1, <1>2, <1>3, <2>1
<1>6. d = q
  BY <1>4, <1>5
<1>7. r = p
  BY <1>0, <1>1, <1>2, <1>6
<1>8. QED
  BY <1>1, <1>2, <1>6, <1>7

(* The index of bit p of block b. *)
Place(b, p) == W * (b - 1) + p

LEMMA PlaceIs ==
  ASSUME NEW b \in Nat \ {0}, NEW p \in Pos
  PROVE  /\ Place(b, p) \in Nat
         /\ BlockIndex(Place(b, p)) = b /\ BitIndex(Place(b, p)) = p
<1>1. PICK a \in Nat : b = a + 1 /\ b - 1 = a
  <2>1. b - 1 \in Nat /\ b = (b - 1) + 1
    OBVIOUS
  <2>2. QED
    BY <2>1
<1>2. Place(b, p) = W * a + p /\ W * a \in Nat /\ p \in Nat
  BY <1>1, Products DEF Place, Pos
<1>3. QED
  BY <1>1, <1>2, DivisionIs DEF BlockIndex, BitIndex

LEMMA PlaceOf ==
  ASSUME NEW i \in Nat
  PROVE  /\ BlockIndex(i) \in Nat \ {0} /\ BitIndex(i) \in Pos
         /\ Place(BlockIndex(i), BitIndex(i)) = i
<1>1. PICK d \in Nat, r \in Pos : d = i \div W /\ r = i % W
  BY Division
<1>2. i = W * d + r
  BY <1>1, Division
<1>3. BlockIndex(i) = d + 1 /\ BitIndex(i) = r /\ (d + 1) - 1 = d
  BY <1>1 DEF BlockIndex, BitIndex
<1>4. QED
  BY <1>2, <1>3 DEF Place

LEMMA PlaceMoves ==
  ASSUME NEW b \in Nat \ {0}, NEW k \in Nat, NEW p \in Pos
  PROVE  Place(b + k, p) = Place(b, p) + W * k
<1>1. b - 1 \in Nat /\ (b + k) - 1 = (b - 1) + k
  OBVIOUS
<1>2. W * ((b - 1) + k) = W * (b - 1) + W * k
  BY <1>1, Products
<1>3. W * (b - 1) \in Nat /\ W * k \in Nat /\ p \in Nat
  BY <1>1, Products DEF Pos
<1>4. QED
  BY <1>1, <1>2, <1>3 DEF Place

LEMMA PlaceOrder ==
  ASSUME NEW b \in Nat \ {0}, NEW c \in Nat \ {0}, b < c, NEW p \in Pos, NEW q \in Pos
  PROVE  Place(b, p) < Place(c, q)
<1>1. b - 1 \in Nat /\ c - 1 \in Nat /\ b - 1 < c - 1
  OBVIOUS
<1>2. W * (b - 1) + W <= W * (c - 1) /\ W * (b - 1) \in Nat /\ W * (c - 1) \in Nat
  BY <1>1, Products
<1>3. p \in Nat /\ q \in Nat /\ p < W /\ W \in Nat
  BY Products DEF Pos
<1>4. QED
  BY <1>2, <1>3 DEF Place

(* n bits end in block BlocksFor(n), and fill it if ExtraBits is zero. *)
LEMMA BlocksForIs ==
  ASSUME NEW n \in Nat
  PROVE  /\ BlocksFor(n) \in Nat /\ BitIndex(n) \in Pos
         /\ BitIndex(n) = 0 => W * BlocksFor(n) = n
         /\ BitIndex(n) # 0 => /\ BlocksFor(n) \in Nat \ {0}
                               /\ Place(BlocksFor(n), BitIndex(n)) = n
<1>1. PICK d \in Nat, r \in Pos : d = n \div W /\ r = n % W /\ n = W * d + r
  <2>1. PICK d \in Nat, r \in Pos : d = n \div W /\ r = n % W
    BY Division
  <2>2. n = W * d + r
    BY <2>1, Division
  <2>3. QED
    BY <2>1, <2>2
<1>2. W \in Nat \ {0} /\ r \in Nat /\ r < W /\ W * d \in Nat /\ W * (d + 1) = W * d + W
  BY Products DEF Pos
<1>3. BitIndex(n) = r
  BY <1>1 DEF BitIndex
<1>4. CASE r = 0
  <2>1. n + W - 1 = W * d + (W - 1) /\ W - 1 \in Pos
    BY <1>1, <1>2, <1>4 DEF Pos
  <2>2. BlocksFor(n) = d
    BY <2>1, DivisionIs DEF BlocksFor
  <2>3. QED
    BY <1>1, <1>2, <1>3, <1>4, <2>2
<1>5. CASE r # 0
  <2>1. n + W - 1 = W * (d + 1) + (r - 1) /\ r - 1 \in Pos
    BY <1>1, <1>2, <1>5 DEF Pos
  <2>2. BlocksFor(n) = d + 1
    BY <2>1, DivisionIs DEF BlocksFor
  <2>3. (d + 1) - 1 = d /\ d + 1 \in Nat \ {0}
    OBVIOUS
  <2>4. QED
    BY <1>1, <1>3, <1>5, <2>2, <2>3 DEF Place
<1>6. QED
  BY <1>4, <1>5

LEMMA InsideBlocks ==
  ASSUME NEW n \in Nat, NEW b \in Nat \ {0}, NEW p \in Pos
  PROVE  /\ Place(b, p) < n => b \in 1 .. BlocksFor(n)
         /\ b \in 1 .. BlocksFor(n) =>
              (Place(b, p) < n <=> BitIndex(n) = 0 \/ b # BlocksFor(n) \/ p < BitIndex(n))
<1>1. PICK B \in Nat, r \in Pos : B = BlocksFor(n) /\ r = BitIndex(n)
  BY BlocksForIs
<1>2. Place(b, p) \in Nat /\ b - 1 \in Nat /\ W * (b - 1) \in Nat /\ p \in Nat /\ p < W
      /\ W \in Nat /\ r \in Nat
  BY PlaceIs, Products DEF Pos
<1>3. CASE r = 0
  <2>1. W * B = n
    BY <1>1, <1>3, BlocksForIs
  <2>2. b <= B => W * (b - 1) + W <= W * B
    BY <1>2, Products
  <2>3. B < b => B <= b - 1 /\ W * B <= W * (b - 1)
    <3>1. B < b => B <= b - 1
      OBVIOUS
    <3>2. B < b - 1 => W * B + W <= W * (b - 1)
      BY <1>2, Products
    <3>3. W * B \in Nat
      BY Products
    <3>4. QED
      BY <1>2, <3>1, <3>2, <3>3
  <2>4. b <= B <=> Place(b, p) < n
    BY <1>2, <2>1, <2>2, <2>3 DEF Place
  <2>5. QED
    BY <1>1, <1>3, <2>4
<1>4. CASE r # 0
  <2>1. Place(B, r) = n /\ B \in Nat \ {0}
    BY <1>1, <1>4, BlocksForIs
  <2>2. b < B => Place(b, p) < n
    BY <2>1, PlaceOrder
  <2>3. B < b => n < Place(b, p)
    BY <2>1, PlaceOrder
  <2>4. b = B => (Place(b, p) < n <=> p < r)
    <3>1. W * (B - 1) \in Nat
      BY <2>1, Products
    <3>2. QED
      BY <1>2, <2>1, <3>1 DEF Place
  <2>5. QED
    BY <1>1, <1>2, <1>4, <2>1, <2>2, <2>3, <2>4
<1>5. QED
  BY <1>3, <1>4

-----------------------------------------------------------------------------
(* Vectors of blocks                                                       *)

Vectors(n) == [1 .. BlocksFor(n) -> SUBSET Pos]

(* The blocks that hold the bits o, and zeros elsewhere. *)
Packed(n, o) == [b \in 1 .. BlocksFor(n) |-> {p \in Pos : Place(b, p) \in o}]

LEMMA VectorFacts ==
  ASSUME NEW n \in Nat, NEW v \in Vectors(n)
  PROVE  /\ DOMAIN v = 1 .. BlocksFor(n) /\ Len(v) = BlocksFor(n) /\ v \in Seq(SUBSET Pos)
         /\ \A b \in 1 .. BlocksFor(n) : v[b] \in SUBSET Pos
<1>1. PICK B \in Nat : B = BlocksFor(n)
  BY BlocksForIs
<1>2. v \in [1 .. B -> SUBSET Pos]
  BY <1>1 DEF Vectors
<1>3. v \in Seq(SUBSET Pos) /\ Len(v) = B /\ DOMAIN v = 1 .. B
  BY ONLY <1>2, B \in Nat
<1>4. QED
  BY <1>1, <1>2, <1>3

LEMMA PackedIs ==
  ASSUME NEW n \in Nat, NEW o, NEW v \in Vectors(n),
         \A b \in 1 .. BlocksFor(n), p \in Pos : p \in v[b] <=> Place(b, p) \in o
  PROVE  v = Packed(n, o)
<1>1. \A b \in 1 .. BlocksFor(n) : v[b] = {p \in Pos : Place(b, p) \in o}
  BY DEF Vectors
<1>2. QED
  BY <1>1 DEF Vectors, Packed

LEMMA PackedFacts ==
  ASSUME NEW n \in Nat, NEW o
  PROVE  /\ Packed(n, o) \in Vectors(n) /\ Len(Packed(n, o)) = BlocksFor(n)
         /\ DOMAIN Packed(n, o) = 1 .. BlocksFor(n)
         /\ \A b \in 1 .. BlocksFor(n) : Packed(n, o)[b] \in SUBSET Pos
         /\ \A b \in 1 .. BlocksFor(n), p \in Pos :
              p \in Packed(n, o)[b] <=> Place(b, p) \in o
<1>1. Packed(n, o) \in Vectors(n)
  BY DEF Packed, Vectors
<1>2. \A b \in 1 .. BlocksFor(n), p \in Pos : p \in Packed(n, o)[b] <=> Place(b, p) \in o
  BY DEF Packed
<1>3. QED
  BY <1>1, <1>2, VectorFacts

(* Zeros behind the last bit, and nothing else changes. *)
LEMMA ZeroedIs ==
  ASSUME NEW n \in Nat, NEW v \in Vectors(n)
  PROVE  /\ ZeroUnusedBits(v, n) \in Vectors(n)
         /\ \A b \in 1 .. BlocksFor(n), p \in Pos :
              p \in ZeroUnusedBits(v, n)[b] <=> p \in v[b] /\ Place(b, p) < n
<1>1. PICK B \in Nat, r \in Pos : B = BlocksFor(n) /\ r = BitIndex(n)
  BY BlocksForIs
<1>2. \A b \in 1 .. B, p \in Pos : Place(b, p) < n <=> r = 0 \/ b # B \/ p < r
  BY <1>1, InsideBlocks
<1>3. PICK z : z = ZeroUnusedBits(v, n)
  OBVIOUS
<1>4. Len(v) = B /\ DOMAIN v = 1 .. B /\ v \in [1 .. B -> SUBSET Pos]
  BY <1>1, VectorFacts DEF Vectors
<1>5. z = IF r = 0 THEN v ELSE [v EXCEPT ![B] = @ \cap 0 .. r - 1]
  BY <1>1, <1>3, <1>4 DEF ZeroUnusedBits
<1>6. \A p \in Pos : p \in 0 .. r - 1 <=> p < r
  BY DEF Pos
<1>7. z \in [1 .. B -> SUBSET Pos]
  BY <1>4, <1>5
<1>8. \A b \in 1 .. B, p \in Pos : p \in z[b] <=> p \in v[b] /\ Place(b, p) < n
  BY <1>2, <1>4, <1>5, <1>6
<1>9. QED
  BY <1>1, <1>3, <1>7, <1>8 DEF Vectors

LEMMA ZeroedPacks ==
  ASSUME NEW n \in Nat, NEW v \in Vectors(n), NEW o,
         \A b \in 1 .. BlocksFor(n), p \in Pos :
           p \in v[b] /\ Place(b, p) < n <=> Place(b, p) \in o
  PROVE  ZeroUnusedBits(v, n) = Packed(n, o)
<1>1. PICK z : z = ZeroUnusedBits(v, n)
  OBVIOUS
<1>2. z \in Vectors(n) /\ \A b \in 1 .. BlocksFor(n), p \in Pos : p \in z[b] <=> Place(b, p) \in o
  BY <1>1, ZeroedIs
<1>3. z = Packed(n, o)
  BY <1>2, PackedIs
<1>4. QED
  BY <1>1, <1>3

(* One bit is written. *)
WithOne(v, i) == SetIn(v, i, TRUE)
WithZero(v, i) == SetIn(v, i, FALSE)

LEMMA SetInPacks ==
  ASSUME NEW n \in Nat, NEW o, NEW i \in 0 .. n - 1
  PROVE  /\ WithOne(Packed(n, o), i) = Packed(n, o \cup {i})
         /\ WithZero(Packed(n, o), i) = Packed(n, o \ {i})
<1>1. PICK c \in Nat \ {0}, q \in Pos : c = BlockIndex(i) /\ q = BitIndex(i) /\ Place(c, q) = i
  BY PlaceOf
<1>2. c \in 1 .. BlocksFor(n)
  BY <1>1, InsideBlocks
<1>3. PICK v : v = Packed(n, o)
  OBVIOUS
<1>4. v \in [1 .. BlocksFor(n) -> SUBSET Pos]
      /\ \A b \in 1 .. BlocksFor(n), p \in Pos : p \in v[b] <=> Place(b, p) \in o
  BY <1>3, PackedFacts DEF Vectors
<1>5. \A b \in 1 .. BlocksFor(n), p \in Pos : Place(b, p) = i <=> b = c /\ p = q
  <2>1. \A b \in 1 .. BlocksFor(n) : b \in Nat \ {0}
    OBVIOUS
  <2>2. QED
    BY <1>1, <2>1, PlaceIs
<1>6. WithOne(v, i) = Packed(n, o \cup {i})
  <2>1. PICK w : w = [v EXCEPT ![c] = @ \cup {q}]
    OBVIOUS
  <2>2. w \in [1 .. BlocksFor(n) -> SUBSET Pos]
    BY <1>2, <1>4, <2>1
  <2>3. \A b \in 1 .. BlocksFor(n), p \in Pos : p \in w[b] <=> Place(b, p) \in o \cup {i}
    BY <1>2, <1>4, <1>5, <2>1
  <2>4. w = Packed(n, o \cup {i})
    BY <2>2, <2>3, PackedIs DEF Vectors
  <2>5. QED
    BY <1>1, <2>1, <2>4 DEF SetIn, WithOne
<1>7. WithZero(v, i) = Packed(n, o \ {i})
  <2>1. PICK w : w = [v EXCEPT ![c] = @ \ {q}]
    OBVIOUS
  <2>2. w \in [1 .. BlocksFor(n) -> SUBSET Pos]
    BY <1>2, <1>4, <2>1
  <2>3. \A b \in 1 .. BlocksFor(n), p \in Pos : p \in w[b] <=> Place(b, p) \in o \ {i}
    BY <1>2, <1>4, <1>5, <2>1
  <2>4. w = Packed(n, o \ {i})
    BY <2>2, <2>3, PackedIs DEF Vectors
  <2>5. QED
    BY <1>1, <2>1, <2>4 DEF SetIn, WithZero
<1>8. QED
  BY <1>3, <1>6, <1>7

LEMMA OnePacks ==
  ASSUME NEW n \in Nat, NEW o, NEW i \in 0 .. n - 1
  PROVE  WithOne(Packed(n, o), i) = Packed(n, o \cup {i})
BY SetInPacks, Zenon

LEMMA ZeroPacks ==
  ASSUME NEW n \in Nat, NEW o, NEW i \in 0 .. n - 1
  PROVE  WithZero(Packed(n, o), i) = Packed(n, o \ {i})
BY SetInPacks, Zenon

-----------------------------------------------------------------------------
(* The operations                                                          *)

(* The inductive invariant: the blocks are determined by the bits.         *)
BitsInv ==
  /\ numBits \in Nat /\ size = numBits
  /\ ones \in SUBSET (0 .. numBits - 1)
  /\ bits = Packed(numBits, ones)

LEMMA BitsFacts ==
  ASSUME BitsInv
  PROVE  /\ numBits \in Nat /\ BlocksFor(numBits) \in Nat
         /\ bits \in Vectors(numBits) /\ bits \in [1 .. BlocksFor(numBits) -> SUBSET Pos]
         /\ Len(bits) = BlocksFor(numBits) /\ DOMAIN bits = 1 .. BlocksFor(numBits)
         /\ \A b \in 1 .. BlocksFor(numBits), p \in Pos : p \in bits[b] <=> Place(b, p) \in ones
         /\ \A i \in ones : i \in Nat /\ i < numBits
<1>1. /\ numBits \in Nat /\ bits = Packed(numBits, ones)
      /\ \A i \in ones : i \in Nat /\ i < numBits
  BY DEF BitsInv
<1>2. BlocksFor(numBits) \in Nat
  BY <1>1, BlocksForIs
<1>3. bits \in Vectors(numBits)
  BY <1>1, PackedFacts
<1>4. Len(bits) = BlocksFor(numBits) /\ DOMAIN bits = 1 .. BlocksFor(numBits)
  BY <1>1, PackedFacts
<1>5. \A b \in 1 .. BlocksFor(numBits), p \in Pos : p \in bits[b] <=> Place(b, p) \in ones
  BY <1>1, PackedFacts
<1>6. QED
  BY <1>1, <1>2, <1>3, <1>4, <1>5 DEF Vectors

KeptBits(n, value) == {i \in 0 .. n - 1 : IF i < numBits THEN i \in ones ELSE value}

LEMMA ResizedPacks ==
  ASSUME BitsInv, NEW n \in Nat, NEW value \in BOOLEAN
  PROVE  Resized(n, value) = Packed(n, KeptBits(n, value))
<1>1. PICK B \in Nat, A \in Nat, r \in Pos :
        B = BlocksFor(n) /\ A = BlocksFor(numBits) /\ r = ExtraBits
  BY BlocksForIs DEF ExtraBits, BitsInv
<1>2. PICK new : new = IF value THEN Pos ELSE {}
  OBVIOUS
<1>3. new \in SUBSET Pos /\ \A p \in Pos : p \in new <=> value
  BY <1>2
<1>4. PICK grown : grown = [b \in 1 .. B |-> IF b <= A THEN bits[b] ELSE new]
  OBVIOUS
<1>5. grown \in [1 .. B -> SUBSET Pos]
  BY <1>1, <1>3, <1>4, BitsFacts
<1>6. PICK v : v = IF value /\ n > numBits /\ r # 0
                   THEN [grown EXCEPT ![A] = @ \cup Shl(new, r)] ELSE grown
  OBVIOUS
<1>7. v \in [1 .. B -> SUBSET Pos]
  <2>1. Shl(new, r) \in SUBSET Pos
    BY DEF Shl
  <2>2. QED
    BY <1>5, <1>6, <2>1
<1>8. Resized(n, value) = ZeroUnusedBits(v, n)
  BY <1>1, <1>2, <1>4, <1>6, BitsFacts DEF Resized
<1>9. r # 0 => A \in Nat \ {0} /\ Place(A, r) = numBits
  BY <1>1, BitsFacts, BlocksForIs DEF ExtraBits
<1>10. \A b \in Nat \ {0}, p \in Pos :
         /\ Place(b, p) \in Nat
         /\ Place(b, p) < numBits <=> b <= A /\ (r = 0 \/ b # A \/ p < r)
  <2>1. ASSUME NEW b \in Nat \ {0}, NEW p \in Pos
        PROVE  Place(b, p) < numBits <=> b <= A /\ (r = 0 \/ b # A \/ p < r)
    <3>1. b \in 1 .. A <=> b <= A
      OBVIOUS
    <3>2. numBits \in Nat
      BY BitsFacts
    <3>3. QED
      BY <1>1, <3>1, <3>2, InsideBlocks DEF ExtraBits
  <2>2. QED
    BY <2>1, PlaceIs
<1>11. \A p \in Pos : value => (p \in Shl(new, r) <=> ~(p < r))
  <2> SUFFICES ASSUME NEW p \in Pos, value PROVE p \in Shl(new, r) <=> ~(p < r)
    OBVIOUS
  <2>1. p \in Nat /\ r \in Nat /\ new = Pos /\ p < W /\ W \in Nat
    BY <1>2, Products DEF Pos
  <2>2. ~(p < r) => p - r \in Pos /\ (p - r) + r = p
    BY <2>1 DEF Pos
  <2>3. \A s \in Pos : s + r = p => ~(p < r)
    BY <2>1 DEF Pos
  <2>4. QED
    BY <2>1, <2>2, <2>3 DEF Shl
<1>12. ASSUME NEW b \in 1 .. B, NEW p \in Pos, Place(b, p) < n
       PROVE  p \in v[b] <=> Place(b, p) \in KeptBits(n, value)
  <2>1. Place(b, p) \in 0 .. n - 1 /\ b \in Nat \ {0}
    BY <1>10, <1>12
  <2>2. Place(b, p) \in KeptBits(n, value) <=>
          IF Place(b, p) < numBits THEN Place(b, p) \in ones ELSE value
    BY <2>1 DEF KeptBits
  <2>3. b <= A => (p \in bits[b] <=> Place(b, p) \in ones)
    BY <1>1, <2>1, BitsFacts
  <2>4. Place(b, p) \in ones => Place(b, p) < numBits
    BY BitsFacts
  <2>5. grown[b] = IF b <= A THEN bits[b] ELSE new
    BY <1>4
  <2>6. CASE Place(b, p) < numBits
    <3>1. b <= A /\ (r = 0 \/ b # A \/ p < r)
      BY <1>10, <2>1, <2>6
    <3>2. p \in v[b] <=> p \in grown[b]
      BY <1>5, <1>6, <1>11, <3>1
    <3>3. QED
      BY <2>2, <2>3, <2>5, <2>6, <3>1, <3>2
  <2>7. CASE ~(Place(b, p) < numBits)
    <3>1. ~(Place(b, p) \in ones) /\ (b <= A => r # 0 /\ b = A /\ ~(p < r))
      BY <1>10, <2>1, <2>4, <2>7
    <3>2. numBits < n
      BY <1>10, <1>12, <2>1, <2>7, BitsFacts
    <3>3. CASE b <= A
      <4>1. p \in v[b] <=> value
        BY <1>5, <1>6, <1>11, <2>3, <2>5, <3>1, <3>2, <3>3
      <4>2. QED
        BY <2>2, <2>7, <4>1
    <3>4. CASE ~(b <= A)
      <4>1. v[b] = grown[b]
        <5>1. b # A
          BY <3>4
        <5>2. QED
          BY <1>5, <1>6, <5>1
      <4>2. QED
        BY <1>3, <2>2, <2>5, <2>7, <3>4, <4>1
    <3>5. QED
      BY <3>3, <3>4
  <2>8. QED
    BY <2>6, <2>7
<1>13. \A b \in 1 .. B, p \in Pos :
         p \in v[b] /\ Place(b, p) < n <=> Place(b, p) \in KeptBits(n, value)
  BY <1>12 DEF KeptBits
<1>14. ZeroUnusedBits(v, n) = Packed(n, KeptBits(n, value))
  BY <1>1, <1>7, <1>13, ZeroedPacks DEF Vectors
<1>15. QED
  BY <1>8, <1>14

LEMMA ConstructHolds ==
  ASSUME NEW n \in Nat, Construct(n)
  PROVE  BitsInv'
<1>1. Packed(n, {}) = [b \in 1 .. BlocksFor(n) |-> {}]
  BY DEF Packed
<1>2. QED
  BY <1>1 DEF Construct, BitsInv

LEMMA NothingIsPacked == Packed(0, {}) = <<>>
<1>1. BlocksFor(0) = 0
  <2>1. W * 0 + (W - 1) = 0 + W - 1 /\ W - 1 \in Pos
    BY Products DEF Pos
  <2>2. QED
    BY <2>1, DivisionIs DEF BlocksFor
<1>2. QED
  BY <1>1 DEF Packed

LEMMA ResizeHolds ==
  ASSUME BitsInv, NEW n \in Nat, NEW value \in BOOLEAN, Resize(n, value)
  PROVE  BitsInv'
<1>1. bits' = Packed(n, KeptBits(n, value))
  BY ResizedPacks DEF Resize
<1>2. ones' = KeptBits(n, value) /\ KeptBits(n, value) \in SUBSET (0 .. n - 1)
  BY DEF Resize, KeptBits, BitsInv
<1>3. QED
  BY <1>1, <1>2 DEF Resize, BitsInv

LEMMA PushBackHolds ==
  ASSUME BitsInv, NEW bit \in BOOLEAN, PushBack(bit)
  PROVE  BitsInv'
<1>1. PICK n \in Nat : n = numBits /\ n = size
  BY DEF BitsInv
<1>2. KeptBits(n + 1, FALSE) = ones
  <2>1. \A i \in ones : i \in Nat /\ i < n
    BY <1>1, BitsFacts
  <2>2. \A i \in ones : i \in 0 .. (n + 1) - 1
    BY <2>1
  <2>3. KeptBits(n + 1, FALSE) = {i \in 0 .. (n + 1) - 1 : IF i < n THEN i \in ones ELSE FALSE}
    BY <1>1 DEF KeptBits
  <2>4. QED
    BY <2>1, <2>2, <2>3
<1>3. n + 1 \in Nat /\ n \in 0 .. (n + 1) - 1
  OBVIOUS
<1>4. Resized(n + 1, FALSE) = Packed(n + 1, ones)
  BY <1>2, <1>3, ResizedPacks
<1>5. PICK m \in Nat : m = n + 1 /\ n \in 0 .. m - 1
  BY <1>3
<1>6. WithOne(Packed(m, ones), n) = Packed(m, ones \cup {n})
      /\ WithZero(Packed(m, ones), n) = Packed(m, ones \ {n})
  <2>1. WithOne(Packed(m, ones), n) = Packed(m, ones \cup {n})
    BY <1>5, OnePacks
  <2>2. WithZero(Packed(m, ones), n) = Packed(m, ones \ {n})
    BY <1>5, ZeroPacks
  <2>3. QED
    BY <2>1, <2>2
<1>7. numBits' = m /\ size' = m /\ bits' = SetIn(Packed(m, ones), n, bit)
  BY <1>1, <1>4, <1>5 DEF PushBack
<1>8. ones' = IF bit THEN ones \cup {n} ELSE ones
  BY <1>1 DEF PushBack
<1>9. ones \ {n} = ones
  BY <1>1, BitsFacts
<1>10. bits' = Packed(m, ones')
  <2>1. CASE bit = TRUE
    BY <1>6, <1>7, <1>8, <2>1 DEF WithOne
  <2>2. CASE bit = FALSE
    BY <1>6, <1>7, <1>8, <1>9, <2>2 DEF WithZero
  <2>3. QED
    BY <2>1, <2>2
<1>11. ones' \in SUBSET (0 .. m - 1)
  <2>1. \A i \in ones : i \in 0 .. m - 1
    BY <1>1, <1>5, BitsFacts
  <2>2. QED
    BY <1>5, <1>8, <2>1
<1>12. QED
  BY <1>7, <1>10, <1>11 DEF BitsInv

LEMMA AppendBlockHolds ==
  ASSUME BitsInv, NEW block \in Block, AppendBlock(block)
  PROVE  BitsInv'
<1>1. PICK n \in Nat, A \in Nat, r \in Pos :
        n = numBits /\ n = size /\ A = BlocksFor(n) /\ r = ExtraBits
  BY BlocksForIs DEF ExtraBits, BitsInv
<1>2. W \in Nat \ {0} /\ r \in Nat /\ r < W /\ n + W \in Nat
  BY Products DEF Pos
<1>3. PICK o : o = ones \cup {n + p : p \in block}
  OBVIOUS
<1>4. block \in SUBSET Pos /\ \A p \in Pos : p \in Nat /\ p < W
  BY <1>2 DEF Block, Pos
<1>5. o \in SUBSET (0 .. n + W - 1)
  <2>1. \A p \in block : n + p \in 0 .. n + W - 1
    BY <1>2, <1>4
  <2>2. \A i \in ones : i \in 0 .. n + W - 1
    BY <1>1, <1>2, BitsFacts
  <2>3. QED
    BY <1>3, <2>1, <2>2
<1>6. BlocksFor(n + W) = A + 1
  <2>1. PICK d \in Nat : d = (n + W - 1) \div W
    BY <1>1 DEF BlocksFor
  <2>2. PICK i \in Nat, s \in Pos : i = n + W - 1 /\ s = i % W /\ i = W * d + s
    <3>1. n + W - 1 \in Nat
      BY <1>2
    <3>2. QED
      BY <2>1, <3>1, Division
  <2>3. n + W + W - 1 = W * (d + 1) + s
    <3>1. W * (d + 1) = W * d + W /\ W * d \in Nat
      BY Products
    <3>2. QED
      BY <1>2, <1>4, <2>2, <3>1
  <2>4. BlocksFor(n + W) = d + 1
    BY <2>3, DivisionIs DEF BlocksFor
  <2>5. A = d
    BY <1>1, <2>1 DEF BlocksFor
  <2>6. QED
    BY <2>4, <2>5
<1>7. bits \in [1 .. A -> SUBSET Pos] /\ Len(bits) = A
      /\ \A b \in 1 .. A, p \in Pos : p \in bits[b] <=> Place(b, p) \in ones
  BY <1>1, BitsFacts
<1>8. \A i \in Nat : i \in o <=> i \in ones \/ \E p \in block : i = n + p
  BY <1>3
<1>9. ASSUME r = 0 PROVE bits' = Packed(n + W, o)
  <2>1. bits' = Append(bits, block)
    BY <1>1, <1>9 DEF AppendBlock
  <2>2. /\ bits' \in [1 .. A + 1 -> SUBSET Pos] /\ bits'[A + 1] = block
        /\ \A b \in 1 .. A : bits'[b] = bits[b]
    <3>1. PICK S, v, x : S = SUBSET Pos /\ v = bits /\ x = block
      OBVIOUS
    <3>2. v \in [1 .. A -> S] /\ x \in S
      BY <1>4, <1>7, <3>1
    <3>3. PICK w : w = Append(v, x)
      OBVIOUS
    <3>4. w \in [1 .. A + 1 -> S] /\ w[A + 1] = x /\ \A b \in 1 .. A : w[b] = v[b]
      <4>1. v \in Seq(S) /\ Len(v) = A
        BY <3>2
      <4>2. w \in Seq(S) /\ Len(w) = A + 1
        BY <3>2, <3>3, <4>1
      <4>3. w[A + 1] = x /\ \A b \in 1 .. A : w[b] = v[b]
        BY <3>2, <3>3, <4>1
      <4>4. QED
        BY <4>2, <4>3
    <3>5. QED
      BY <2>1, <3>1, <3>3, <3>4
  <2>3. bits' \in [1 .. A + 1 -> SUBSET Pos]
    BY <1>4, <1>7, <2>2
  <2>4. \A p \in Pos : Place(A + 1, p) = n + p
    <3>1. BitIndex(n) = 0
      BY <1>1, <1>9 DEF ExtraBits
    <3>2. W * A = n /\ (A + 1) - 1 = A
      BY <1>1, <3>1, BlocksForIs
    <3>3. QED
      BY <3>2 DEF Place
  <2>5. ASSUME NEW b \in 1 .. A + 1, NEW p \in Pos PROVE p \in bits'[b] <=> Place(b, p) \in o
    <3>1. CASE b = A + 1
      <4>1. Place(b, p) \in Nat /\ ~(Place(b, p) \in ones)
        BY <1>1, <1>4, <2>4, <3>1, BitsFacts
      <4>2. \A q \in block : n + p = n + q => p = q
        BY <1>4
      <4>3. Place(b, p) \in o <=> p \in block
        BY <1>4, <1>8, <2>4, <3>1, <4>1, <4>2
      <4>4. QED
        BY <2>2, <3>1, <4>3
    <3>2. CASE b # A + 1
      <4>1. b \in 1 .. A /\ b \in Nat \ {0}
        BY <3>2
      <4>2. Place(b, p) \in Nat /\ Place(b, p) < n
        BY <1>1, <1>9, <4>1, InsideBlocks, PlaceIs DEF ExtraBits
      <4>3. \A q \in block : Place(b, p) # n + q
        BY <1>4, <4>2
      <4>4. QED
        BY <1>7, <1>8, <2>2, <3>2, <4>1, <4>2, <4>3
    <3>3. QED
      BY <3>1, <3>2
  <2>6. bits' \in Vectors(n + W)
    BY <1>6, <2>3 DEF Vectors
  <2>7. QED
    BY <1>2, <1>6, <2>5, <2>6, PackedIs
<1>10. ASSUME r # 0 PROVE bits' = Packed(n + W, o)
  <2>1. A \in Nat \ {0} /\ Place(A, r) = n
    BY <1>1, <1>10, BlocksForIs DEF ExtraBits
  <2>2. PICK low, high : low = Shl(block, r) /\ high = Shr(block, W - r)
    OBVIOUS
  <2>3. low \in SUBSET Pos /\ high \in SUBSET Pos
    BY <2>2 DEF Shl, Shr
  <2>4. PICK filled : filled = [bits EXCEPT ![A] = @ \cup low]
    OBVIOUS
  <2>5. filled \in [1 .. A -> SUBSET Pos] /\ A \in 1 .. A
    BY <1>7, <2>1, <2>3, <2>4
  <2>6. bits' = Append(filled, high)
    BY <1>1, <1>7, <1>10, <2>2, <2>4 DEF AppendBlock
  <2>7. /\ bits' \in [1 .. A + 1 -> SUBSET Pos] /\ bits'[A + 1] = high
        /\ \A b \in 1 .. A : bits'[b] = filled[b]
    <3>1. PICK S, v, x : S = SUBSET Pos /\ v = filled /\ x = high
      OBVIOUS
    <3>2. v \in [1 .. A -> S] /\ x \in S
      BY <2>3, <2>5, <3>1
    <3>3. PICK w : w = Append(v, x)
      OBVIOUS
    <3>4. w \in [1 .. A + 1 -> S] /\ w[A + 1] = x /\ \A b \in 1 .. A : w[b] = v[b]
      <4>1. v \in Seq(S) /\ Len(v) = A
        BY <3>2
      <4>2. w \in Seq(S) /\ Len(w) = A + 1
        BY <3>2, <3>3, <4>1
      <4>3. w[A + 1] = x /\ \A b \in 1 .. A : w[b] = v[b]
        BY <3>2, <3>3, <4>1
      <4>4. QED
        BY <4>2, <4>3
    <3>5. QED
      BY <2>6, <3>1, <3>3, <3>4
  <2>8. bits' \in [1 .. A + 1 -> SUBSET Pos]
    BY <2>3, <2>5, <2>7
  <2>9. \A p \in Pos : Place(A, p) = n - r + p /\ Place(A + 1, p) = n - r + W + p
    <3>1. W * (A - 1) \in Nat /\ A - 1 \in Nat /\ W * 1 = W
      BY <1>2, <2>1, Products
    <3>2. W * (A - 1) + r = n
      BY <2>1 DEF Place
    <3>3. \A p \in Pos : Place(A + 1, p) = Place(A, p) + W
      BY <2>1, <3>1, PlaceMoves
    <3>4. \A p \in Pos : Place(A, p) = n - r + p
      BY <1>2, <1>4, <3>1, <3>2 DEF Place
    <3>5. QED
      BY <1>2, <1>4, <3>3, <3>4
  <2>10. ASSUME NEW b \in 1 .. A + 1, NEW p \in Pos PROVE p \in bits'[b] <=> Place(b, p) \in o
    <3>0. b \in Nat \ {0} /\ Place(b, p) \in Nat
      BY PlaceIs
    <3>1. CASE b = A + 1
      <4>1. ~(Place(b, p) \in ones)
        BY <1>1, <1>2, <1>4, <2>9, <3>1, BitsFacts
      <4>2. \A q \in block : Place(b, p) = n + q <=> p = q - (W - r)
        BY <1>2, <1>4, <2>9, <3>1
      <4>3. p \in high <=> \E q \in block : p = q - (W - r)
        BY <2>2 DEF Shr
      <4>4. QED
        BY <1>8, <2>7, <3>0, <3>1, <4>1, <4>2, <4>3
    <3>2. CASE b = A
      <4>1. \A q \in block : Place(b, p) = n + q <=> p = q + r
        BY <1>2, <1>4, <2>9, <3>2
      <4>2. p \in low <=> \E q \in block : p = q + r
        BY <2>2 DEF Shl
      <4>3. bits'[b] = bits[b] \cup low
        BY <1>7, <2>4, <2>5, <2>7, <3>2
      <4>4. p \in bits[b] <=> Place(b, p) \in ones
        BY <1>7, <2>5, <3>2
      <4>5. QED
        BY <1>8, <3>0, <4>1, <4>2, <4>3, <4>4
    <3>3. CASE b # A + 1 /\ b # A
      <4>1. b \in 1 .. A
        BY <3>3
      <4>2. Place(b, p) < n
        BY <1>1, <3>0, <3>3, <4>1, InsideBlocks
      <4>3. \A q \in block : Place(b, p) # n + q
        BY <1>4, <3>0, <4>2
      <4>4. bits'[b] = bits[b]
        BY <1>7, <2>4, <2>7, <3>3, <4>1
      <4>5. QED
        BY <1>7, <1>8, <3>0, <4>1, <4>3, <4>4
    <3>4. QED
      BY <3>1, <3>2, <3>3
  <2>11. bits' \in Vectors(n + W)
    BY <1>6, <2>8 DEF Vectors
  <2>12. QED
    BY <1>2, <1>6, <2>10, <2>11, PackedIs
<1>11. bits' = Packed(n + W, o)
  BY <1>9, <1>10
<1>12. numBits' = n + W /\ size' = n + W /\ ones' = o
  BY <1>1, <1>3 DEF AppendBlock
<1>13. QED
  BY <1>2, <1>5, <1>11, <1>12 DEF BitsInv

(* The bit at index i of the blocks. *)
LEMMA BitAt ==
  ASSUME BitsInv, NEW i \in Nat, i < numBits
  PROVE  /\ BlockIndex(i) \in 1 .. BlocksFor(numBits) /\ BitIndex(i) \in Pos
         /\ BitIndex(i) \in bits[BlockIndex(i)] <=> i \in ones
<1>1. PICK c \in Nat \ {0}, q \in Pos : c = BlockIndex(i) /\ q = BitIndex(i) /\ Place(c, q) = i
  BY PlaceOf
<1>2. c \in 1 .. BlocksFor(numBits)
  BY <1>1, BitsFacts, InsideBlocks
<1>3. q \in bits[c] <=> Place(c, q) \in ones
  BY <1>2, BitsFacts
<1>4. QED
  BY <1>1, <1>2, <1>3

LEMMA WritesOfOneBit ==
  ASSUME BitsInv, NEW i \in Nat, i < numBits, UNCHANGED <<numBits, size>>,
         \/ ones' = ones \cup {i} /\ bits' = WithOne(bits, i)
         \/ ones' = ones \ {i} /\ bits' = WithZero(bits, i)
  PROVE  BitsInv'
<1>1. PICK n \in Nat : n = numBits /\ i \in 0 .. n - 1
  BY DEF BitsInv
<1>2. bits = Packed(n, ones) /\ ones \in SUBSET (0 .. n - 1) /\ size = n
  BY <1>1 DEF BitsInv
<1>3. WithOne(Packed(n, ones), i) = Packed(n, ones \cup {i})
  BY <1>1, OnePacks
<1>4. WithZero(Packed(n, ones), i) = Packed(n, ones \ {i})
  BY <1>1, ZeroPacks
<1>5. bits' = Packed(n, ones')
  BY <1>2, <1>3, <1>4
<1>6. ones' \in SUBSET (0 .. n - 1)
  BY <1>1, <1>2
<1>7. QED
  BY <1>1, <1>2, <1>5, <1>6 DEF BitsInv

LEMMA SetBitHolds ==
  ASSUME BitsInv, NEW i \in Nat, NEW bit \in BOOLEAN, SetBit(i, bit)
  PROVE  BitsInv'
<1>1. i < numBits /\ UNCHANGED <<numBits, size>> /\ bits' = SetIn(bits, i, bit)
      /\ ones' = IF bit THEN ones \cup {i} ELSE ones \ {i}
  BY DEF SetBit
<1>2. CASE bit = TRUE
  <2>1. ones' = ones \cup {i} /\ bits' = WithOne(bits, i)
    BY <1>1, <1>2 DEF WithOne
  <2>2. QED
    BY <1>1, <2>1, WritesOfOneBit
<1>3. CASE bit = FALSE
  <2>1. ones' = ones \ {i} /\ bits' = WithZero(bits, i)
    BY <1>1, <1>3 DEF WithZero
  <2>2. QED
    BY <1>1, <2>1, WritesOfOneBit
<1>4. QED
  BY <1>2, <1>3

LEMMA FlipHolds ==
  ASSUME BitsInv, NEW i \in Nat, Flip(i)
  PROVE  BitsInv'
<1>1. PICK c, q : c = BlockIndex(i) /\ q = BitIndex(i)
  OBVIOUS
<1>2. /\ i < numBits /\ UNCHANGED <<numBits, size>>
      /\ bits' = [bits EXCEPT ![c] = IF q \in @ THEN @ \ {q} ELSE @ \cup {q}]
      /\ ones' = IF i \in ones THEN ones \ {i} ELSE ones \cup {i}
  BY <1>1 DEF Flip
<1>3. q \in bits[c] <=> i \in ones
  BY <1>1, <1>2, BitAt
<1>4. CASE i \in ones
  <2>1. bits' = [bits EXCEPT ![c] = @ \ {q}]
    BY <1>2, <1>3, <1>4
  <2>2. ones' = ones \ {i} /\ bits' = WithZero(bits, i)
    BY <1>1, <1>2, <1>4, <2>1 DEF WithZero, SetIn
  <2>3. QED
    BY <1>2, <2>2, WritesOfOneBit
<1>5. CASE i \notin ones
  <2>1. bits' = [bits EXCEPT ![c] = @ \cup {q}]
    BY <1>2, <1>3, <1>5
  <2>2. ones' = ones \cup {i} /\ bits' = WithOne(bits, i)
    BY <1>1, <1>2, <1>5, <2>1 DEF WithOne, SetIn
  <2>3. QED
    BY <1>2, <2>2, WritesOfOneBit
<1>6. QED
  BY <1>4, <1>5

(* An operation on all blocks. *)
LEMMA WritesOfAllBits ==
  ASSUME BitsInv, NEW o \in SUBSET (0 .. numBits - 1), bits' = Packed(numBits, o),
         ones' = o, UNCHANGED <<numBits, size>>
  PROVE  BitsInv'
BY DEF BitsInv

LEMMA SetAllHolds ==
  ASSUME BitsInv, SetAll
  PROVE  BitsInv'
<1>1. PICK n \in Nat, B \in Nat : n = numBits /\ B = BlocksFor(n) /\ DOMAIN bits = 1 .. B
  BY BitsFacts
<1>2. PICK v : v = [b \in 1 .. B |-> Pos]
  OBVIOUS
<1>3. v \in Vectors(n)
  BY <1>1, <1>2 DEF Vectors
<1>4. \A b \in 1 .. B, p \in Pos : p \in v[b] /\ Place(b, p) < n <=> Place(b, p) \in 0 .. n - 1
  <2>1. \A b \in 1 .. B, p \in Pos : Place(b, p) \in Nat
    BY PlaceIs
  <2>2. QED
    BY <1>2, <2>1
<1>5. ZeroUnusedBits(v, n) = Packed(n, 0 .. n - 1)
  BY <1>1, <1>3, <1>4, ZeroedPacks
<1>6. bits' = ZeroUnusedBits(v, n) /\ ones' = 0 .. n - 1 /\ UNCHANGED <<numBits, size>>
  BY <1>1, <1>2 DEF SetAll, BitsInv
<1>7. QED
  BY <1>1, <1>5, <1>6, WritesOfAllBits

LEMMA ResetAllHolds ==
  ASSUME BitsInv, ResetAll
  PROVE  BitsInv'
<1>1. bits' = Packed(numBits, {})
  BY BitsFacts DEF ResetAll, Packed
<1>2. QED
  BY <1>1, WritesOfAllBits DEF ResetAll

LEMMA FlipAllHolds ==
  ASSUME BitsInv, FlipAll
  PROVE  BitsInv'
<1>1. PICK n \in Nat, B \in Nat : n = numBits /\ B = BlocksFor(n) /\ DOMAIN bits = 1 .. B
  BY BitsFacts
<1>2. PICK v : v = [b \in 1 .. B |-> Pos \ bits[b]]
  OBVIOUS
<1>3. v \in Vectors(n)
  BY <1>1, <1>2 DEF Vectors
<1>4. \A b \in 1 .. B, p \in Pos :
        p \in v[b] /\ Place(b, p) < n <=> Place(b, p) \in 0 .. n - 1 \ ones
  <2>1. \A b \in 1 .. B, p \in Pos : Place(b, p) \in Nat
    BY PlaceIs
  <2>2. \A b \in 1 .. B, p \in Pos : p \in bits[b] <=> Place(b, p) \in ones
    BY <1>1, BitsFacts
  <2>3. QED
    BY <1>2, <2>1, <2>2
<1>5. ZeroUnusedBits(v, n) = Packed(n, 0 .. n - 1 \ ones)
  BY <1>1, <1>3, <1>4, ZeroedPacks
<1>6. bits' = ZeroUnusedBits(v, n) /\ ones' = 0 .. n - 1 \ ones /\ UNCHANGED <<numBits, size>>
  BY <1>1, <1>2 DEF FlipAll, BitsInv
<1>7. QED
  BY <1>1, <1>5, <1>6, WritesOfAllBits

(* A bit of block b comes from the same or the next lower block of those   *)
(* that lie d blocks before it.                                            *)
Source(b, p, r, c, q) ==
  IF p >= r THEN c = b /\ q = p - r ELSE c = b - 1 /\ q = p + W - r

LEMMA SourceIs ==
  ASSUME NEW b \in Nat \ {0}, NEW p \in Pos, NEW d \in Nat, NEW r \in Pos,
         NEW n \in Nat, n = W * d + r, NEW c, NEW q, Source(b, p, r, c, q)
  PROVE  /\ c \in Nat /\ q \in Pos
         /\ c > d => c - d \in Nat \ {0} /\ Place(b, p) = Place(c - d, q) + n
         /\ c <= d => Place(b, p) < n
<1>1. /\ W \in Nat \ {0} /\ p \in Nat /\ p < W /\ r \in Nat /\ r < W /\ W * d \in Nat
      /\ b - 1 \in Nat /\ W * (b - 1) \in Nat
  BY Products DEF Pos
<1>2. c \in Nat /\ q \in Pos
  BY <1>1 DEF Source, Pos
<1>3. ASSUME c > d PROVE c - d \in Nat \ {0} /\ Place(b, p) = Place(c - d, q) + n
  <2>1. PICK k \in Nat \ {0} : k = c - d /\ c = k + d
    <3>1. c - d \in Nat \ {0} /\ c = (c - d) + d
      BY <1>2, <1>3
    <3>2. QED
      BY <3>1
  <2>2. Place(c, q) = Place(k, q) + W * d
    BY <1>2, <2>1, PlaceMoves
  <2>3. Place(b, p) = Place(c, q) + r
    <3>1. c - 1 \in Nat /\ W * (c - 1) \in Nat /\ W * c = W * (c - 1) + W
      <4>1. c - 1 \in Nat /\ (c - 1) + 1 = c
        BY <1>2, <1>3
      <4>2. QED
        BY <4>1, Products
    <3>2. CASE p >= r
      <4>1. c = b /\ q = p - r
        BY <3>2 DEF Source
      <4>2. QED
        BY <1>1, <4>1 DEF Place
    <3>3. CASE ~(p >= r)
      <4>1. c = b - 1 /\ q = p + W - r
        BY <3>3 DEF Source
      <4>2. W * (b - 1) = W * (c - 1) + W
        BY <3>1, <4>1
      <4>3. QED
        BY <1>1, <3>1, <4>1, <4>2 DEF Place
    <3>4. QED
      BY <3>2, <3>3
  <2>4. Place(k, q) \in Nat
    BY <1>2, PlaceIs
  <2>5. QED
    BY <1>1, <2>1, <2>2, <2>3, <2>4
<1>4. ASSUME c <= d PROVE Place(b, p) < n
  <2>1. CASE p >= r
    <3>1. b - 1 < d
      BY <1>4, <2>1 DEF Source
    <3>2. W * (b - 1) + W <= W * d
      BY <1>1, <3>1, Products
    <3>3. QED
      BY <1>1, <3>2 DEF Place
  <2>2. CASE ~(p >= r)
    <3>1. b - 1 <= d
      BY <1>4, <2>2 DEF Source
    <3>2. b - 1 < d => W * (b - 1) + W <= W * d
      BY <1>1, Products
    <3>3. W * (b - 1) <= W * d
      BY <1>1, <3>1, <3>2
    <3>4. QED
      BY <1>1, <2>2, <3>3 DEF Place
  <2>3. QED
    BY <2>1, <2>2
<1>5. QED
  BY <1>2, <1>3, <1>4

LEMMA ShiftLeftHolds ==
  ASSUME BitsInv, NEW n \in Nat, ShiftLeft(n)
  PROVE  BitsInv'
<1>1. PICK m \in Nat, B \in Nat : m = numBits /\ m = size /\ B = BlocksFor(m)
  BY BitsFacts DEF BitsInv
<1>2. PICK d \in Nat, r \in Pos : d = n \div W /\ r = BitIndex(n) /\ n = W * d + r
  <2>1. PICK d \in Nat, r \in Pos : d = n \div W /\ r = n % W
    BY Division
  <2>2. n = W * d + r
    BY <2>1, Division
  <2>3. QED
    BY <2>1, <2>2 DEF BitIndex
<1>3. PICK o : o = {i + n : i \in ones} \cap 0 .. m - 1
  OBVIOUS
<1>4. \A i \in ones : i \in Nat /\ i < m
  BY <1>1, BitsFacts
<1>5. DOMAIN bits = 1 .. B /\ bits \in [1 .. B -> SUBSET Pos]
      /\ \A b \in 1 .. B, p \in Pos : p \in bits[b] <=> Place(b, p) \in ones
  BY <1>1, BitsFacts
<1> DEFINE From(b) == IF b - d < 1 THEN {} ELSE bits[b - d]
           shifted == [b \in 1 .. B |->
                         IF r = 0 THEN From(b) ELSE Shl(From(b), r) \cup Shr(From(b - 1), W - r)]
<1>6. /\ bits' = IF n >= m THEN [b \in 1 .. B |-> {}]
                 ELSE IF n = 0 THEN bits ELSE ZeroUnusedBits(shifted, m)
      /\ ones' = o /\ UNCHANGED <<numBits, size>>
  BY <1>1, <1>2, <1>3, <1>5 DEF ShiftLeft
<1>7. W \in Nat \ {0} /\ r \in Nat /\ r < W /\ \A p \in Pos : p \in Nat /\ p < W
  BY Products DEF Pos
<1>8. ASSUME NEW c \in Nat, c <= B
      PROVE  /\ From(c) \in SUBSET Pos
             /\ \A q \in Pos : q \in From(c) <=> c > d /\ Place(c - d, q) \in ones
  <2>1. CASE c > d
    <3>1. c - d \in 1 .. B /\ From(c) = bits[c - d]
      BY <1>8, <2>1
    <3>2. QED
      BY <1>5, <2>1, <3>1
  <2>2. CASE ~(c > d)
    BY <1>8, <2>2
  <2>3. QED
    BY <2>1, <2>2
<1>9. ASSUME NEW b \in 1 .. B
      PROVE  /\ shifted[b] \in SUBSET Pos
             /\ \A p \in Pos : \A c, q : Source(b, p, r, c, q) => (p \in shifted[b] <=> q \in From(c))
  <2>1. b - 1 \in Nat /\ b - 1 <= B /\ b \in Nat /\ b <= B
    OBVIOUS
  <2>2. PICK f, g : f = From(b) /\ g = From(b - 1)
    OBVIOUS
  <2>3. f \in SUBSET Pos /\ g \in SUBSET Pos
    BY <1>8, <2>1, <2>2
  <2>4. shifted[b] = IF r = 0 THEN f ELSE Shl(f, r) \cup Shr(g, W - r)
    BY <2>2
  <2>5. ASSUME NEW p \in Pos, NEW c, NEW q, Source(b, p, r, c, q)
        PROVE  p \in shifted[b] <=> q \in From(c)
    <3>0. p \in Nat /\ p < W
      BY <1>7
    <3>1. p \in Shl(f, r) <=> p >= r /\ p - r \in f
      <4>1. \A s \in Pos : p = s + r <=> p >= r /\ s = p - r
        BY <1>7, <3>0
      <4>2. p \in Shl(f, r) <=> \E s \in f : p = s + r
        BY DEF Shl
      <4>3. QED
        BY <2>3, <4>1, <4>2
    <3>2. p \in Shr(g, W - r) <=> ~(p >= r) /\ p + W - r \in g
      <4>1. \A s \in Pos : p = s - (W - r) <=> ~(p >= r) /\ s = p + W - r
        BY <1>7, <3>0
      <4>2. p \in Shr(g, W - r) <=> \E s \in g : p = s - (W - r)
        BY DEF Shr
      <4>3. QED
        BY <2>3, <4>1, <4>2
    <3>3. CASE p >= r
      <4>1. q \in From(c) <=> p - r \in f
        BY <2>2, <2>5, <3>3 DEF Source
      <4>2. r = 0 => p - r = p
        BY <3>0
      <4>3. QED
        BY <2>4, <3>1, <3>2, <3>3, <4>1, <4>2
    <3>4. CASE ~(p >= r)
      <4>1. q \in From(c) <=> p + W - r \in g
        BY <2>2, <2>5, <3>4 DEF Source
      <4>2. r # 0
        BY <3>0, <3>4
      <4>3. QED
        BY <2>4, <3>1, <3>2, <3>4, <4>1, <4>2
    <3>5. QED
      BY <3>3, <3>4
  <2>6. shifted[b] \in SUBSET Pos
    BY <2>3, <2>4 DEF Shl, Shr
  <2>7. QED
    BY <2>5, <2>6
<1>10. PICK v : v = shifted
  OBVIOUS
<1>11. v \in Vectors(m)
  <2>1. \A b \in 1 .. B : v[b] \in SUBSET Pos
    BY <1>9, <1>10
  <2>2. v = [b \in 1 .. B |-> v[b]]
    BY <1>10
  <2>3. QED
    BY <1>1, <2>1, <2>2 DEF Vectors
<1>12. ASSUME NEW b \in 1 .. B, NEW p \in Pos
       PROVE  p \in v[b] <=> \E i \in ones : Place(b, p) = i + n
  <2>1. PICK c, q : Source(b, p, r, c, q)
    <3>1. CASE p >= r
      BY <3>1 DEF Source
    <3>2. CASE ~(p >= r)
      BY <3>2 DEF Source
    <3>3. QED
      BY <3>1, <3>2
  <2>2. b \in Nat \ {0}
    OBVIOUS
  <2>3. /\ c \in Nat /\ q \in Pos
        /\ c > d => c - d \in Nat \ {0} /\ Place(b, p) = Place(c - d, q) + n
        /\ c <= d => Place(b, p) < n
    BY <1>2, <2>1, <2>2, SourceIs
  <2>4. c <= B
    BY <1>7, <2>1, <2>3 DEF Source
  <2>5. p \in v[b] <=> c > d /\ Place(c - d, q) \in ones
    <3>1. p \in v[b] <=> q \in From(c)
      BY <1>9, <1>10, <2>1
    <3>2. q \in From(c) <=> c > d /\ Place(c - d, q) \in ones
      BY <1>8, <2>3, <2>4
    <3>3. QED
      BY <3>1, <3>2
  <2>6. Place(b, p) \in Nat
    BY <2>2, PlaceIs
  <2>7. CASE c > d
    <3>1. PICK j \in Nat : j = Place(c - d, q)
      BY <2>3, <2>7, PlaceIs
    <3>2. Place(b, p) = j + n
      BY <2>3, <2>7, <3>1
    <3>3. \A i \in ones : Place(b, p) = i + n <=> i = j
      BY <1>4, <3>2
    <3>4. QED
      BY <2>5, <2>7, <3>1, <3>3
  <2>8. CASE ~(c > d)
    <3>1. Place(b, p) < n
      BY <2>3, <2>8
    <3>2. \A i \in ones : Place(b, p) # i + n
      BY <1>4, <2>6, <3>1
    <3>3. QED
      BY <2>5, <2>8, <3>2
  <2>9. QED
    BY <2>7, <2>8
<1> HIDE DEF From, shifted
<1>13. ZeroUnusedBits(v, m) = Packed(m, o)
  <2>1. ASSUME NEW b \in 1 .. B, NEW p \in Pos
        PROVE  p \in v[b] /\ Place(b, p) < m <=> Place(b, p) \in o
    <3>1. Place(b, p) \in Nat
      BY PlaceIs
    <3>2. Place(b, p) \in o <=> (\E i \in ones : Place(b, p) = i + n) /\ Place(b, p) < m
      BY <1>3, <3>1
    <3>3. QED
      BY <1>12, <3>2
  <2>2. QED
    BY <1>1, <1>11, <2>1, ZeroedPacks
<1>14. bits' = Packed(m, o)
  <2>1. CASE n >= m
    <3>1. o = {}
      BY <1>3, <1>4, <2>1
    <3>2. QED
      BY <1>1, <1>6, <2>1, <3>1 DEF Packed
  <2>2. CASE ~(n >= m) /\ n = 0
    <3>1. \A i \in ones : i + 0 = i /\ i \in 0 .. m - 1
      BY <1>4
    <3>2. o = ones
      BY <1>3, <2>2, <3>1
    <3>3. QED
      BY <1>1, <1>6, <2>2, <3>2 DEF BitsInv
  <2>3. CASE ~(n >= m) /\ n # 0
    BY <1>6, <1>10, <1>13, <2>3
  <2>4. QED
    BY <2>1, <2>2, <2>3
<1>15. o \in SUBSET (0 .. numBits - 1)
  BY <1>1, <1>3
<1>16. QED
  BY <1>1, <1>6, <1>14, <1>15, WritesOfAllBits

LEMMA ApplyIs ==
  ASSUME NEW a, NEW b
  PROVE  /\ Apply("&=", a, b) = a \cap b /\ Apply("|=", a, b) = a \cup b
         /\ Apply("-=", a, b) = a \ b /\ Apply("^=", a, b) = (a \ b) \cup (b \ a)
BY DEF Apply, And, Or, Minus, Xor

Operators == {"&=", "|=", "-=", "^="}

(* What an operator does to two bits. *)
Result(op, x, y) ==
  CASE op = "&=" -> x /\ y [] op = "|=" -> x \/ y
    [] op = "-=" -> x /\ ~y [] op = "^=" -> ~(x <=> y)

LEMMA ApplyToBits ==
  ASSUME NEW op \in Operators, NEW a, NEW b, NEW x
  PROVE  x \in Apply(op, a, b) <=> Result(op, x \in a, x \in b)
<1>1. CASE op = "&="
  BY <1>1, ApplyIs DEF Result
<1>2. CASE op = "|="
  BY <1>2, ApplyIs DEF Result
<1>3. CASE op = "-="
  BY <1>3, ApplyIs DEF Result
<1>4. CASE op = "^="
  BY <1>4, ApplyIs DEF Result
<1>5. QED
  BY <1>1, <1>2, <1>3, <1>4 DEF Operators

LEMMA ApplyInside ==
  ASSUME NEW op \in Operators, NEW S, NEW a \in SUBSET S, NEW b \in SUBSET S
  PROVE  Apply(op, a, b) \in SUBSET S
<1>1. CASE op = "&="
  BY <1>1, ApplyIs
<1>2. CASE op = "|="
  BY <1>2, ApplyIs
<1>3. CASE op = "-="
  BY <1>3, ApplyIs
<1>4. CASE op = "^="
  BY <1>4, ApplyIs
<1>5. QED
  BY <1>1, <1>2, <1>3, <1>4 DEF Operators

LEMMA CombineHolds ==
  ASSUME BitsInv, NEW op \in Operators, NEW zs \in SUBSET (0 .. numBits - 1),
         Combine(op, zs)
  PROVE  BitsInv'
<1>1. PICK n \in Nat, B \in Nat :
        n = numBits /\ B = BlocksFor(n) /\ DOMAIN bits = 1 .. B
        /\ bits \in [1 .. B -> SUBSET Pos]
        /\ \A b \in 1 .. B, p \in Pos : p \in bits[b] <=> Place(b, p) \in ones
  BY BitsFacts
<1>2. PICK z : z = [b \in 1 .. B |-> {BitIndex(i) : i \in {j \in zs : BlockIndex(j) = b}}]
  OBVIOUS
<1>3. PICK v : v = [b \in 1 .. B |-> Apply(op, bits[b], z[b])]
  OBVIOUS
<1>4. bits' = v /\ ones' = Apply(op, ones, zs) /\ UNCHANGED <<numBits, size>>
  BY <1>1, <1>2, <1>3 DEF Combine
<1>5. ASSUME NEW b \in 1 .. B
      PROVE  z[b] \in SUBSET Pos /\ \A p \in Pos : p \in z[b] <=> Place(b, p) \in zs
  <2>1. \A i \in zs : /\ BitIndex(i) \in Pos
                      /\ Place(BlockIndex(i), BitIndex(i)) = i
    BY <1>1, PlaceOf
  <2>2. z[b] = {BitIndex(i) : i \in {j \in zs : BlockIndex(j) = b}}
    BY <1>2
  <2>3. ASSUME NEW p \in Pos PROVE p \in z[b] <=> Place(b, p) \in zs
    <3>1. BlockIndex(Place(b, p)) = b /\ BitIndex(Place(b, p)) = p
      BY PlaceIs
    <3>2. \A i \in zs : BlockIndex(i) = b /\ BitIndex(i) = p => i = Place(b, p)
      BY <2>1
    <3>3. QED
      BY <2>2, <3>1, <3>2
  <2>4. QED
    BY <2>1, <2>2, <2>3
<1>6. v \in Vectors(n)
  <2>1. \A b \in 1 .. B : Apply(op, bits[b], z[b]) \in SUBSET Pos
    BY <1>1, <1>5, ApplyInside
  <2>2. QED
    BY <1>1, <1>3, <2>1 DEF Vectors
<1>7. ASSUME NEW b \in 1 .. B, NEW p \in Pos
      PROVE  p \in v[b] <=> Place(b, p) \in Apply(op, ones, zs)
  <2>1. p \in v[b] <=> Result(op, p \in bits[b], p \in z[b])
    BY <1>3, ApplyToBits
  <2>2. Place(b, p) \in Apply(op, ones, zs) <=> Result(op, Place(b, p) \in ones, Place(b, p) \in zs)
    BY ApplyToBits
  <2>3. (p \in bits[b] <=> Place(b, p) \in ones) /\ (p \in z[b] <=> Place(b, p) \in zs)
    BY <1>1, <1>5
  <2>4. QED
    BY <2>1, <2>2, <2>3 DEF Result
<1>8. v = Packed(n, Apply(op, ones, zs))
  BY <1>1, <1>6, <1>7, PackedIs
<1>9. Apply(op, ones, zs) \in SUBSET (0 .. numBits - 1)
  BY ApplyInside DEF BitsInv
<1>10. QED
  BY <1>1, <1>4, <1>8, <1>9, WritesOfAllBits

LEMMA BitsInvHolds == BitsSpec => []BitsInv
<1>1. BitsInit => BitsInv
  BY NothingIsPacked DEF BitsInit, BitsInv
<1>2. BitsInv /\ [BitsNext]_bitVars => BitsInv'
  <2> SUFFICES ASSUME BitsInv, [BitsNext]_bitVars PROVE BitsInv'
    OBVIOUS
  <2>0. MaxSize \in Nat /\ \A n \in 0 .. MaxSize : n \in Nat
    BY BitvectorAssumption
  <2>1. ASSUME NEW n \in 0 .. MaxSize, Construct(n) PROVE BitsInv'
    BY <2>0, <2>1, ConstructHolds
  <2>2. CASE Clear
    BY <2>2, NothingIsPacked DEF Clear, BitsInv
  <2>3. ASSUME NEW n \in 0 .. MaxSize, NEW value \in BOOLEAN, Resize(n, value) PROVE BitsInv'
    BY <2>0, <2>3, ResizeHolds
  <2>4. ASSUME NEW bit \in BOOLEAN, PushBack(bit) PROVE BitsInv'
    BY <2>4, PushBackHolds
  <2>5. ASSUME NEW block \in Block, AppendBlock(block) PROVE BitsInv'
    BY <2>5, AppendBlockHolds
  <2>6. ASSUME NEW i \in 0 .. MaxSize, NEW bit \in BOOLEAN, SetBit(i, bit) PROVE BitsInv'
    BY <2>0, <2>6, SetBitHolds
  <2>7. CASE SetAll
    BY <2>7, SetAllHolds
  <2>8. CASE ResetAll
    BY <2>8, ResetAllHolds
  <2>9. ASSUME NEW i \in 0 .. MaxSize, Flip(i) PROVE BitsInv'
    BY <2>0, <2>9, FlipHolds
  <2>10. CASE FlipAll
    BY <2>10, FlipAllHolds
  <2>11. ASSUME NEW n \in 0 .. MaxSize, ShiftLeft(n) PROVE BitsInv'
    BY <2>0, <2>11, ShiftLeftHolds
  <2>12. ASSUME NEW op \in Operators, NEW zs \in SUBSET (0 .. numBits - 1), Combine(op, zs)
         PROVE  BitsInv'
    BY <2>12, CombineHolds
  <2>13. CASE UNCHANGED bitVars
    BY <2>13 DEF bitVars, BitsInv
  <2>14. QED
    BY <2>1, <2>2, <2>3, <2>4, <2>5, <2>6, <2>7, <2>8, <2>9, <2>10, <2>11, <2>12, <2>13
       DEF BitsNext, Operators
<1>3. QED
  BY <1>1, <1>2, PTL DEF BitsSpec

-----------------------------------------------------------------------------
(* Queries                                                                 *)

LEMMA BitsAreOnes ==
  ASSUME BitsInv
  PROVE  Bits = ones
<1>1. PICK n \in Nat, B \in Nat, M \in Nat :
        n = numBits /\ B = BlocksFor(n) /\ B = Len(bits) /\ M = W * Len(bits)
  BY BitsFacts, Products
<1>2. Bits = {i \in 0 .. M - 1 : BitIndex(i) \in bits[BlockIndex(i)]}
  BY <1>1 DEF Bits
<1>3. \A i \in Nat : i < n => i < M
  <2> SUFFICES ASSUME NEW i \in Nat, i < n PROVE i < M
    OBVIOUS
  <2>1. PICK c \in Nat \ {0}, q \in Pos : c = BlockIndex(i) /\ q = BitIndex(i) /\ Place(c, q) = i
    BY PlaceOf
  <2>2. c \in 1 .. B
    BY <1>1, <2>1, InsideBlocks
  <2>3. c - 1 \in Nat /\ c - 1 < B /\ W * (c - 1) + W <= W * B /\ W * (c - 1) \in Nat
    <3>1. c - 1 \in Nat /\ c - 1 < B
      BY <2>2
    <3>2. QED
      BY <3>1, Products
  <2>4. q \in Nat /\ q < W /\ W \in Nat
    BY Products DEF Pos
  <2>5. W * B = M /\ i = W * (c - 1) + q
    BY <1>1, <2>1 DEF Place
  <2>6. QED
    BY ONLY <2>3, <2>4, <2>5, M \in Nat, i \in Nat
<1>4. ASSUME NEW i \in 0 .. M - 1 PROVE BitIndex(i) \in bits[BlockIndex(i)] <=> i \in ones
  <2>1. PICK c \in Nat \ {0}, q \in Pos : c = BlockIndex(i) /\ q = BitIndex(i) /\ Place(c, q) = i
    BY PlaceOf
  <2>2. c \in 1 .. B
    <3>2. B < c => W * B \in Nat /\ W * B <= i
      <4>1. ASSUME B < c PROVE W * B <= W * (c - 1)
        <5>1. c - 1 \in Nat /\ B <= c - 1
          BY <4>1
        <5>2. B < c - 1 => W * B + W <= W * (c - 1)
          BY <5>1, Products
        <5>3. W * B \in Nat /\ W \in Nat /\ W * (c - 1) \in Nat
          BY <5>1, Products
        <5>4. QED
          BY <5>1, <5>2, <5>3
      <4>2. W * B \in Nat /\ W * (c - 1) \in Nat /\ q \in Nat
        BY Products DEF Pos
      <4>3. QED
        BY <2>1, <4>1, <4>2 DEF Place
    <3>3. W * B = M
      BY <1>1
    <3>4. QED
      BY <3>2, <3>3
  <2>3. QED
    BY <1>1, <2>1, <2>2, BitsFacts
<1>5. \A i \in ones : i \in 0 .. M - 1
  BY <1>1, <1>3, BitsFacts
<1>6. QED
  BY <1>2, <1>4, <1>5

(* The bits of the first b blocks. *)
Below(b) == {i \in ones : i < W * b}

LEMMA OnesAreFinite ==
  ASSUME BitsInv
  PROVE  IsFiniteSet(ones) /\ \A s \in SUBSET ones : IsFiniteSet(s) /\ Cardinality(s) \in Nat
<1>1. IsFiniteSet(0 .. numBits - 1)
  BY FS_Interval DEF BitsInv
<1>2. \A s \in SUBSET (0 .. numBits - 1) : IsFiniteSet(s)
  BY <1>1, FS_Subset
<1>3. QED
  BY <1>2, FS_CardinalityType DEF BitsInv

LEMMA BelowGrows ==
  ASSUME BitsInv, NEW b \in 1 .. BlocksFor(numBits)
  PROVE  Cardinality(Below(b)) = Cardinality(Below(b - 1)) + Cardinality(bits[b])
<1>1. /\ b - 1 \in Nat /\ b \in Nat \ {0} /\ W * (b - 1) \in Nat /\ W * b \in Nat
      /\ W * b = W * (b - 1) + W /\ W \in Nat
  <2>1. b - 1 \in Nat /\ b \in Nat \ {0} /\ (b - 1) + 1 = b
    OBVIOUS
  <2>2. QED
    BY <2>1, Products
<1>2. PICK k \in Nat : k = W * (b - 1) /\ W * b = k + W
  BY <1>1
<1>3. PICK L, T, H : L = Below(b - 1) /\ H = Below(b) /\ T = {i \in ones : k <= i /\ i < k + W}
  OBVIOUS
<1>4. L = {i \in ones : i < k} /\ H = {i \in ones : i < k + W}
  BY <1>2, <1>3 DEF Below
<1>5. \A i \in ones : i \in Nat
  BY BitsFacts
<1>6. H = L \cup T /\ L \cap T = {} /\ L \in SUBSET ones /\ T \in SUBSET ones
  BY <1>1, <1>2, <1>3, <1>4, <1>5
<1>7. Cardinality(H) = Cardinality(L) + Cardinality(T)
  <2>1. Cardinality(L \cup T) = Cardinality(L) + Cardinality(T) - Cardinality(L \cap T)
    BY <1>6, OnesAreFinite, FS_Union
  <2>2. Cardinality(L \cap T) = 0
    BY <1>6, FS_EmptySet
  <2>3. Cardinality(L) \in Nat /\ Cardinality(T) \in Nat
    BY <1>6, OnesAreFinite
  <2>4. QED
    BY <1>6, <2>1, <2>2, <2>3
<1>8. Cardinality(T) = Cardinality(bits[b])
  <2>1. PICK f : f = [i \in T |-> i - k]
    OBVIOUS
  <2>2. PICK s : s = bits[b] /\ s \in SUBSET Pos /\ \A p \in Pos : p \in s <=> k + p \in ones
    BY <1>2, BitsFacts DEF Place
  <2>3. \A i \in T : i - k \in Pos /\ k + (i - k) = i
    BY <1>1, <1>3, <1>5 DEF Pos
  <2>4. \A i \in T : f[i] \in s
    BY <1>3, <2>1, <2>2, <2>3
  <2>5. \A p \in s : k + p \in T /\ (k + p) - k = p
    BY <1>1, <1>3, <2>2 DEF Pos
  <2>6. \A p \in s : \E i \in T : f[i] = p
    BY <2>1, <2>5
  <2>7. \A i, j \in T : f[i] = f[j] => i = j
    BY <1>3, <1>5, <2>1
  <2>8. f \in [T -> s]
    BY <2>1, <2>4
  <2>9. f \in Bijection(T, s)
    BY <2>6, <2>7, <2>8 DEF Bijection, Injection, Surjection, IsInjective
  <2>10. QED
    <3>1. ExistsBijection(T, s) /\ IsFiniteSet(T)
      BY <1>6, <2>9, OnesAreFinite DEF ExistsBijection
    <3>2. QED
      BY <2>2, <3>1, FS_Bijection
<1>9. QED
  BY <1>3, <1>7, <1>8

LEMMA BelowNone ==
  ASSUME BitsInv
  PROVE  Cardinality(Below(0)) = 0 /\ Below(BlocksFor(numBits)) = ones
<1>1. Below(0) = {}
  <2>1. \A i \in ones : ~(i < 0)
    BY BitsFacts
  <2>2. QED
    BY <2>1, Products DEF Below
<1>2. \A i \in ones : i < W * BlocksFor(numBits)
  <2>1. \A i \in ones : i \in 0 .. W * Len(bits) - 1
    BY BitsAreOnes DEF Bits
  <2>2. PICK M \in Nat : M = W * BlocksFor(numBits) /\ M = W * Len(bits)
    BY BitsFacts, Products
  <2>3. QED
    BY <2>1, <2>2
<1>3. QED
  BY <1>1, <1>2, FS_EmptySet DEF Below

(* count returns the number of the caller's bits. *)
LEMMA CountIs ==
  ASSUME BitsInv
  PROVE  Count = Cardinality(ones)
<1> DEFINE IsSum(F) == F = [b \in 0 .. Len(bits) |->
                              IF b = 0 THEN 0 ELSE F[b - 1] + Cardinality(bits[b])]
<1>1. PICK B \in Nat : B = Len(bits) /\ B = BlocksFor(numBits)
  BY BitsFacts
<1>2. Count = (CHOOSE F : IsSum(F))[Len(bits)]
  BY DEF Count
<1>3. \E F : IsSum(F)
  <2>1. PICK F : F = [b \in 0 .. B |-> Cardinality(Below(b))]
    OBVIOUS
  <2>2. ASSUME NEW b \in 0 .. B
        PROVE  F[b] = IF b = 0 THEN 0 ELSE F[b - 1] + Cardinality(bits[b])
    <3>1. CASE b = 0
      BY <2>1, <3>1, BelowNone
    <3>2. CASE b # 0
      <4>1. b \in 1 .. B /\ b - 1 \in 0 .. B
        BY <3>2
      <4>2. QED
        BY <1>1, <2>1, <3>2, <4>1, BelowGrows
    <3>3. QED
      BY <3>1, <3>2
  <2>3. F = [b \in 0 .. B |-> IF b = 0 THEN 0 ELSE F[b - 1] + Cardinality(bits[b])]
    BY <2>1, <2>2
  <2>4. QED
    BY <1>1, <2>3
<1>4. PICK F : F = CHOOSE G : IsSum(G)
  OBVIOUS
<1>5. IsSum(F)
  <2> HIDE DEF IsSum
  <2>1. QED
    BY <1>3, <1>4
<1>6. \A b \in 0 .. B : F[b] = IF b = 0 THEN 0 ELSE F[b - 1] + Cardinality(bits[b])
  BY <1>1, <1>5
<1> DEFINE Q == {n \in Nat : n <= B => F[n] = Cardinality(Below(n))}
<1>7. 0 \in Q
  BY <1>6, BelowNone
<1>8. ASSUME NEW n \in Nat, n \in Q PROVE n + 1 \in Q
  <2> SUFFICES ASSUME n + 1 <= B PROVE F[n + 1] = Cardinality(Below(n + 1))
    OBVIOUS
  <2>1. PICK b \in 1 .. B : b = n + 1 /\ b - 1 = n /\ b \in 0 .. B
    OBVIOUS
  <2>2. F[n] = Cardinality(Below(n))
    BY <1>8
  <2>3. F[b] = F[b - 1] + Cardinality(bits[b])
    BY <1>6, <2>1
  <2>4. Cardinality(Below(b)) = Cardinality(Below(b - 1)) + Cardinality(bits[b])
    BY <1>1, BelowGrows
  <2>5. QED
    BY <2>1, <2>2, <2>3, <2>4
<1>9. B \in Q
  <2> HIDE DEF Q
  <2>1. Nat \subseteq Q
    BY <1>7, <1>8, NaturalInduction
  <2>2. QED
    BY <2>1
<1>10. F[B] = Cardinality(ones)
  BY <1>1, <1>9, BelowNone
<1> HIDE DEF IsSum
<1>11. QED
  BY <1>1, <1>2, <1>4, <1>10

LEMMA LowestIs ==
  ASSUME NEW s \in SUBSET Nat, s # {}
  PROVE  Lowest(s) \in s /\ \A x \in s : Lowest(s) <= x
<1>1. \E x \in s : \A y \in s : x <= y
  BY NatHasLeast
<1>2. QED
  BY <1>1 DEF Lowest

LEMMA IsLowest ==
  ASSUME NEW s \in SUBSET Nat, NEW x \in s, \A y \in s : x <= y
  PROVE  Lowest(s) = x
<1>1. PICK m : m = Lowest(s)
  OBVIOUS
<1>2. m \in s /\ m <= x /\ x <= m
  BY <1>1, LowestIs
<1>3. m \in Nat /\ x \in Nat
  BY <1>2
<1>4. QED
  BY <1>1, <1>2, <1>3

(* The lowest one bit of some, npos if there is none. *)
FirstOf(s) == IF s = {} THEN npos ELSE Lowest(s)

(* find_from returns the first one bit of the blocks from b on. *)
LEMMA FindFromIs ==
  ASSUME BitsInv, NEW b \in Nat \ {0}
  PROVE  FindFrom(b) = FirstOf({i \in ones : W * (b - 1) <= i})
<1>1. PICK B \in Nat : B = BlocksFor(numBits) /\ B = Len(bits)
  BY BitsFacts
<1>2. PICK some : some = {c \in b .. B : bits[c] # {}}
  OBVIOUS
<1>3. FindFrom(b) = IF some = {} THEN npos ELSE W * (Lowest(some) - 1) + Lowest(bits[Lowest(some)])
  BY <1>1, <1>2 DEF FindFrom
<1>4. PICK k \in Nat : k = W * (b - 1)
  <2>1. b - 1 \in Nat
    OBVIOUS
  <2>2. QED
    BY <2>1, Products
<1>5. PICK rest : rest = {i \in ones : k <= i}
  OBVIOUS
<1>6. rest \in SUBSET Nat
  BY <1>5, BitsFacts
(* Every one bit from there on is in one of those blocks. *)
<1>7. ASSUME NEW i \in rest
      PROVE  \E c \in some : \E q \in bits[c] : c \in Nat \ {0} /\ q \in Pos /\ Place(c, q) = i
  <2>0. i \in Nat /\ i < numBits /\ numBits \in Nat /\ i \in ones /\ k <= i
    BY <1>5, BitsFacts
  <2>1. PICK c \in Nat \ {0}, q \in Pos : c = BlockIndex(i) /\ q = BitIndex(i) /\ Place(c, q) = i
    BY <2>0, PlaceOf
  <2>2. c \in 1 .. B
    BY <1>1, <2>0, <2>1, InsideBlocks
  <2>3. q \in bits[c]
    BY <1>1, <2>0, <2>1, <2>2, BitsFacts
  <2>4. ~(c < b)
    <3>1. ASSUME c < b PROVE FALSE
      <4>1. 0 \in Pos
        BY Products DEF Pos
      <4>2. Place(c, q) < Place(b, 0)
        BY <3>1, <4>1, PlaceOrder
      <4>3. Place(b, 0) = k
        BY <1>4 DEF Place
      <4>4. QED
        BY <2>0, <2>1, <4>2, <4>3
    <3>2. QED
      BY <3>1
  <2>5. c \in some
    BY <1>2, <2>2, <2>3, <2>4
  <2>6. QED
    BY <2>1, <2>3, <2>5
<1>8. ASSUME NEW c \in some, NEW q \in bits[c]
      PROVE  c \in Nat \ {0} /\ q \in Pos /\ Place(c, q) \in rest
  <2>1. c \in 1 .. B /\ c \in Nat \ {0} /\ b <= c
    BY <1>2
  <2>2. q \in Pos /\ Place(c, q) \in ones
    BY <1>1, <2>1, BitsFacts
  <2>3. k <= Place(c, q)
    <3>1. b - 1 \in Nat /\ c - 1 \in Nat /\ (b - 1 < c - 1 \/ b = c)
      BY <2>1
    <3>2. b - 1 < c - 1 => W * (b - 1) + W <= W * (c - 1)
      BY <3>1, Products
    <3>3. q \in Nat /\ W \in Nat /\ W * (c - 1) \in Nat
      BY <2>2, <3>1, Products DEF Pos
    <3>4. k <= W * (c - 1)
      BY <1>4, <3>1, <3>2, <3>3
    <3>5. QED
      BY <3>3, <3>4 DEF Place
  <2>4. QED
    BY <1>5, <2>1, <2>2, <2>3
<1>9. CASE some = {}
  <2>1. rest = {}
    BY <1>7, <1>9
  <2>2. QED
    BY <1>3, <1>4, <1>5, <1>9, <2>1 DEF FirstOf
<1>10. CASE some # {}
  <2>1. some \in SUBSET Nat
    BY <1>2
  <2>2. PICK c : c = Lowest(some) /\ c \in some /\ \A d \in some : c <= d
    BY <1>10, <2>1, LowestIs
  <2>3. bits[c] \in SUBSET Pos /\ bits[c] \in SUBSET Nat /\ bits[c] # {}
    <3>1. c \in 1 .. B /\ bits[c] # {}
      BY <1>2, <2>2
    <3>2. QED
      BY <1>1, <3>1, BitsFacts DEF Pos
  <2>4. PICK q : q = Lowest(bits[c]) /\ q \in bits[c] /\ \A p \in bits[c] : q <= p
    BY <2>3, LowestIs
  <2>5. c \in Nat \ {0} /\ q \in Pos /\ Place(c, q) \in rest
    BY <1>8, <2>2, <2>4
  <2>6. ASSUME NEW i \in rest PROVE Place(c, q) <= i
    <3>0. PICK d \in some : \E p \in bits[d] : d \in Nat \ {0} /\ p \in Pos /\ Place(d, p) = i
      BY <1>7
    <3>1. PICK p \in bits[d] : d \in Nat \ {0} /\ p \in Pos /\ Place(d, p) = i
      BY <3>0
    <3>2. c < d => Place(c, q) < Place(d, p)
      BY <2>5, <3>1, PlaceOrder
    <3>3. c = d => Place(c, q) <= Place(d, p)
      <4>1. q \in Nat /\ p \in Nat /\ c - 1 \in Nat /\ W * (c - 1) \in Nat
        <5>1. q \in Nat /\ p \in Nat
          BY <2>5, <3>1 DEF Pos
        <5>2. c - 1 \in Nat
          BY <2>5
        <5>3. W * (c - 1) \in Nat
          BY <5>2, Products
        <5>4. QED
          BY <5>1, <5>2, <5>3
      <4>2. c = d => q <= p
        BY <2>4
      <4>3. QED
        BY <4>1, <4>2 DEF Place
    <3>4. c <= d /\ Place(c, q) \in Nat /\ Place(d, p) \in Nat
      BY <2>2, <2>5, <3>1, PlaceIs
    <3>5. QED
      BY <2>5, <3>1, <3>2, <3>3, <3>4
  <2>7. Lowest(rest) = Place(c, q)
    BY <1>6, <2>5, <2>6, IsLowest
  <2>8. FindFrom(b) = Place(c, q)
    BY <1>3, <1>10, <2>2, <2>4 DEF Place
  <2>9. rest # {}
    BY <2>5
  <2>10. QED
    BY <1>4, <1>5, <2>7, <2>8, <2>9 DEF FirstOf
<1>11. QED
  BY <1>9, <1>10

(* find_next returns the first one bit behind i. *)
LEMMA FindNextIs ==
  ASSUME BitsInv, NEW i \in 0 .. size
  PROVE  FindNext(i) = FirstOf({j \in ones : j > i})
<1>1. PICK n \in Nat, B \in Nat : n = numBits /\ B = BlocksFor(n) /\ i \in Nat
  BY BitsFacts DEF BitsInv
<1>2. PICK rest : rest = {j \in ones : j > i}
  OBVIOUS
<1>3. \A j \in ones : j \in Nat /\ j < n
  BY <1>1, BitsFacts
<1>4. CASE n = 0 \/ i >= n - 1
  <2>1. FindNext(i) = npos
    BY <1>1, <1>4 DEF FindNext
  <2>2. \A j \in ones : ~(j > i)
    BY <1>1, <1>3, <1>4
  <2>3. QED
    BY <2>1, <2>2 DEF FirstOf
<1>5. CASE ~(n = 0 \/ i >= n - 1)
  <2>0. i + 1 \in Nat /\ i + 1 < n
    BY <1>1, <1>5
  <2>1. PICK b \in Nat \ {0}, q \in Pos :
          b = BlockIndex(i + 1) /\ q = BitIndex(i + 1) /\ Place(b, q) = i + 1
    BY <2>0, PlaceOf
  <2>2. b \in 1 .. B
    BY <1>1, <2>0, <2>1, InsideBlocks
  <2>3. PICK block : block = {p \in bits[b] : p >= q}
    OBVIOUS
  <2>4. FindNext(i) = IF block # {} THEN W * (b - 1) + Lowest(block) ELSE FindFrom(b + 1)
    BY <1>1, <1>5, <2>1, <2>3 DEF FindNext
  <2>5. block \in SUBSET Pos /\ block \in SUBSET Nat
        /\ \A p \in Pos : p \in block <=> p >= q /\ Place(b, p) \in ones
    <3>1. bits[b] \in SUBSET Pos /\ \A p \in Pos : p \in bits[b] <=> Place(b, p) \in ones
      BY <1>1, <2>2, BitsFacts
    <3>2. QED
      BY <2>3, <3>1 DEF Pos
  (* A one bit behind i is behind it in its block, or in a later block. *)
  <2>6. ASSUME NEW j \in rest
        PROVE  \E c \in Nat \ {0}, p \in Pos :
                 Place(c, p) = j /\ ((c = b /\ p \in block) \/ c > b)
    <3>0. j \in Nat /\ j \in ones /\ i + 1 <= j
      BY <1>1, <1>2, <1>3
    <3>1. PICK c \in Nat \ {0}, p \in Pos : Place(c, p) = j
      BY <3>0, PlaceOf
    <3>2. ~(c < b)
      <4>1. c < b => Place(c, p) < Place(b, q)
        BY PlaceOrder
      <4>2. QED
        BY <2>0, <2>1, <3>0, <3>1, <4>1
    <3>3. c = b => p >= q
      <4>1. W * (b - 1) \in Nat /\ p \in Nat /\ q \in Nat
        <5>1. b - 1 \in Nat
          OBVIOUS
        <5>2. QED
          BY <5>1, Products DEF Pos
      <4>2. c = b => j = W * (b - 1) + p
        BY <3>1 DEF Place
      <4>3. i + 1 = W * (b - 1) + q
        BY <2>1 DEF Place
      <4>4. QED
        BY <3>0, <4>1, <4>2, <4>3
    <3>4. QED
      BY <2>5, <3>0, <3>1, <3>2, <3>3
  <2>7. rest \in SUBSET Nat
    BY <1>2, <1>3
  <2>8. CASE block # {}
    <3>1. PICK m : m = Lowest(block) /\ m \in block /\ \A p \in block : m <= p
      BY <2>5, <2>8, LowestIs
    <3>2. m \in Pos /\ m >= q /\ Place(b, m) \in ones /\ Place(b, m) \in Nat
      BY <2>5, <3>1, PlaceIs
    <3>3. \A p \in Pos : p >= m => Place(b, p) >= Place(b, m)
      <4>1. W * (b - 1) \in Nat /\ \A p \in Pos : p \in Nat
        <5>1. b - 1 \in Nat
          OBVIOUS
        <5>2. QED
          BY <5>1, Products DEF Pos
      <4>2. QED
        BY <3>2, <4>1 DEF Place
    <3>4. Place(b, m) >= i + 1
      <4>1. W * (b - 1) \in Nat /\ m \in Nat /\ q \in Nat
        <5>1. b - 1 \in Nat
          OBVIOUS
        <5>2. QED
          BY <3>2, <5>1, Products DEF Pos
      <4>2. QED
        BY <2>1, <3>2, <4>1 DEF Place
    <3>5. Place(b, m) \in rest
      BY <1>1, <1>2, <3>2, <3>4
    <3>6. ASSUME NEW j \in rest PROVE Place(b, m) <= j
      <4>1. PICK c \in Nat \ {0}, p \in Pos :
              Place(c, p) = j /\ ((c = b /\ p \in block) \/ c > b)
        BY <2>6
      <4>2. c > b => Place(b, m) < Place(c, p)
        BY <3>2, PlaceOrder
      <4>3. c = b /\ p \in block => Place(b, p) >= Place(b, m)
        BY <3>1, <3>2, <3>3 DEF Pos
      <4>4. Place(c, p) \in Nat
        BY PlaceIs
      <4>5. QED
        BY <3>2, <4>1, <4>2, <4>3, <4>4
    <3>7. Lowest(rest) = Place(b, m)
      BY <2>7, <3>5, <3>6, IsLowest
    <3>8. FindNext(i) = Place(b, m)
      BY <2>4, <2>8, <3>1 DEF Place
    <3>9. QED
      BY <1>2, <3>5, <3>7, <3>8 DEF FirstOf
  <2>9. CASE block = {}
    <3>1. b + 1 \in Nat \ {0} /\ (b + 1) - 1 = b
      OBVIOUS
    <3>2. FindFrom(b + 1) = FirstOf({j \in ones : W * b <= j})
      BY <3>1, FindFromIs
    <3>3. PICK k \in Nat : k = W * b
      BY Products
    <3>4. 0 \in Pos /\ Place(b + 1, 0) = k
      BY <3>1, <3>3, Products DEF Place, Pos
    <3>5. k > i + 1
      <4>1. Place(b, q) < Place(b + 1, 0)
        BY <3>1, <3>4, PlaceOrder
      <4>2. QED
        BY <2>0, <2>1, <3>4, <4>1
    <3>6. ASSUME NEW j \in rest PROVE k <= j
      <4>1. PICK c \in Nat \ {0}, p \in Pos : Place(c, p) = j /\ c > b
        BY <2>6, <2>9
      <4>2. c - 1 \in Nat /\ b <= c - 1
        BY <4>1
      <4>3. b < c - 1 => W * b + W <= W * (c - 1)
        BY <4>2, Products
      <4>4. W * (c - 1) \in Nat /\ p \in Nat /\ W \in Nat
        BY <4>2, Products DEF Pos
      <4>5. k <= W * (c - 1)
        BY <3>3, <4>2, <4>3, <4>4
      <4>6. QED
        BY <4>1, <4>4, <4>5 DEF Place
    <3>7. {j \in ones : W * b <= j} = rest
      <4>1. {j \in ones : W * b <= j} = {j \in ones : k <= j}
        BY <3>3
      <4>2. \A j \in ones : k <= j => j > i
        BY <1>1, <1>3, <3>5
      <4>3. QED
        BY <1>2, <3>6, <4>1, <4>2
    <3>8. QED
      BY <1>2, <2>4, <2>9, <3>2, <3>7
  <2>10. QED
    BY <2>8, <2>9
<1>6. QED
  BY <1>4, <1>5

LEMMA BitsInInvariant == BitsInv => BlocksHoldTheBits
<1> SUFFICES ASSUME BitsInv PROVE BlocksHoldTheBits
  OBVIOUS
<1>1. numBits = size /\ Len(bits) = BlocksFor(size)
  BY BitsFacts DEF BitsInv
<1>2. FindFrom(1) = FirstOf(ones)
  <2>1. FindFrom(1) = FirstOf({i \in ones : W * (1 - 1) <= i})
    BY FindFromIs
  <2>2. W * (1 - 1) = 0 /\ \A i \in ones : i \in Nat
    BY BitsFacts, Products
  <2>3. {i \in ones : W * (1 - 1) <= i} = ones
    BY <2>2
  <2>4. QED
    BY <2>1, <2>3
<1>3. \A i \in 0 .. size : FindNext(i) = FirstOf({j \in ones : j > i})
  BY FindNextIs
<1>4. QED
  BY <1>1, <1>2, <1>3, BitsAreOnes, CountIs DEF BlocksHoldTheBits, FirstOf

(* Whatever is done to a bit vector of any length in blocks of any width,  *)
(* its blocks hold the caller's bits and nothing else, and count and the   *)
(* search functions, which do not mask the last block, are right           *)
(* (bitvector.cpp).                                                        *)
THEOREM BlocksAreExact == BitsSpec => []BlocksHoldTheBits
<1>1. QED
  BY BitsInvHolds, BitsInInvariant, PTL
-----------------------------------------------------------------------------
(* Vectors of counters                                                     *)

LEMMA LeastIs ==
  ASSUME NEW S \in SUBSET Nat, S # {}
  PROVE  Least(S) \in S /\ \A x \in S : Least(S) <= x
<1>1. \E x \in S : \A y \in S : x <= y
  BY NatHasLeast
<1>2. QED
  BY <1>1 DEF Least

LEMMA LeastOfTwo ==
  ASSUME NEW a \in Nat, NEW b \in Nat
  PROVE  Least({a, b}) = IF a <= b THEN a ELSE b
<1>1. PICK m : m = Least({a, b})
  OBVIOUS
<1>2. m \in {a, b} /\ m <= a /\ m <= b
  <2>1. {a, b} \in SUBSET Nat /\ {a, b} # {}
    OBVIOUS
  <2>2. QED
    BY <1>1, <2>1, LeastIs
<1>3. QED
  BY <1>1, <1>2

Cells(h) == [CellsOf(h) -> 0 .. Max]

LEMMA IncrementedIs ==
  ASSUME Max \in Nat, NEW D, NEW c \in [D -> 0 .. Max], NEW is, NEW v \in Nat
  PROVE  /\ Incremented(c, is, v) \in [D -> 0 .. Max]
         /\ \A i \in D : Incremented(c, is, v)[i] =
              IF i \notin is THEN c[i] ELSE IF c[i] + v <= Max THEN c[i] + v ELSE Max
<1>1. ASSUME NEW i \in D
      PROVE  /\ c[i] \in 0 .. Max /\ c[i] + v \in Nat
             /\ Least({Max, c[i] + v}) = IF c[i] + v <= Max THEN c[i] + v ELSE Max
  <2>1. c[i] \in 0 .. Max /\ c[i] + v \in Nat
    OBVIOUS
  <2>2. QED
    BY <2>1, LeastOfTwo
<1>2. QED
  BY <1>1 DEF Incremented

LEMMA DecrementedIs ==
  ASSUME Max \in Nat, NEW D, NEW c \in [D -> 0 .. Max], NEW is
  PROVE  /\ Decremented(c, is) \in [D -> 0 .. Max]
         /\ \A i \in D : /\ i \notin is => Decremented(c, is)[i] = c[i]
                         /\ c[i] > 0 => Decremented(c, is)[i] >= c[i] - 1
                         /\ i \in is /\ c[i] > 0 => Decremented(c, is)[i] = c[i] - 1
<1>1. ASSUME NEW i \in D
      PROVE  /\ c[i] \in 0 .. Max /\ (c[i] - 1) % (Max + 1) \in 0 .. Max
             /\ c[i] > 0 => (c[i] - 1) % (Max + 1) = c[i] - 1
  <2>1. c[i] \in 0 .. Max
    OBVIOUS
  <2>2. \A x \in 0 .. Max : /\ (x - 1) % (Max + 1) \in 0 .. Max
                            /\ x > 0 => (x - 1) % (Max + 1) = x - 1
    OBVIOUS
  <2>3. QED
    BY <2>1, <2>2
<1>2. QED
  BY <1>1 DEF Decremented

(* The least counter of some cells, and the cells that have it. *)
LEMMA MinimumIs ==
  ASSUME Max \in Nat, NEW D, NEW c \in [D -> 0 .. Max], NEW is \in SUBSET D
  PROVE  /\ FindMinimum(c, is) \in 0 .. Max
         /\ \A i \in is : FindMinimum(c, is) <= c[i]
         /\ is # {} => \E i \in is : FindMinimum(c, is) = c[i]
<1> DEFINE S == {Max} \cup {c[i] : i \in is}
<1>1. PICK m : m = FindMinimum(c, is)
  OBVIOUS
<1>2. \A i \in is : c[i] \in 0 .. Max
  OBVIOUS
<1>3. S \in SUBSET Nat /\ S # {}
  BY <1>2
<1>4. m \in S /\ \A x \in S : m <= x
  <2>1. m = Least(S)
    BY <1>1 DEF FindMinimum
  <2> HIDE DEF S
  <2>2. QED
    BY <1>3, <2>1, LeastIs
<1>5. m \in 0 .. Max /\ \A i \in is : m <= c[i]
  BY <1>2, <1>4
<1>6. is # {} => \E i \in is : m = c[i]
  <2>1. CASE m = Max
    BY <1>2, <1>5, <2>1
  <2>2. CASE m # Max
    BY <1>4, <2>2
  <2>3. QED
    BY <2>1, <2>2
<1>7. QED
  BY <1>1, <1>5, <1>6

-----------------------------------------------------------------------------
(* The inductive invariant                                                 *)

(* A counter holds the copies of all objects that use its cell, as far as  *)
(* it can count.                                                           *)
Users(h, i) == {o \in Object : i \in h[o]}
Load(n, h, i) == SumFunctionOnSet(n, Users(h, i))

IsCount(c, h, n) ==
  c \in Cells(h) /\ \A i \in CellsOf(h) : c[i] = Least({Max, Load(n, h, i)})

(* No counter has more to hold than it can count. *)
Bounded(h, n) == \A i \in CellsOf(h) : Load(n, h, i) <= Max

CountingInv ==
  /\ net \in [Object -> Nat] /\ saturated \in BOOLEAN
  /\ IsCount(parts[1], hashers[1], net)
  /\ ~saturated => Bounded(hashers[1], net)

(* A minimal increase is enough for each object, and no more than what a   *)
(* cell of its own needs.                                                  *)
MiInv ==
  /\ net \in [Object -> Nat]
  /\ parts[1] \in Cells(hashers[1])
  /\ \A o \in Object, i \in CellsOf(hashers[1]) : i \in Indices(1, o) =>
       /\ parts[1][i] >= Least({Max, net[o]})
       /\ OwnsCell(hashers[1], o, i) => parts[1][i] <= net[o]

(* The second vector counts the objects that share no cell with another    *)
(* and have only one in the first vector.                                  *)
OwnsAllCells(o) == \A l \in DOMAIN hashers : \A i \in Indices(l, o) : OwnsCell(hashers[l], o, i)

RmInv ==
  /\ CountingInv
  /\ parts[2] \in Cells(hashers[2])
  /\ \A o \in Object : OwnsAllCells(o) /\ Cardinality(Indices(1, o)) = 1 =>
       \A j \in Indices(2, o) : parts[2][j] = Least({Max, net[o]})

(* The older an object is, the more its counters may have decayed. *)
StableInv ==
  /\ parts[1] \in Cells(hashers[1]) /\ age \in [Object -> Int]
  /\ \A o \in Object : age[o] >= 0 =>
       \A i \in CellsOf(hashers[1]) : i \in Indices(1, o) => parts[1][i] >= Max - age[o]

(* The last items objects are in the first filter, and the Capacity before *)
(* them in the second.  Only an empty first filter has no items.           *)
Filter(f) == f = [hasher |-> f.hasher, bits |-> f.bits] /\ f.hasher \in {hashers[1], hashers[2]}

A2Inv ==
  /\ age \in [Object -> Int] /\ items \in Nat
  /\ parts = <<parts[1], parts[2]>> /\ Filter(parts[1]) /\ Filter(parts[2])
  /\ items = 0 => parts[1].bits = {}
  /\ \A o \in Object : age[o] >= 0 =>
       /\ items > 0
       /\ age[o] < items => BasicLookup(parts[1], o) = 1
       /\ age[o] < items + Capacity =>
            BasicLookup(parts[1], o) = 1 \/ BasicLookup(parts[2], o) = 1

(* The levels hold the binary number of copies of an object that shares no *)
(* bit with another.                                                       *)
BitwiseInv ==
  /\ net \in [Object -> Int]
  /\ Len(parts) \in 1 .. Len(hashers)
  /\ parts = [l \in 1 .. Len(parts) |-> [hasher |-> hashers[l], bits |-> parts[l].bits]]
  /\ \A o \in Object : OwnsAllCells(o) => LookupBitwise(o) = net[o]

FilterInv ==
  /\ kind \in DOMAIN Hashers /\ hashers \in Hashers[kind]
  /\ ~misused => /\ kind = "counting" => CountingInv /\ parts = <<parts[1]>>
                 /\ kind = "mi" => MiInv
                 /\ kind = "rm" => RmInv
                 /\ kind = "stable" => StableInv
                 /\ kind = "a2" => A2Inv
                 /\ kind = "bitwise" => BitwiseInv

-----------------------------------------------------------------------------
(* What a cell has to hold                                                 *)

LEMMA LoadIs ==
  ASSUME IsFiniteSet(Object), NEW h, NEW i, NEW n \in [Object -> Nat]
  PROVE  /\ IsFiniteSet(Users(h, i)) /\ Load(n, h, i) \in Nat
         /\ \A o \in Object : i \in h[o] =>
              /\ n[o] <= Load(n, h, i)
              /\ OwnsCell(h, o, i) => Load(n, h, i) = n[o]
<1> DEFINE U == Users(h, i)
<1>1. IsFiniteSet(U) /\ U \subseteq Object
  BY FS_Subset DEF Users
<1>2. SumFunctionOnSet(n, U) \in Nat
  <2>1. \A o \in U : n[o] \in Nat
    BY <1>1
  <2> HIDE DEF U
  <2>2. QED
    BY <1>1, <2>1, SumType
<1>3. ASSUME NEW o \in Object, i \in h[o]
      PROVE  /\ n[o] <= SumFunctionOnSet(n, U)
             /\ OwnsCell(h, o, i) => SumFunctionOnSet(n, U) = n[o]
  <2>1. o \in U
    BY <1>3 DEF Users
  <2>2. OwnsCell(h, o, i) => U \ {o} = {}
    BY DEF OwnsCell, Users
  <2> HIDE DEF U
  <2>3. \A p \in U : n[p] \in Nat
    BY <1>1
  <2>4. SumFunctionOnSet(n, U) = n[o] + SumFunctionOnSet(n, U \ {o})
    BY <1>1, <2>1, <2>3, SumTakeOut
  <2>5. IsFiniteSet(U \ {o}) /\ SumFunctionOnSet(n, U \ {o}) \in Nat
    <3>1. IsFiniteSet(U \ {o}) /\ \A p \in U \ {o} : n[p] \in Nat
      BY <1>1, <2>3, FS_RemoveElement
    <3>2. QED
      BY <3>1, SumType
  <2>6. U \ {o} = {} => SumFunctionOnSet(n, U \ {o}) = 0
    BY <2>5, SumStep
  <2>7. QED
    BY <2>2, <2>4, <2>5, <2>6
<1>4. QED
  BY <1>1, <1>2, <1>3 DEF Load

LEMMA LoadChanges ==
  ASSUME IsFiniteSet(Object), NEW h, NEW i, NEW n \in [Object -> Nat],
         NEW o \in Object, NEW m \in [Object -> Nat], \A p \in Object \ {o} : m[p] = n[p]
  PROVE  Load(m, h, i) = IF i \in h[o] THEN Load(n, h, i) - n[o] + m[o] ELSE Load(n, h, i)
<1> DEFINE U == Users(h, i)
<1>1. IsFiniteSet(U) /\ U \subseteq Object /\ (o \in U <=> i \in h[o])
  BY FS_Subset DEF Users
<1> HIDE DEF U
<1>2. \A p \in U : n[p] \in Nat
  BY <1>1
<1>3. CASE o \in U
  <2>1. m[o] \in Nat /\ \A p \in U \ {o} : m[p] = n[p]
    BY <1>1
  <2>2. SumFunctionOnSet(m, U) = SumFunctionOnSet(n, U) - n[o] + m[o]
    BY ONLY <1>1, <1>2, <1>3, <2>1, SumChange
  <2>3. QED
    BY <1>1, <1>3, <2>1, <2>2 DEF Load, U
<1>4. CASE o \notin U
  <2>1. \A p \in U : m[p] = n[p]
    BY <1>1, <1>4
  <2>2. SumFunctionOnSet(m, U) = SumFunctionOnSet(n, U)
    BY <1>1, <2>1, SumOfEqualFunctions
  <2>3. QED
    BY <1>1, <1>4, <2>2 DEF Load, U
<1>5. QED
  BY <1>3, <1>4

(* Counting from zero. *)
LEMMA CountsFromZero ==
  ASSUME IsFiniteSet(Object), Max \in Nat, NEW h
  PROVE  /\ ZeroCells(h) \in Cells(h)
         /\ IsCount(ZeroCells(h), h, [o \in Object |-> 0])
         /\ Bounded(h, [o \in Object |-> 0])
<1> DEFINE n == [o \in Object |-> 0]
<1>1. ASSUME NEW i \in CellsOf(h)
      PROVE  Load(n, h, i) = 0 /\ Least({Max, Load(n, h, i)}) = 0
  <2>1. IsFiniteSet(Users(h, i)) /\ \A o \in Users(h, i) : n[o] = 0
    BY FS_Subset DEF Users
  <2> HIDE DEF n
  <2>2. Load(n, h, i) = 0
    BY <2>1, SumOfZeros DEF Load
  <2>3. QED
    BY <2>2, LeastOfTwo
<1>2. ZeroCells(h) \in Cells(h)
  BY DEF ZeroCells, Cells
<1>3. \A i \in CellsOf(h) : ZeroCells(h)[i] = 0
  BY DEF ZeroCells
<1> HIDE DEF n
<1>4. IsCount(ZeroCells(h), h, n)
  BY <1>1, <1>2, <1>3 DEF IsCount
<1>5. Bounded(h, n)
  <2>1. \A i \in CellsOf(h) : Load(n, h, i) = 0
    BY <1>1
  <2>2. 0 <= Max
    OBVIOUS
  <2>3. QED
    BY <2>1, <2>2 DEF Bounded
<1>6. QED
  BY <1>2, <1>4, <1>5 DEF n

(* An add increments the counters of the object's cells; where that was    *)
(* not too much for one of them, none has too much to hold.                *)
LEMMA CountsAdd ==
  ASSUME IsFiniteSet(Object), Max \in Nat, NEW h, NEW c, NEW n \in [Object -> Nat],
         NEW o \in Object, IsCount(c, h, n), NEW m, m = [n EXCEPT ![o] = n[o] + 1]
  PROVE  /\ IsCount(Incremented(c, h[o], 1), h, m)
         /\ Bounded(h, n) /\ ~Overflows(c, h[o], 1) => Bounded(h, m)
<1> DEFINE d == Incremented(c, h[o], 1)
<1>1. c \in [CellsOf(h) -> 0 .. Max]
  BY DEF IsCount, Cells
<1>2. /\ d \in [CellsOf(h) -> 0 .. Max]
      /\ \A i \in CellsOf(h) : d[i] = IF i \notin h[o] THEN c[i]
                                      ELSE IF c[i] + 1 <= Max THEN c[i] + 1 ELSE Max
  BY <1>1, IncrementedIs
<1> HIDE DEF d
<1>3. ASSUME NEW i \in CellsOf(h)
      PROVE  /\ Load(n, h, i) \in Nat
             /\ Load(m, h, i) = IF i \in h[o] THEN Load(n, h, i) + 1 ELSE Load(n, h, i)
             /\ c[i] = IF Max <= Load(n, h, i) THEN Max ELSE Load(n, h, i)
  <2>1. Load(n, h, i) \in Nat /\ n[o] \in Nat /\ n[o] + 1 \in Nat
    BY LoadIs
  <2>2. Load(m, h, i) = IF i \in h[o] THEN Load(n, h, i) - n[o] + (n[o] + 1) ELSE Load(n, h, i)
    <3>1. m \in [Object -> Nat] /\ m[o] = n[o] + 1 /\ \A p \in Object \ {o} : m[p] = n[p]
      BY <2>1
    <3>2. Load(m, h, i) = IF i \in h[o] THEN Load(n, h, i) - n[o] + m[o] ELSE Load(n, h, i)
      BY ONLY <3>1, LoadChanges, IsFiniteSet(Object), n \in [Object -> Nat], o \in Object
    <3>3. QED
      BY <3>1, <3>2
  <2>3. c[i] = Least({Max, Load(n, h, i)})
    BY DEF IsCount
  <2>4. QED
    BY <2>1, <2>2, <2>3, LeastOfTwo
<1>4. ASSUME NEW i \in CellsOf(h)
      PROVE  d[i] = Least({Max, Load(m, h, i)})
  <2>1. Load(m, h, i) \in Nat
    <3>1. m \in [Object -> Nat]
      OBVIOUS
    <3>2. QED
      BY <3>1, LoadIs
  <2>2. Least({Max, Load(m, h, i)}) = IF Max <= Load(m, h, i) THEN Max ELSE Load(m, h, i)
    BY <2>1, LeastOfTwo
  <2>3. d[i] = IF i \notin h[o] THEN c[i] ELSE IF c[i] + 1 <= Max THEN c[i] + 1 ELSE Max
    BY <1>2
  <2>4. QED
    BY <1>3, <2>2, <2>3
<1>5. IsCount(d, h, m)
  BY <1>2, <1>4 DEF IsCount, Cells
<1>6. ASSUME Bounded(h, n), ~Overflows(c, h[o], 1), NEW i \in CellsOf(h)
      PROVE  Load(m, h, i) <= Max
  <2>1. Load(n, h, i) <= Max
    BY <1>6 DEF Bounded
  <2>2. i \in h[o] => ~(c[i] + 1 > Max)
    BY <1>6 DEF Overflows
  <2>3. /\ Load(n, h, i) \in Nat
        /\ Load(m, h, i) = IF i \in h[o] THEN Load(n, h, i) + 1 ELSE Load(n, h, i)
        /\ c[i] = IF Max <= Load(n, h, i) THEN Max ELSE Load(n, h, i)
    BY <1>3
  <2>4. QED
    BY <2>1, <2>2, <2>3
<1>7. QED
  BY <1>5, <1>6 DEF d, Bounded

(* A remove undoes an add where no counter has too much to hold. *)
LEMMA CountsRemove ==
  ASSUME IsFiniteSet(Object), Max \in Nat, NEW h, NEW c, NEW n \in [Object -> Nat],
         NEW o \in Object, IsCount(c, h, n), Bounded(h, n), n[o] > 0,
         NEW m, m = [n EXCEPT ![o] = n[o] - 1]
  PROVE  IsCount(Decremented(c, h[o]), h, m) /\ Bounded(h, m)
<1> DEFINE d == Decremented(c, h[o])
<1>1. c \in [CellsOf(h) -> 0 .. Max]
  BY DEF IsCount, Cells
<1>2. /\ d \in [CellsOf(h) -> 0 .. Max]
      /\ \A i \in CellsOf(h) : /\ i \notin h[o] => d[i] = c[i]
                               /\ i \in h[o] /\ c[i] > 0 => d[i] = c[i] - 1
  BY <1>1, DecrementedIs
<1> HIDE DEF d
<1>3. ASSUME NEW i \in CellsOf(h)
      PROVE  /\ Load(n, h, i) \in Nat /\ Load(n, h, i) <= Max /\ c[i] = Load(n, h, i)
             /\ i \in h[o] => Load(n, h, i) > 0
             /\ Load(m, h, i) = IF i \in h[o] THEN Load(n, h, i) - 1 ELSE Load(n, h, i)
  <2>1. Load(n, h, i) \in Nat /\ n[o] \in Nat /\ (i \in h[o] => n[o] <= Load(n, h, i))
    BY LoadIs
  <2>2. n[o] - 1 \in Nat
    BY <2>1
  <2>3. Load(m, h, i) = IF i \in h[o] THEN Load(n, h, i) - n[o] + (n[o] - 1) ELSE Load(n, h, i)
    <3>1. m \in [Object -> Nat] /\ m[o] = n[o] - 1 /\ \A p \in Object \ {o} : m[p] = n[p]
      BY <2>2
    <3>2. Load(m, h, i) = IF i \in h[o] THEN Load(n, h, i) - n[o] + m[o] ELSE Load(n, h, i)
      BY ONLY <3>1, LoadChanges, IsFiniteSet(Object), n \in [Object -> Nat], o \in Object
    <3>3. QED
      BY <3>1, <3>2
  <2>4. c[i] = Least({Max, Load(n, h, i)}) /\ Load(n, h, i) <= Max
    BY DEF IsCount, Bounded
  <2>5. QED
    BY <2>1, <2>3, <2>4, LeastOfTwo
<1>4. ASSUME NEW i \in CellsOf(h)
      PROVE  d[i] = Least({Max, Load(m, h, i)}) /\ Load(m, h, i) <= Max
  <2>1. Load(m, h, i) \in Nat /\ Load(m, h, i) <= Max
    <3>1. m \in [Object -> Nat]
      OBVIOUS
    <3>2. Load(m, h, i) \in Nat
      BY <3>1, LoadIs
    <3>3. /\ Load(n, h, i) \in Nat /\ Load(n, h, i) <= Max
          /\ Load(m, h, i) = IF i \in h[o] THEN Load(n, h, i) - 1 ELSE Load(n, h, i)
      BY <1>3
    <3>4. QED
      BY <3>2, <3>3
  <2>2. Least({Max, Load(m, h, i)}) = Load(m, h, i)
    BY <2>1, LeastOfTwo
  <2>3. d[i] = Load(m, h, i)
    BY <1>2, <1>3
  <2>4. QED
    BY <2>1, <2>2, <2>3
<1>5. QED
  BY <1>2, <1>4 DEF d, IsCount, Bounded, Cells

(* The least counter of an object is no less than its copies, and is just  *)
(* that if one cell is its own.                                            *)
LEMMA CountIsEnough ==
  ASSUME IsFiniteSet(Object), Max \in Nat, NEW h, NEW c, NEW n \in [Object -> Nat],
         NEW o \in Object, IsCount(c, h, n), h[o] # {}
  PROVE  /\ FindMinimum(c, h[o]) >= Least({Max, n[o]})
         /\ FindMinimum(c, h[o]) \in 0 .. Max /\ Least({Max, n[o]}) \in 0 .. Max
         /\ (\E i \in h[o] : OwnsCell(h, o, i)) => FindMinimum(c, h[o]) = Least({Max, n[o]})
         /\ \A i \in h[o] : OwnsCell(h, o, i) => c[i] = Least({Max, n[o]})
<1>1. c \in [CellsOf(h) -> 0 .. Max] /\ h[o] \subseteq CellsOf(h)
  BY DEF IsCount, Cells, CellsOf
<1>2. PICK min, most : min = FindMinimum(c, h[o]) /\ most = Least({Max, n[o]})
  OBVIOUS
<1>3. min \in 0 .. Max /\ (\A i \in h[o] : min <= c[i]) /\ \E i \in h[o] : min = c[i]
  BY <1>1, <1>2, MinimumIs
<1>4. n[o] \in Nat /\ most = IF Max <= n[o] THEN Max ELSE n[o]
  BY <1>2, LeastOfTwo
<1>5. ASSUME NEW i \in h[o]
      PROVE  c[i] \in Nat /\ c[i] >= most /\ (OwnsCell(h, o, i) => c[i] = most)
  <2>1. i \in CellsOf(h)
    BY <1>1
  <2>2. /\ Load(n, h, i) \in Nat /\ n[o] <= Load(n, h, i)
        /\ OwnsCell(h, o, i) => Load(n, h, i) = n[o]
    BY LoadIs
  <2>3. c[i] = IF Max <= Load(n, h, i) THEN Max ELSE Load(n, h, i)
    BY <2>1, <2>2, LeastOfTwo DEF IsCount
  <2>4. QED
    BY <1>4, <2>2, <2>3
<1>6. QED
  BY <1>2, <1>3, <1>4, <1>5

-----------------------------------------------------------------------------
(* Binary numbers: the value of K digits w, the lowest first               *)

IsValue(w, K, F) ==
  F = [l \in 1 .. K + 1 |-> IF l = K + 1 THEN 0 ELSE w[l] + 2 * F[l + 1]]

LEMMA ValueExists ==
  ASSUME NEW K \in Nat, NEW w \in [1 .. K -> 0 .. 1]
  PROVE  \E F : IsValue(w, K, F)
<1> DEFINE Upper(F, n) == \A l \in K + 1 - n .. K : F[l] = w[l] + 2 * F[l + 1]
           Q == {n \in Nat : n <= K => \E F \in [1 .. K + 1 -> Int] : F[K + 1] = 0 /\ Upper(F, n)}
<1>1. 0 \in Q
  <2>1. [l \in 1 .. K + 1 |-> 0] \in [1 .. K + 1 -> Int] /\ K + 1 - 0 .. K = {}
        /\ [l \in 1 .. K + 1 |-> 0][K + 1] = 0
    OBVIOUS
  <2>2. QED
    BY <2>1
<1>2. ASSUME NEW n \in Nat, n \in Q PROVE n + 1 \in Q
  <2> SUFFICES ASSUME n + 1 <= K
               PROVE  \E F \in [1 .. K + 1 -> Int] : F[K + 1] = 0 /\ Upper(F, n + 1)
    BY DEF Q
  <2>1. PICK F \in [1 .. K + 1 -> Int] : F[K + 1] = 0 /\ Upper(F, n)
    BY <1>2
  <2>2. PICK k \in 1 .. K : k = K - n
    OBVIOUS
  <2>3. PICK G : G = [F EXCEPT ![k] = w[k] + 2 * F[k + 1]]
    OBVIOUS
  <2>4. w[k] + 2 * F[k + 1] \in Int /\ k + 1 \in 1 .. K + 1
    BY <2>2
  <2>5. G \in [1 .. K + 1 -> Int] /\ G[K + 1] = 0 /\ G[k] = w[k] + 2 * F[k + 1]
        /\ \A l \in 1 .. K + 1 : l # k => G[l] = F[l]
    BY <2>1, <2>2, <2>3, <2>4
  <2>6. Upper(G, n + 1)
    <3> SUFFICES ASSUME NEW l \in K + 1 - (n + 1) .. K PROVE G[l] = w[l] + 2 * G[l + 1]
      OBVIOUS
    <3>1. l = k \/ l \in K + 1 - n .. K
      BY <2>2
    <3>2. G[l + 1] = F[l + 1]
      BY <2>2, <2>5, <3>1
    <3>3. CASE l = k
      BY <2>5, <3>2, <3>3
    <3>4. CASE l \in K + 1 - n .. K
      <4>1. G[l] = F[l] /\ F[l] = w[l] + 2 * F[l + 1]
        BY <2>1, <2>2, <2>5, <3>4
      <4>2. QED
        BY <3>2, <4>1
    <3>5. QED
      BY <3>1, <3>3, <3>4
  <2>7. QED
    BY <2>5, <2>6
<1>3. Nat \subseteq Q
  <2> HIDE DEF Q
  <2>1. QED
    BY <1>1, <1>2, NaturalInduction
<1>4. PICK F \in [1 .. K + 1 -> Int] : F[K + 1] = 0 /\ Upper(F, K)
  <2> HIDE DEF Q
  <2>1. K \in Q
    BY <1>3
  <2>2. QED
    BY <2>1 DEF Q
<1>5. \A l \in 1 .. K : F[l] = w[l] + 2 * F[l + 1]
  BY <1>4
<1>6. PICK G : G = [l \in 1 .. K + 1 |-> IF l = K + 1 THEN 0 ELSE w[l] + 2 * F[l + 1]]
  OBVIOUS
<1>7. \A l \in 1 .. K + 1 : G[l] = F[l]
  BY <1>4, <1>5, <1>6
<1>8. F = G
  BY <1>4, <1>6, <1>7
<1>9. QED
  BY <1>6, <1>8 DEF IsValue

LEMMA ValueIs ==
  ASSUME NEW K \in Nat, NEW w \in [1 .. K -> 0 .. 1], NEW F, IsValue(w, K, F)
  PROVE  /\ F[K + 1] = 0 /\ \A l \in 1 .. K : F[l] = w[l] + 2 * F[l + 1]
         /\ \A l \in 1 .. K + 1 : F[l] \in Nat
<1>1. F[K + 1] = 0 /\ \A l \in 1 .. K : F[l] = w[l] + 2 * F[l + 1]
  BY DEF IsValue
<1> DEFINE Q == {n \in Nat : n <= K => F[K + 1 - n] \in Nat}
<1>2. 0 \in Q
  BY <1>1
<1>3. ASSUME NEW n \in Nat, n \in Q PROVE n + 1 \in Q
  <2> SUFFICES ASSUME n + 1 <= K PROVE F[K + 1 - (n + 1)] \in Nat
    OBVIOUS
  <2>1. PICK l \in 1 .. K : l = K - n /\ l + 1 = K + 1 - n /\ l = K + 1 - (n + 1)
    OBVIOUS
  <2>2. F[l + 1] \in Nat
    BY <1>3, <2>1
  <2>3. F[l] = w[l] + 2 * F[l + 1] /\ w[l] \in 0 .. 1
    BY <1>1
  <2>4. QED
    BY <2>1, <2>2, <2>3
<1>4. Nat \subseteq Q
  <2> HIDE DEF Q
  <2>1. QED
    BY <1>2, <1>3, NaturalInduction
<1>5. ASSUME NEW l \in 1 .. K + 1 PROVE F[l] \in Nat
  <2>1. PICK n \in Nat : n = K + 1 - l /\ n <= K /\ l = K + 1 - n
    OBVIOUS
  <2>2. QED
    BY <1>4, <2>1
<1>6. QED
  BY <1>1, <1>5

(* A zero on top changes nothing. *)
ZeroOnTop(w, K, v, J) ==
  /\ K \in Nat /\ w \in [1 .. K -> 0 .. 1] /\ J \in {K, K + 1} /\ v \in [1 .. J -> 0 .. 1]
  /\ \A l \in 1 .. K : v[l] = w[l]
  /\ J = K + 1 => v[K + 1] = 0

LEMMA ValueWithZero ==
  ASSUME NEW K, NEW w, NEW F, IsValue(w, K, F), NEW J, NEW v, NEW G, IsValue(v, J, G),
         ZeroOnTop(w, K, v, J)
  PROVE  \A l \in 1 .. K + 1 : G[l] = F[l]
<1> USE DEF ZeroOnTop
<1>1. /\ F[K + 1] = 0 /\ \A l \in 1 .. K : F[l] = w[l] + 2 * F[l + 1]
      /\ G[J + 1] = 0 /\ \A l \in 1 .. J : G[l] = v[l] + 2 * G[l + 1]
  <2>1. F[K + 1] = 0 /\ \A l \in 1 .. K : F[l] = w[l] + 2 * F[l + 1]
    BY ValueIs
  <2>2. J \in Nat
    OBVIOUS
  <2>3. G[J + 1] = 0 /\ \A l \in 1 .. J : G[l] = v[l] + 2 * G[l + 1]
    BY <2>2, ValueIs
  <2>4. QED
    BY <2>1, <2>3
<1>2. G[K + 1] = 0
  <2>1. CASE J = K
    BY <1>1, <2>1
  <2>2. CASE J = K + 1
    <3>1. G[K + 1] = v[K + 1] + 2 * G[(K + 1) + 1] /\ G[(K + 1) + 1] = 0
      BY <1>1, <2>2
    <3>2. QED
      BY <2>2, <3>1
  <2>3. QED
    BY <2>1, <2>2
<1> DEFINE Q == {n \in Nat : n <= K => G[K + 1 - n] = F[K + 1 - n]}
<1>3. 0 \in Q
  BY <1>1, <1>2
<1>4. ASSUME NEW n \in Nat, n \in Q PROVE n + 1 \in Q
  <2> SUFFICES ASSUME n + 1 <= K PROVE G[K + 1 - (n + 1)] = F[K + 1 - (n + 1)]
    OBVIOUS
  <2>1. PICK l \in 1 .. K : l = K - n /\ l + 1 = K + 1 - n /\ l = K + 1 - (n + 1)
    OBVIOUS
  <2>2. G[l + 1] = F[l + 1] /\ v[l] = w[l] /\ l \in 1 .. J
    BY <1>4, <2>1
  <2>3. G[l] = F[l]
    BY <1>1, <2>2
  <2>4. QED
    BY <2>1, <2>3
<1>5. Nat \subseteq Q
  <2> HIDE DEF Q
  <2>1. QED
    BY <1>3, <1>4, NaturalInduction
<1>6. ASSUME NEW l \in 1 .. K + 1 PROVE G[l] = F[l]
  <2>1. PICK n \in Nat : n = K + 1 - l /\ n <= K /\ l = K + 1 - n
    OBVIOUS
  <2>2. QED
    BY <1>5, <2>1
<1>7. QED
  BY <1>6

(* The carry: ones below the first zero, c, become zeros, and c one. *)
CarriesInto(K, w, v, c) ==
  /\ w[c] = 0 /\ v[c] = 1
  /\ \A l \in 1 .. K : l < c => w[l] = 1 /\ v[l] = 0
  /\ \A l \in 1 .. K : l > c => v[l] = w[l]

LEMMA ValuePlusOne ==
  ASSUME NEW K \in Nat, NEW w \in [1 .. K -> 0 .. 1], NEW F, IsValue(w, K, F),
         NEW v \in [1 .. K -> 0 .. 1], NEW G, IsValue(v, K, G),
         NEW c \in 1 .. K, CarriesInto(K, w, v, c)
  PROVE  G[1] = F[1] + 1
<1> USE DEF CarriesInto
<1>1. /\ F[K + 1] = 0 /\ \A l \in 1 .. K : F[l] = w[l] + 2 * F[l + 1]
      /\ G[K + 1] = 0 /\ \A l \in 1 .. K : G[l] = v[l] + 2 * G[l + 1]
      /\ \A l \in 1 .. K + 1 : F[l] \in Nat /\ G[l] \in Nat
  <2>1. /\ F[K + 1] = 0 /\ \A l \in 1 .. K : F[l] = w[l] + 2 * F[l + 1]
        /\ \A l \in 1 .. K + 1 : F[l] \in Nat
    BY ValueIs
  <2>2. /\ G[K + 1] = 0 /\ \A l \in 1 .. K : G[l] = v[l] + 2 * G[l + 1]
        /\ \A l \in 1 .. K + 1 : G[l] \in Nat
    BY ValueIs
  <2>3. QED
    BY <2>1, <2>2
<1> DEFINE Plus(l) == IF l > c THEN F[l] ELSE F[l] + 1
           Q == {n \in Nat : n <= K => G[K + 1 - n] = Plus(K + 1 - n)}
<1>2. 0 \in Q
  BY <1>1
<1>3. ASSUME NEW n \in Nat, n \in Q PROVE n + 1 \in Q
  <2> SUFFICES ASSUME n + 1 <= K PROVE G[K + 1 - (n + 1)] = Plus(K + 1 - (n + 1))
    OBVIOUS
  <2>1. PICK l \in 1 .. K : l = K - n /\ l + 1 = K + 1 - n /\ l = K + 1 - (n + 1)
    OBVIOUS
  <2> SUFFICES G[l] = Plus(l)
    BY <2>1
  <2>2. G[l + 1] = Plus(l + 1) /\ l + 1 \in 1 .. K + 1
    BY <1>3, <2>1
  <2>3. /\ F[l] = w[l] + 2 * F[l + 1] /\ G[l] = v[l] + 2 * G[l + 1]
        /\ F[l + 1] \in Nat /\ w[l] \in 0 .. 1
    BY <1>1, <2>2
  <2>4. CASE l > c
    BY <2>2, <2>3, <2>4
  <2>5. CASE l = c
    BY <2>2, <2>3, <2>5
  <2>6. CASE l < c
    <3>1. w[l] = 1 /\ v[l] = 0 /\ G[l + 1] = F[l + 1] + 1
      BY <2>2, <2>6
    <3>2. QED
      BY <2>3, <2>6, <3>1
  <2>7. QED
    BY <2>4, <2>5, <2>6
<1>4. Nat \subseteq Q
  <2> HIDE DEF Q
  <2>1. QED
    BY <1>2, <1>3, NaturalInduction
<1>5. K \in Q /\ K + 1 - K = 1
  BY <1>4
<1>6. QED
  BY <1>5

(* What a bitwise filter returns is the value of its levels. *)
Levels(p, o) == [l \in 1 .. Len(p) |-> BasicLookup(p[l], o)]

LookupIsValue ==
  \A o \in Object : Len(parts) \in Nat =>
    \E F : IsValue(Levels(parts, o), Len(parts), F) /\ LookupBitwise(o) = F[1]

LEMMA LookupIsTheValue == LookupIsValue
<1> SUFFICES ASSUME NEW o \in Object, Len(parts) \in Nat
             PROVE  \E F : IsValue(Levels(parts, o), Len(parts), F) /\ LookupBitwise(o) = F[1]
  BY DEF LookupIsValue
<1> DEFINE IsDigits(F) ==
             F = [l \in 1 .. Len(parts) + 1 |->
                    IF l = Len(parts) + 1 THEN 0 ELSE BasicLookup(parts[l], o) + 2 * F[l + 1]]
<1>1. ASSUME NEW F
      PROVE  IsValue(Levels(parts, o), Len(parts), F) <=> IsDigits(F)
  <2>1. \A l \in 1 .. Len(parts) + 1 : l # Len(parts) + 1 =>
          Levels(parts, o)[l] = BasicLookup(parts[l], o)
    BY DEF Levels
  <2>2. [l \in 1 .. Len(parts) + 1 |->
           IF l = Len(parts) + 1 THEN 0 ELSE Levels(parts, o)[l] + 2 * F[l + 1]]
        = [l \in 1 .. Len(parts) + 1 |->
             IF l = Len(parts) + 1 THEN 0 ELSE BasicLookup(parts[l], o) + 2 * F[l + 1]]
    BY <2>1
  <2>3. QED
    BY <2>2 DEF IsValue
<1>2. LookupBitwise(o) = (CHOOSE F : IsDigits(F))[1]
  BY DEF LookupBitwise
<1>3. Levels(parts, o) \in [1 .. Len(parts) -> 0 .. 1]
  BY DEF Levels, BasicLookup
<1>4. \E F : IsDigits(F)
  <2>1. \E F : IsValue(Levels(parts, o), Len(parts), F)
    BY <1>3, ValueExists
  <2> HIDE DEF IsDigits
  <2>2. QED
    BY <1>1, <2>1
<1>5. QED
  <2> HIDE DEF IsDigits
  <2>1. PICK F : F = CHOOSE G : IsDigits(G)
    OBVIOUS
  <2>2. IsDigits(F)
    BY <1>4, <2>1
  <2>3. QED
    BY <1>1, <1>2, <2>1, <2>2

-----------------------------------------------------------------------------
(* Filters without contents                                                *)

LEMMA HashFacts ==
  ASSUME HashersFit, NEW k \in DOMAIN Hashers, NEW hs \in Hashers[k]
  PROVE  /\ IsFiniteSet(Object) /\ Max \in Nat \ {0} /\ Decay \in Nat /\ Capacity \in Nat
         /\ Len(hs) \in Nat /\ DOMAIN hs = 1 .. Len(hs) /\ 1 \in DOMAIN hs
         /\ k \in {"rm", "a2"} => 2 \in DOMAIN hs
         /\ \A l \in DOMAIN hs, o \in Object :
              IsFiniteSet(hs[l][o]) /\ hs[l][o] # {} /\ hs[l][o] \subseteq CellsOf(hs[l])
<1>1. \A l, o : o \in Object => hs[l][o] \subseteq CellsOf(hs[l])
  BY DEF CellsOf
<1>2. QED
  BY <1>1 DEF HashersFit

Empty ==
  /\ HashersFit /\ kind \in DOMAIN Hashers /\ hashers \in Hashers[kind]
  /\ parts = Fresh(kind, hashers)
  /\ net = [o \in Object |-> 0] /\ age = [o \in Object |-> -1] /\ saturated = FALSE
  /\ kind = "a2" => items = 0

LEMMA EmptyHolds == Empty => FilterInv
<1> SUFFICES ASSUME Empty PROVE FilterInv
  OBVIOUS
<1> USE DEF Empty
<1>1. /\ IsFiniteSet(Object) /\ Max \in Nat \ {0}
      /\ DOMAIN hashers = 1 .. Len(hashers) /\ 1 \in DOMAIN hashers /\ Len(hashers) \in Nat
      /\ kind \in {"rm", "a2"} => 2 \in DOMAIN hashers
      /\ \A l \in DOMAIN hashers, o \in Object :
           Indices(l, o) # {} /\ Indices(l, o) \subseteq CellsOf(hashers[l])
  BY HashFacts DEF Indices
<1>2. Least({Max, 0}) = 0 /\ \A o \in Object : net[o] = 0 /\ age[o] = -1
  BY <1>1, LeastOfTwo
<1>3. ASSUME NEW h
      PROVE  /\ ZeroCells(h) \in Cells(h) /\ IsCount(ZeroCells(h), h, net) /\ Bounded(h, net)
             /\ \A i \in CellsOf(h) : ZeroCells(h)[i] = 0
  BY <1>1, CountsFromZero DEF ZeroCells
<1>4. net \in [Object -> Nat] /\ net \in [Object -> Int] /\ age \in [Object -> Int]
  OBVIOUS
<1>5. CASE kind = "counting"
  <2>1. parts = <<ZeroCells(hashers[1])>>
    BY <1>5 DEF Fresh
  <2>2. parts[1] = ZeroCells(hashers[1]) /\ parts = <<parts[1]>>
    BY <2>1
  <2>3. CountingInv
    BY <1>3, <1>4, <2>2 DEF CountingInv
  <2>4. QED
    BY <1>5, <2>2, <2>3 DEF FilterInv
<1>6. CASE kind = "mi"
  <2>1. parts = <<ZeroCells(hashers[1])>>
    BY <1>6 DEF Fresh
  <2>2. parts[1] = ZeroCells(hashers[1])
    BY <2>1
  <2>3. MiInv
    BY <1>2, <1>3, <1>4, <2>2 DEF MiInv
  <2>4. QED
    BY <1>6, <2>3 DEF FilterInv
<1>7. CASE kind = "rm"
  <2>1. parts = <<ZeroCells(hashers[1]), ZeroCells(hashers[2])>>
    BY <1>7 DEF Fresh
  <2>2. parts[1] = ZeroCells(hashers[1]) /\ parts[2] = ZeroCells(hashers[2])
    BY <2>1
  <2>3. CountingInv
    BY <1>3, <1>4, <2>2 DEF CountingInv
  <2>4. \A o \in Object : \A j \in Indices(2, o) : parts[2][j] = 0
    BY <1>1, <1>3, <1>7, <2>2
  <2>5. RmInv
    BY <1>2, <1>3, <2>2, <2>3, <2>4 DEF RmInv
  <2>6. QED
    BY <1>7, <2>5 DEF FilterInv
<1>8. CASE kind = "stable"
  <2>1. parts = <<ZeroCells(hashers[1])>>
    BY <1>8 DEF Fresh
  <2>2. parts[1] = ZeroCells(hashers[1])
    BY <2>1
  <2>3. StableInv
    BY <1>2, <1>3, <1>4, <2>2 DEF StableInv
  <2>4. QED
    BY <1>8, <2>3 DEF FilterInv
<1>9. CASE kind = "a2"
  <2>1. parts = <<EmptyBits(hashers[1]), EmptyBits(hashers[2])>>
    BY <1>9 DEF Fresh
  <2>2. parts[1] = EmptyBits(hashers[1]) /\ parts[2] = EmptyBits(hashers[2])
        /\ parts = <<parts[1], parts[2]>>
    BY <2>1
  <2>3. Filter(parts[1]) /\ Filter(parts[2]) /\ parts[1].bits = {}
    BY <2>2 DEF Filter, EmptyBits
  <2>4. A2Inv
    BY <1>2, <1>4, <1>9, <2>2, <2>3 DEF A2Inv
  <2>5. QED
    BY <1>9, <2>4 DEF FilterInv
<1>10. CASE kind = "bitwise"
  <2>1. parts = <<EmptyBits(hashers[1])>>
    BY <1>10 DEF Fresh
  <2>2. /\ Len(parts) = 1 /\ DOMAIN parts = 1 .. Len(parts) /\ parts[1] = EmptyBits(hashers[1])
        /\ DOMAIN parts = {1}
    BY <2>1
  <2>3. ASSUME NEW o \in Object PROVE LookupBitwise(o) = 0
    <3>1. PICK F : IsValue(Levels(parts, o), 1, F) /\ LookupBitwise(o) = F[1]
      BY <2>2, LookupIsTheValue DEF LookupIsValue
    <3>2. Levels(parts, o) \in [1 .. 1 -> 0 .. 1]
      BY <2>2 DEF Levels, BasicLookup
    <3>3. ~(hashers[1][o] \subseteq {})
      BY <1>1 DEF Indices
    <3>4. Levels(parts, o)[1] = 0
      BY <2>2, <3>3 DEF Levels, BasicLookup, EmptyBits
    <3>5. F[1 + 1] = 0 /\ F[1] = Levels(parts, o)[1] + 2 * F[1 + 1]
      <4>0. PICK K \in Nat : K = 1
        OBVIOUS
      <4>1. PICK w : w = Levels(parts, o)
        OBVIOUS
      <4>2. w \in [1 .. K -> 0 .. 1] /\ IsValue(w, K, F)
        BY <3>1, <3>2, <4>0, <4>1
      <4>3. F[K + 1] = 0 /\ \A l \in 1 .. K : F[l] = w[l] + 2 * F[l + 1]
        BY <4>2, ValueIs
      <4>4. QED
        BY <4>0, <4>1, <4>3
    <3>6. QED
      BY <3>1, <3>4, <3>5
  <2>4. parts = [l \in 1 .. Len(parts) |-> [hasher |-> hashers[l], bits |-> parts[l].bits]]
    <3>1. parts[1] = [hasher |-> hashers[1], bits |-> parts[1].bits]
      BY <2>2 DEF EmptyBits
    <3>2. QED
      BY <2>1, <2>2, <3>1
  <2>5. BitwiseInv
    BY <1>1, <1>2, <1>4, <2>2, <2>3, <2>4 DEF BitwiseInv
  <2>6. QED
    BY <1>10, <2>5 DEF FilterInv
<1>11. QED
  BY <1>5, <1>6, <1>7, <1>8, <1>9, <1>10 DEF FilterInv

-----------------------------------------------------------------------------
(* Filters that count                                                      *)

LEMMA CountingAdds ==
  ASSUME HashersFit, CountingInv, NEW o \in Object, hashers' = hashers,
         parts'[1] = Incremented(parts[1], hashers[1][o], 1),
         net' = [net EXCEPT ![o] = @ + 1],
         saturated' \in BOOLEAN, saturated => saturated',
         Overflows(parts[1], hashers[1][o], 1) => saturated'
  PROVE  CountingInv'
<1>1. IsFiniteSet(Object) /\ Max \in Nat /\ net \in [Object -> Nat]
  BY DEF HashersFit, CountingInv
<1>2. IsCount(parts[1], hashers[1], net) /\ (~saturated => Bounded(hashers[1], net))
  BY DEF CountingInv
<1>3. PICK m, h, c : m = net' /\ h = hashers[1] /\ c = parts[1]
  OBVIOUS
<1>4. m = [net EXCEPT ![o] = net[o] + 1] /\ m \in [Object -> Nat]
  BY <1>1, <1>3
<1>5. /\ IsCount(Incremented(c, h[o], 1), h, m)
      /\ Bounded(h, net) /\ ~Overflows(c, h[o], 1) => Bounded(h, m)
  BY <1>1, <1>2, <1>3, <1>4, CountsAdd
<1>6. IsCount(parts'[1], hashers'[1], net') /\ (~saturated' => Bounded(hashers'[1], net'))
  BY <1>2, <1>3, <1>5
<1>7. QED
  BY <1>3, <1>4, <1>6 DEF CountingInv

LEMMA CountingRemoves ==
  ASSUME HashersFit, CountingInv, NEW o \in Object, hashers' = hashers,
         ~saturated, net[o] > 0, UNCHANGED saturated,
         parts'[1] = Decremented(parts[1], hashers[1][o]),
         net' = [net EXCEPT ![o] = @ - 1]
  PROVE  CountingInv'
<1>1. IsFiniteSet(Object) /\ Max \in Nat /\ net \in [Object -> Nat]
  BY DEF HashersFit, CountingInv
<1>2. IsCount(parts[1], hashers[1], net) /\ Bounded(hashers[1], net)
  BY DEF CountingInv
<1>3. PICK m, h, c : m = net' /\ h = hashers[1] /\ c = parts[1]
  OBVIOUS
<1>4. m = [net EXCEPT ![o] = net[o] - 1] /\ m \in [Object -> Nat]
  BY <1>1, <1>3
<1>5. IsCount(Decremented(c, h[o]), h, m) /\ Bounded(h, m)
  <2>1. IsCount(c, h, net) /\ Bounded(h, net)
    BY <1>2, <1>3
  <2>2. QED
    BY <1>1, <1>4, <2>1, CountsRemove
<1>6. IsCount(parts'[1], hashers'[1], net') /\ (~saturated' => Bounded(hashers'[1], net'))
  BY <1>2, <1>3, <1>5
<1>7. QED
  BY <1>3, <1>4, <1>6 DEF CountingInv

(* The minimal increase of an object is the least that it needs. *)
LEMMA MiAdds ==
  ASSUME HashersFit, kind \in DOMAIN Hashers, hashers \in Hashers[kind],
         MiInv, NEW o \in Object, AddMi(o), UNCHANGED hashers
  PROVE  MiInv'
<1>1. Max \in Nat /\ net \in [Object -> Nat]
  BY DEF HashersFit, MiInv
<1>2. PICK c, is, h, d :
        c = parts[1] /\ is = hashers[1][o] /\ h = hashers[1]
        /\ d = Incremented(parts[1], FindMinima(parts[1], Indices(1, o)), 1)
  OBVIOUS
<1>3. c \in [CellsOf(h) -> 0 .. Max] /\ is \subseteq CellsOf(h) /\ is # {}
  BY <1>2, HashFacts DEF MiInv, Cells
<1>4. parts'[1] = d /\ net' = [net EXCEPT ![o] = @ + 1]
  BY <1>2 DEF AddMi, Counted
<1>5. PICK min : min = FindMinimum(c, is)
  OBVIOUS
<1>6. min \in 0 .. Max /\ \A i \in is : min <= c[i]
  BY <1>1, <1>3, <1>5, MinimumIs
<1>7. /\ d \in [CellsOf(h) -> 0 .. Max]
      /\ \A i \in CellsOf(h) : d[i] = IF ~(i \in is /\ c[i] = min) THEN c[i]
                                      ELSE IF c[i] + 1 <= Max THEN c[i] + 1 ELSE Max
  <2>1. PICK low : low = FindMinima(c, is)
    OBVIOUS
  <2>2. \A i : i \in low <=> i \in is /\ c[i] = min
    BY <1>5, <2>1 DEF FindMinima
  <2>3. d = Incremented(c, low, 1)
    BY <1>2, <2>1 DEF Indices
  <2>4. /\ d \in [CellsOf(h) -> 0 .. Max]
        /\ \A i \in CellsOf(h) : d[i] = IF i \notin low THEN c[i]
                                        ELSE IF c[i] + 1 <= Max THEN c[i] + 1 ELSE Max
    BY <1>1, <1>3, <2>3, IncrementedIs
  <2>5. QED
    BY <2>2, <2>4
<1>8. net' \in [Object -> Nat] /\ net'[o] = net[o] + 1 /\ \A p \in Object : p # o => net'[p] = net[p]
  BY <1>1, <1>4
<1>9. ASSUME NEW p \in Object, NEW i \in CellsOf(h), i \in h[p]
      PROVE  d[i] >= Least({Max, net'[p]}) /\ (OwnsCell(h, p, i) => d[i] <= net'[p])
  <2>1. c[i] >= Least({Max, net[p]}) /\ (OwnsCell(h, p, i) => c[i] <= net[p])
    BY <1>2, <1>9 DEF MiInv, Indices
  <2>2. /\ Least({Max, net[p]}) = IF Max <= net[p] THEN Max ELSE net[p]
        /\ Least({Max, net'[p]}) = IF Max <= net'[p] THEN Max ELSE net'[p]
        /\ net[p] \in Nat /\ net'[p] \in Nat /\ c[i] \in 0 .. Max
    <3>1. net[p] \in Nat /\ net'[p] \in Nat /\ c[i] \in 0 .. Max
      BY <1>1, <1>3, <1>8
    <3>2. QED
      BY <1>1, <3>1, LeastOfTwo
  <2>3. d[i] = IF ~(i \in is /\ c[i] = min) THEN c[i]
               ELSE IF c[i] + 1 <= Max THEN c[i] + 1 ELSE Max
    BY <1>7
  <2>4. CASE p = o
    <3>1. PICK k, k2, x : k = net[p] /\ k2 = net'[p] /\ x = c[i]
      OBVIOUS
    <3>2. k2 = k + 1 /\ min <= x /\ i \in is
      BY <1>2, <1>6, <1>8, <1>9, <2>4, <3>1
    <3>3. min >= IF Max <= k THEN Max ELSE k
      <4>1. PICK j \in is : c[j] = min
        BY <1>1, <1>3, <1>5, MinimumIs
      <4>2. c[j] >= Least({Max, net[p]})
        BY <1>2, <1>3, <2>4, <4>1 DEF MiInv, Indices
      <4>3. QED
        BY <2>2, <3>1, <4>1, <4>2
    <3>4. QED
      BY <1>1, <1>6, <2>1, <2>2, <2>3, <3>1, <3>2, <3>3
  <2>5. CASE p # o
    <3>1. net'[p] = net[p]
      BY <1>8, <2>5
    <3>2. OwnsCell(h, p, i) => d[i] = c[i]
      BY <1>2, <2>3, <2>5 DEF OwnsCell
    <3>3. d[i] >= c[i]
      BY <1>1, <2>2, <2>3
    <3>4. d[i] \in 0 .. Max
      BY <1>7
    <3>5. d[i] >= Least({Max, net'[p]})
      BY <1>1, <2>1, <2>2, <3>1, <3>3, <3>4
    <3>6. OwnsCell(h, p, i) => d[i] <= net'[p]
      BY <2>1, <3>1, <3>2
    <3>7. QED
      BY <3>5, <3>6
  <2>6. QED
    BY <2>4, <2>5
<1>10. parts'[1] \in Cells(hashers'[1])
  BY <1>2, <1>4, <1>7 DEF Cells
<1>11. \A p \in Object, i \in CellsOf(hashers'[1]) : i \in hashers'[1][p] =>
         /\ parts'[1][i] >= Least({Max, net'[p]})
         /\ OwnsCell(hashers'[1], p, i) => parts'[1][i] <= net'[p]
  BY <1>2, <1>4, <1>9
<1>12. QED
  BY <1>8, <1>10, <1>11 DEF MiInv, Indices

(* An object with one cell always has one minimal counter. *)
LEMMA OneCellIsMinimal ==
  ASSUME Max \in Nat, NEW D, NEW c \in [D -> 0 .. Max], NEW is \in SUBSET D,
         IsFiniteSet(is), Cardinality(is) = 1
  PROVE  Cardinality(FindMinima(c, is)) = 1
<1>1. PICK x : is = {x}
  BY FS_Singleton
<1>2. FindMinimum(c, is) = c[x]
  BY <1>1, MinimumIs
<1>3. FindMinima(c, is) = is
  BY <1>1, <1>2 DEF FindMinima
<1>4. QED
  BY <1>3

(* The second vector is increased by one for an object it counts, whether  *)
(* it held the object before or not.                                       *)
LEMMA RmAdds ==
  ASSUME HashersFit, kind = "rm", kind \in DOMAIN Hashers, hashers \in Hashers[kind],
         RmInv, NEW o \in Object, AddRm(o), UNCHANGED hashers
  PROVE  RmInv'
<1>1. /\ IsFiniteSet(Object) /\ Max \in Nat /\ Max > 0 /\ 1 \in DOMAIN hashers /\ 2 \in DOMAIN hashers
      /\ \A l \in {1, 2} : /\ IsFiniteSet(hashers[l][o]) /\ hashers[l][o] # {}
                           /\ hashers[l][o] \subseteq CellsOf(hashers[l])
  BY HashFacts
<1>2. PICK c1, c2, h1, h2, first, value, single :
        /\ c1 = parts[1] /\ c2 = parts[2] /\ h1 = hashers[1] /\ h2 = hashers[2]
        /\ first = Incremented(parts[1], hashers[1][o], 1)
        /\ value = IF FindMinimum(parts[2], hashers[2][o]) > 0 THEN 1
                   ELSE FindMinimum(Incremented(parts[1], hashers[1][o], 1), hashers[1][o])
        /\ single = (Cardinality(FindMinima(Incremented(parts[1], hashers[1][o], 1), hashers[1][o])) = 1)
  OBVIOUS
<1>3. /\ parts' = <<first, IF single THEN Incremented(c2, h2[o], value) ELSE c2>>
      /\ net' = [net EXCEPT ![o] = @ + 1]
  BY <1>2 DEF AddRm, Indices, Counted
<1>4. CountingInv'
  <2>1. CountingInv /\ saturated \in BOOLEAN
    BY DEF RmInv, CountingInv
  <2>2. parts'[1] = Incremented(parts[1], hashers[1][o], 1)
    BY <1>2, <1>3
  <2>3. /\ saturated' \in BOOLEAN /\ (saturated => saturated')
        /\ Overflows(parts[1], hashers[1][o], 1) => saturated'
    BY <2>1 DEF AddRm, Indices
  <2>4. QED
    BY <1>3, <2>1, <2>2, <2>3, CountingAdds
<1>5. /\ c1 \in [CellsOf(h1) -> 0 .. Max] /\ c2 \in [CellsOf(h2) -> 0 .. Max]
      /\ net \in [Object -> Nat] /\ first \in [CellsOf(h1) -> 0 .. Max]
  <2>1. c1 \in [CellsOf(h1) -> 0 .. Max] /\ c2 \in [CellsOf(h2) -> 0 .. Max] /\ net \in [Object -> Nat]
    BY <1>2 DEF RmInv, CountingInv, IsCount, Cells
  <2>2. QED
    BY <1>1, <1>2, <2>1, IncrementedIs
<1>6. value \in Nat
  <2>1. FindMinimum(first, h1[o]) \in Nat
    BY <1>1, <1>2, <1>5, MinimumIs
  <2>2. QED
    BY <1>2, <2>1
<1>7. PICK d2 : d2 = parts'[2]
  OBVIOUS
<1>8. /\ d2 \in [CellsOf(h2) -> 0 .. Max]
      /\ \A j \in CellsOf(h2) : /\ j \notin h2[o] => d2[j] = c2[j]
                                /\ single /\ j \in h2[o] =>
                                     d2[j] = IF c2[j] + value <= Max THEN c2[j] + value ELSE Max
  <2>1. d2 = IF single THEN Incremented(c2, h2[o], value) ELSE c2
    BY <1>3, <1>7
  <2>2. /\ Incremented(c2, h2[o], value) \in [CellsOf(h2) -> 0 .. Max]
        /\ \A j \in CellsOf(h2) : Incremented(c2, h2[o], value)[j] =
             IF j \notin h2[o] THEN c2[j] ELSE IF c2[j] + value <= Max THEN c2[j] + value ELSE Max
    BY <1>1, <1>5, <1>6, IncrementedIs
  <2>3. CASE single
    BY <2>1, <2>2, <2>3
  <2>4. CASE ~single
    BY <1>5, <2>1, <2>4
  <2>5. QED
    BY <2>3, <2>4
<1>9. net'[o] = net[o] + 1 /\ net[o] \in Nat /\ \A p \in Object : p # o => net'[p] = net[p]
  BY <1>3, <1>5
<1>10. ASSUME NEW p \in Object, OwnsAllCells(p), Cardinality(Indices(1, p)) = 1,
              NEW j \in h2[p]
       PROVE  d2[j] = Least({Max, net'[p]})
  <2>1. c2[j] = Least({Max, net[p]}) /\ OwnsCell(h2, p, j) /\ j \in CellsOf(h2)
    BY <1>1, <1>2, <1>10 DEF RmInv, OwnsAllCells, Indices, CellsOf
  <2>2. CASE p # o
    <3>1. j \notin h2[o]
      BY <2>1, <2>2 DEF OwnsCell
    <3>2. QED
      BY <1>8, <1>9, <2>1, <2>2, <3>1
  <2>3. CASE p = o
    <3>1. single
      BY <1>1, <1>2, <1>5, <1>10, <2>3, OneCellIsMinimal DEF Indices
    <3>2. value = 1
      <4>1. CASE FindMinimum(c2, h2[o]) > 0
        BY <1>2, <4>1
      <4>2. CASE ~(FindMinimum(c2, h2[o]) > 0)
        <5>1. PICK i \in h2[o] : FindMinimum(c2, h2[o]) = c2[i]
          BY <1>1, <1>2, <1>5, MinimumIs
        <5>2. c2[i] = Least({Max, net[o]})
          BY <1>2, <1>10, <2>3 DEF RmInv, Indices
        <5>3. net[o] = 0
          BY <1>1, <1>9, <4>2, <5>1, <5>2, LeastOfTwo
        <5>4. value = FindMinimum(first, h1[o])
          BY <1>2, <4>2
        <5>5. PICK m : m = net'
          OBVIOUS
        <5>6. IsCount(first, h1, m) /\ m \in [Object -> Nat] /\ m[o] = 1
          BY <1>2, <1>3, <1>4, <1>9, <5>3, <5>5 DEF CountingInv
        <5>7. PICK i1 \in h1[o] : OwnsCell(h1, o, i1)
          BY <1>1, <1>2, <1>10, <2>3 DEF OwnsAllCells, Indices
        <5>8. FindMinimum(first, h1[o]) = Least({Max, m[o]})
          BY <1>1, <1>2, <5>6, <5>7, CountIsEnough
        <5>9. Least({Max, 1}) = 1
          BY <1>1, LeastOfTwo
        <5>10. QED
          BY <5>4, <5>6, <5>8, <5>9
      <4>3. QED
        BY <4>1, <4>2
    <3>3. d2[j] = IF c2[j] + 1 <= Max THEN c2[j] + 1 ELSE Max
      BY <1>8, <1>10, <2>1, <2>3, <3>1, <3>2
    <3>4. /\ Least({Max, net[o]}) = IF Max <= net[o] THEN Max ELSE net[o]
          /\ Least({Max, net[o] + 1}) = IF Max <= net[o] + 1 THEN Max ELSE net[o] + 1
      BY <1>1, <1>9, LeastOfTwo
    <3>5. c2[j] = IF Max <= net[o] THEN Max ELSE net[o]
      BY <2>1, <2>3, <3>4
    <3>6. d2[j] = IF Max <= net[o] + 1 THEN Max ELSE net[o] + 1
      BY <1>1, <1>9, <3>3, <3>5
    <3>7. QED
      BY <1>9, <2>3, <3>4, <3>6
  <2>4. QED
    BY <2>2, <2>3
<1>11. QED
  BY <1>2, <1>4, <1>7, <1>8, <1>10 DEF RmInv, OwnsAllCells, Indices, Cells

(* ... and decreased by one. *)
LEMMA RmRemoves ==
  ASSUME HashersFit, kind = "rm", kind \in DOMAIN Hashers, hashers \in Hashers[kind],
         RmInv, NEW o \in Object, RemoveRm(o), UNCHANGED <<hashers, saturated>>,
         net' = [net EXCEPT ![o] = @ - 1], ~saturated, net[o] > 0
  PROVE  RmInv'
<1>1. /\ IsFiniteSet(Object) /\ Max \in Nat /\ Max > 0 /\ 1 \in DOMAIN hashers /\ 2 \in DOMAIN hashers
      /\ \A l \in {1, 2} : /\ IsFiniteSet(hashers[l][o]) /\ hashers[l][o] # {}
                           /\ hashers[l][o] \subseteq CellsOf(hashers[l])
  BY HashFacts
<1>2. PICK c1, c2, h1, h2, first, single :
        /\ c1 = parts[1] /\ c2 = parts[2] /\ h1 = hashers[1] /\ h2 = hashers[2]
        /\ first = Decremented(parts[1], hashers[1][o])
        /\ single = (Cardinality(FindMinima(Decremented(parts[1], hashers[1][o]), hashers[1][o])) = 1)
  OBVIOUS
<1>3. parts' = <<first, IF single /\ FindMinimum(c2, h2[o]) > 0 THEN Decremented(c2, h2[o]) ELSE c2>>
  BY <1>2 DEF RemoveRm, RemoveFirst, Indices
<1>4. CountingInv'
  <2>1. CountingInv /\ saturated \in BOOLEAN
    BY DEF RmInv, CountingInv
  <2>2. parts'[1] = Decremented(parts[1], hashers[1][o])
    BY <1>2, <1>3
  <2>3. QED
    BY <2>1, <2>2, CountingRemoves
<1>5. /\ c1 \in [CellsOf(h1) -> 0 .. Max] /\ c2 \in [CellsOf(h2) -> 0 .. Max]
      /\ net \in [Object -> Nat] /\ first \in [CellsOf(h1) -> 0 .. Max]
  <2>1. c1 \in [CellsOf(h1) -> 0 .. Max] /\ c2 \in [CellsOf(h2) -> 0 .. Max] /\ net \in [Object -> Nat]
    BY <1>2 DEF RmInv, CountingInv, IsCount, Cells
  <2>2. QED
    BY <1>1, <1>2, <2>1, DecrementedIs
<1>6. PICK d2 : d2 = parts'[2]
  OBVIOUS
<1>7. /\ d2 \in [CellsOf(h2) -> 0 .. Max]
      /\ \A j \in CellsOf(h2) :
           /\ j \notin h2[o] => d2[j] = c2[j]
           /\ single /\ FindMinimum(c2, h2[o]) > 0 /\ j \in h2[o] /\ c2[j] > 0 => d2[j] = c2[j] - 1
  <2>1. d2 = IF single /\ FindMinimum(c2, h2[o]) > 0 THEN Decremented(c2, h2[o]) ELSE c2
    BY <1>3, <1>6
  <2>2. /\ Decremented(c2, h2[o]) \in [CellsOf(h2) -> 0 .. Max]
        /\ \A j \in CellsOf(h2) : /\ j \notin h2[o] => Decremented(c2, h2[o])[j] = c2[j]
                                  /\ j \in h2[o] /\ c2[j] > 0 => Decremented(c2, h2[o])[j] = c2[j] - 1
    BY <1>1, <1>5, DecrementedIs
  <2>3. CASE single /\ FindMinimum(c2, h2[o]) > 0
    BY <2>1, <2>2, <2>3
  <2>4. CASE ~(single /\ FindMinimum(c2, h2[o]) > 0)
    BY <1>5, <2>1, <2>4
  <2>5. QED
    BY <2>3, <2>4
<1>8. net'[o] = net[o] - 1 /\ net[o] \in Nat /\ \A p \in Object : p # o => net'[p] = net[p]
  BY <1>5
<1>9. ASSUME NEW p \in Object, OwnsAllCells(p), Cardinality(Indices(1, p)) = 1,
             NEW j \in h2[p]
      PROVE  d2[j] = Least({Max, net'[p]})
  <2>1. c2[j] = Least({Max, net[p]}) /\ OwnsCell(h2, p, j) /\ j \in CellsOf(h2)
    BY <1>1, <1>2, <1>9 DEF RmInv, OwnsAllCells, Indices, CellsOf
  <2>2. CASE p # o
    <3>1. j \notin h2[o]
      BY <2>1, <2>2 DEF OwnsCell
    <3>2. QED
      BY <1>7, <1>8, <2>1, <2>2, <3>1
  <2>3. CASE p = o
    <3>1. single
      BY <1>1, <1>2, <1>5, <1>9, <2>3, OneCellIsMinimal DEF Indices
    <3>2. net[o] <= Max
      <4>1. PICK i \in h1[o] : i \in CellsOf(h1)
        BY <1>1, <1>2
      <4>2. Load(net, h1, i) <= Max
        BY <1>2, <4>1 DEF RmInv, CountingInv, Bounded
      <4>3. net[o] <= Load(net, h1, i) /\ Load(net, h1, i) \in Nat
        BY <1>1, <1>5, LoadIs
      <4>4. QED
        BY <1>1, <1>8, <4>2, <4>3
    <3>3. \A i \in h2[o] : c2[i] = net[o]
      <4>1. \A i \in h2[o] : c2[i] = Least({Max, net[o]})
        BY <1>2, <1>9, <2>3 DEF RmInv, Indices
      <4>2. Least({Max, net[o]}) = net[o]
        BY <1>1, <1>8, <3>2, LeastOfTwo
      <4>3. QED
        BY <4>1, <4>2
    <3>4. FindMinimum(c2, h2[o]) > 0
      <4>1. PICK i \in h2[o] : FindMinimum(c2, h2[o]) = c2[i]
        BY <1>1, <1>2, <1>5, MinimumIs
      <4>2. QED
        BY <1>8, <3>3, <4>1
    <3>5. d2[j] = net[o] - 1
      BY <1>7, <1>9, <2>1, <2>3, <3>1, <3>3, <3>4
    <3>6. Least({Max, net[o] - 1}) = net[o] - 1
      <4>1. PICK k \in Nat : k = net[o] - 1 /\ k < Max
        BY <1>1, <1>8, <3>2
      <4>2. Least({Max, k}) = k
        BY <1>1, <4>1, LeastOfTwo
      <4>3. QED
        BY <4>1, <4>2
    <3>7. QED
      BY <1>8, <2>3, <3>5, <3>6
  <2>4. QED
    BY <2>2, <2>3
<1>10. QED
  BY <1>2, <1>4, <1>6, <1>7, <1>9 DEF RmInv, OwnsAllCells, Indices, Cells

-----------------------------------------------------------------------------
(* Filters that forget                                                     *)

(* Decay costs a counter at most one, unless it is zero, when no object    *)
(* young enough needs it.                                                  *)
LEMMA StableAdds ==
  ASSUME HashersFit, kind \in DOMAIN Hashers, hashers \in Hashers[kind],
         StableInv, NEW o \in Object, AddStable(o), UNCHANGED hashers
  PROVE  StableInv'
<1>1. Max \in Nat
  BY DEF HashersFit
<1>2. PICK drawn :
        parts' = <<Incremented(Decremented(parts[1], drawn), Indices(1, o), Max)>>
  BY DEF AddStable
<1>3. PICK c, h, d : c = parts[1] /\ h = hashers[1] /\ d = Decremented(parts[1], drawn)
  OBVIOUS
<1>4. c \in [CellsOf(h) -> 0 .. Max]
  BY <1>3 DEF StableInv, Cells
<1>5. /\ d \in [CellsOf(h) -> 0 .. Max]
      /\ \A i \in CellsOf(h) : (i \notin drawn => d[i] = c[i]) /\ (c[i] > 0 => d[i] >= c[i] - 1)
  BY <1>1, <1>3, <1>4, DecrementedIs
<1>6. /\ parts'[1] \in [CellsOf(h) -> 0 .. Max]
      /\ \A i \in CellsOf(h) : parts'[1][i] =
           IF i \notin h[o] THEN d[i] ELSE IF d[i] + Max <= Max THEN d[i] + Max ELSE Max
  <2>1. parts'[1] = Incremented(d, h[o], Max)
    BY <1>2, <1>3 DEF Indices
  <2>2. QED
    BY <1>1, <1>5, <2>1, IncrementedIs
<1>7. /\ age \in [Object -> Int]
      /\ age' = [p \in Object |-> IF p = o THEN 0 ELSE IF age[p] < 0 THEN -1 ELSE age[p] + 1]
  BY DEF StableInv, AddStable, Aged
<1>8. ASSUME NEW p \in Object, age'[p] >= 0, NEW i \in CellsOf(h), i \in h[p]
      PROVE  parts'[1][i] >= Max - age'[p]
  <2>1. d[i] \in 0 .. Max /\ c[i] \in 0 .. Max
    BY <1>4, <1>5
  <2>2. CASE i \in h[o]
    <3>1. parts'[1][i] = Max
      BY <1>1, <1>6, <2>1, <2>2
    <3>2. age'[p] \in Int
      BY <1>7
    <3>3. QED
      BY <1>1, <1>8, <3>1, <3>2
  <2>3. CASE i \notin h[o]
    <3>1. p # o /\ parts'[1][i] = d[i]
      BY <1>6, <1>8, <2>3
    <3>2. age[p] \in Int /\ age[p] >= 0 /\ age'[p] = age[p] + 1
      BY <1>7, <1>8, <3>1
    <3>3. c[i] >= Max - age[p]
      BY <1>3, <1>8, <3>2 DEF StableInv, Indices
    <3>4. c[i] > 0 => d[i] >= c[i] - 1
      BY <1>5
    <3>5. QED
      BY <1>1, <2>1, <3>1, <3>2, <3>3, <3>4
  <2>4. QED
    BY <2>2, <2>3
<1>9. age' \in [Object -> Int]
  BY <1>7
<1>10. QED
  BY <1>3, <1>6, <1>8, <1>9 DEF StableInv, Indices, Cells

(* The first filter is given up when it is full, and then all the objects  *)
(* that are not older than its number of items are in it.                  *)
LEMMA A2Adds ==
  ASSUME HashersFit, kind = "a2", kind \in DOMAIN Hashers, hashers \in Hashers[kind],
         A2Inv, NEW o \in Object, AddA2(o), UNCHANGED hashers
  PROVE  A2Inv'
<1>1. /\ Capacity \in Nat /\ 1 \in DOMAIN hashers /\ 2 \in DOMAIN hashers
      /\ \A l \in {1, 2}, p \in Object : hashers[l][p] # {}
  BY HashFacts
<1>2. PICK f, g : f = parts[1] /\ g = parts[2]
  OBVIOUS
<1>3. /\ age \in [Object -> Int] /\ items \in Nat /\ parts = <<f, g>> /\ Filter(f) /\ Filter(g)
      /\ items = 0 => f.bits = {}
      /\ \A p \in Object : age[p] >= 0 =>
           /\ items > 0
           /\ age[p] < items => BasicLookup(f, p) = 1
           /\ age[p] < items + Capacity => BasicLookup(f, p) = 1 \/ BasicLookup(g, p) = 1
  BY <1>2 DEF A2Inv
<1>4. \A e, p : BasicLookup(e, p) = 1 <=> e.hasher[p] \subseteq e.bits
  BY DEF BasicLookup
<1>5. CASE BasicLookup(f, o) = 1
  <2>1. /\ parts' = parts /\ items' = items
        /\ age' = [p \in Object |-> IF p = o THEN 0 ELSE IF age[p] < 0 THEN -1 ELSE age[p] + 0]
    BY <1>2, <1>5 DEF AddA2, Aged
  <2>2. items > 0
    <3>1. f.hasher[o] # {}
      BY <1>1, <1>3 DEF Filter
    <3>2. items # 0
      BY <1>3, <1>4, <1>5, <3>1
    <3>3. QED
      BY <1>3, <3>2
  <2>3. ASSUME NEW p \in Object, age'[p] >= 0
        PROVE  /\ items > 0 /\ (age'[p] < items => BasicLookup(f, p) = 1)
               /\ age'[p] < items + Capacity => BasicLookup(f, p) = 1 \/ BasicLookup(g, p) = 1
    <3>1. CASE p = o
      BY <1>5, <2>2, <3>1
    <3>2. CASE p # o
      <4>1. age[p] \in Int /\ age'[p] = age[p] /\ age[p] >= 0
        BY <1>3, <2>1, <2>3, <3>2
      <4>2. QED
        BY <1>3, <4>1
    <3>3. QED
      BY <3>1, <3>2
  <2>4. age' \in [Object -> Int]
    BY <1>3, <2>1
  <2>5. QED
    BY <1>2, <1>3, <2>1, <2>3, <2>4 DEF A2Inv, Filter
<1>6. CASE BasicLookup(f, o) # 1
  <2> DEFINE first == [f EXCEPT !.bits = @ \cup f.hasher[o]]
  <2>1. /\ age' = [p \in Object |-> IF p = o THEN 0 ELSE IF age[p] < 0 THEN -1 ELSE age[p] + 1]
        /\ items' = IF items < Capacity THEN items + 1 ELSE 1
        /\ parts' = IF items < Capacity THEN [parts EXCEPT ![1] = first]
                    ELSE <<BasicAdd(EmptyBits(g.hasher), o), first>>
    BY <1>2, <1>6 DEF AddA2, Aged, BasicAdd
  <2>2. /\ first = [hasher |-> f.hasher, bits |-> f.bits \cup f.hasher[o]]
        /\ first.hasher = f.hasher /\ first.bits = f.bits \cup f.hasher[o]
    BY <1>3 DEF Filter
  <2>3. PICK x : x = first
    OBVIOUS
  <2>4. /\ x = [hasher |-> x.hasher, bits |-> x.bits] /\ x.hasher = f.hasher
        /\ BasicLookup(x, o) = 1 /\ \A p : BasicLookup(f, p) = 1 => BasicLookup(x, p) = 1
    BY <1>4, <2>2, <2>3
  <2>5. age' \in [Object -> Int]
    BY <1>3, <2>1
  <2>6. ASSUME NEW p \in Object, p # o, age'[p] >= 0
        PROVE  /\ age[p] \in Int /\ age[p] >= 0 /\ age'[p] = age[p] + 1
               /\ items > 0 /\ (age[p] < items => BasicLookup(f, p) = 1)
               /\ age[p] < items + Capacity => BasicLookup(f, p) = 1 \/ BasicLookup(g, p) = 1
    <3>1. age[p] \in Int /\ age[p] >= 0 /\ age'[p] = age[p] + 1
      BY <1>3, <2>1, <2>6
    <3>2. QED
      BY <1>3, <3>1
  <2>7. age'[o] = 0
    BY <2>1
  <2>8. CASE items < Capacity
    <3>1. items' = items + 1 /\ items' \in Nat /\ items' > 0 /\ parts' = <<x, g>>
      <4>1. items' = items + 1 /\ parts' = [parts EXCEPT ![1] = x]
        BY <2>1, <2>3, <2>8
      <4>2. [<<f, g>> EXCEPT ![1] = x] = <<x, g>>
        OBVIOUS
      <4>3. items' \in Nat /\ items' > 0
        BY <1>3, <4>1
      <4>4. QED
        BY <1>3, <4>1, <4>2, <4>3
    <3>2. Filter(x)' /\ Filter(g)'
      BY <1>3, <2>4 DEF Filter
    <3>3. ASSUME NEW p \in Object, age'[p] >= 0
          PROVE  /\ age'[p] < items' => BasicLookup(x, p) = 1
                 /\ age'[p] < items' + Capacity => BasicLookup(x, p) = 1 \/ BasicLookup(g, p) = 1
      <4>1. CASE p = o
        BY <2>4, <4>1
      <4>2. CASE p # o
        <5>1. /\ age[p] \in Int /\ age'[p] = age[p] + 1
              /\ age[p] < items => BasicLookup(f, p) = 1
              /\ age[p] < items + Capacity => BasicLookup(f, p) = 1 \/ BasicLookup(g, p) = 1
          BY <2>6, <3>3, <4>2
        <5>2. /\ age'[p] < items' => age[p] < items
              /\ age'[p] < items' + Capacity => age[p] < items + Capacity
          BY <1>1, <1>3, <3>1, <5>1
        <5>3. QED
          BY <2>4, <5>1, <5>2
      <4>3. QED
        BY <4>1, <4>2
    <3>4. parts'[1] = x /\ parts'[2] = g
      BY <3>1
    <3>5. QED
      BY <2>5, <3>1, <3>2, <3>3, <3>4 DEF A2Inv, Filter
  <2>9. CASE ~(items < Capacity)
    <3>1. PICK y : y = BasicAdd(EmptyBits(g.hasher), o)
      OBVIOUS
    <3>2. items' = 1 /\ parts' = <<y, x>>
      BY <2>1, <2>3, <2>9, <3>1
    <3>3. y = [hasher |-> g.hasher, bits |-> {} \cup g.hasher[o]]
      BY <3>1 DEF BasicAdd, EmptyBits
    <3>4. BasicLookup(y, o) = 1 /\ y = [hasher |-> y.hasher, bits |-> y.bits] /\ y.hasher = g.hasher
      BY <1>4, <3>3
    <3>5. Filter(x)' /\ Filter(y)'
      BY <1>3, <2>4, <3>4 DEF Filter
    <3>6. ASSUME NEW p \in Object, age'[p] >= 0
          PROVE  /\ age'[p] < items' => BasicLookup(y, p) = 1
                 /\ age'[p] < items' + Capacity => BasicLookup(y, p) = 1 \/ BasicLookup(x, p) = 1
      <4>1. CASE p = o
        BY <3>4, <4>1
      <4>2. CASE p # o
        <5>1. /\ age[p] \in Int /\ age[p] >= 0 /\ age'[p] = age[p] + 1
              /\ age[p] < items => BasicLookup(f, p) = 1
          BY <2>6, <3>6, <4>2
        <5>2. ~(age'[p] < items')
          BY <3>2, <5>1
        <5>3. age'[p] < items' + Capacity => age[p] < items
          BY <1>1, <1>3, <2>9, <3>2, <5>1
        <5>4. QED
          BY <2>4, <5>1, <5>2, <5>3
      <4>3. QED
        BY <4>1, <4>2
    <3>7. parts'[1] = y /\ parts'[2] = x
      BY <3>2
    <3>8. QED
      BY <2>5, <3>2, <3>5, <3>6, <3>7 DEF A2Inv, Filter
  <2>10. QED
    BY <2>8, <2>9
<1>7. QED
  BY <1>5, <1>6

(* Clearing keeps the number of items, and no object. *)
LEMMA A2Clears ==
  ASSUME A2Inv, ClearA2, UNCHANGED <<hashers, items>>, age' = [o \in Object |-> -1]
  PROVE  A2Inv'
<1>1. PICK f, g : f = EmptyBits(parts[1].hasher) /\ g = EmptyBits(parts[2].hasher)
  OBVIOUS
<1>2. parts' = [l \in 1 .. 2 |-> EmptyBits(parts[l].hasher)]
  BY DEF ClearA2
<1>3. parts' = <<f, g>> /\ parts'[1] = f /\ parts'[2] = g
  BY <1>1, <1>2
<1>4. /\ f = [hasher |-> f.hasher, bits |-> f.bits] /\ f.hasher \in {hashers[1], hashers[2]}
      /\ g = [hasher |-> g.hasher, bits |-> g.bits] /\ g.hasher \in {hashers[1], hashers[2]}
      /\ f.bits = {}
  BY <1>1 DEF A2Inv, Filter, EmptyBits
<1>5. age' \in [Object -> Int] /\ \A o \in Object : ~(age'[o] >= 0)
  OBVIOUS
<1>6. QED
  BY <1>3, <1>4, <1>5 DEF A2Inv, Filter

-----------------------------------------------------------------------------
(* The binary counters                                                     *)

(* The levels are changed as a carry changes binary digits, for an object  *)
(* that shares no bits, and not at all for the others.                     *)
LEMMA BitwiseAdds ==
  ASSUME HashersFit, kind \in DOMAIN Hashers, hashers \in Hashers[kind],
         BitwiseInv, NEW o \in Object, AddBitwise(o), UNCHANGED hashers
  PROVE  BitwiseInv'
<1>1. /\ Len(hashers) \in Nat /\ DOMAIN hashers = 1 .. Len(hashers)
      /\ \A l \in DOMAIN hashers, p \in Object : hashers[l][p] # {}
  BY HashFacts
<1>2. /\ net \in [Object -> Int] /\ Len(parts) \in 1 .. Len(hashers) /\ DOMAIN parts = 1 .. Len(parts)
      /\ \A l \in DOMAIN parts : parts[l] = [hasher |-> hashers[l], bits |-> parts[l].bits]
      /\ \A p \in Object : OwnsAllCells(p) => LookupBitwise(p) = net[p]
      /\ Len(parts) \in Nat /\ parts \in Seq({parts[l] : l \in 1 .. Len(parts)})
  <2>1. /\ net \in [Object -> Int] /\ Len(parts) \in 1 .. Len(hashers)
        /\ parts = [l \in 1 .. Len(parts) |-> [hasher |-> hashers[l], bits |-> parts[l].bits]]
        /\ \A p \in Object : OwnsAllCells(p) => LookupBitwise(p) = net[p]
    BY DEF BitwiseInv
  <2>2. DOMAIN parts = 1 .. Len(parts) /\ Len(parts) \in Nat
    BY <1>1, <2>1
  <2>3. \A l \in DOMAIN parts : parts[l] = [hasher |-> hashers[l], bits |-> parts[l].bits]
    BY <2>1, <2>2
  <2>4. parts \in Seq({parts[l] : l \in 1 .. Len(parts)})
    <3>1. PICK n \in Nat : n = Len(parts)
      BY <2>2
    <3>2. PICK S : S = {parts[l] : l \in 1 .. Len(parts)}
      OBVIOUS
    <3>3. parts = [l \in 1 .. n |-> parts[l]]
      BY ONLY <2>1, <3>1
    <3>4. \A l \in 1 .. n : parts[l] \in S
      BY <3>1, <3>2
    <3>5. parts \in [1 .. n -> S]
      BY ONLY <3>3, <3>4
    <3>6. parts \in Seq(S)
      BY <3>5
    <3>7. QED
      BY ONLY <3>2, <3>6
  <2>5. QED
    BY ONLY <2>1, <2>2, <2>3, <2>4
<1>0. PICK K \in Nat : K = Len(parts)
  BY <1>2
<1>3b. PICK c, levels :
        /\ c = Least({Len(parts) + 1} \cup {l \in DOMAIN parts : BasicLookup(parts[l], o) = 0})
        /\ levels = IF c <= Len(parts) THEN parts ELSE Grown(parts)
  OBVIOUS
<1>3. /\ K = Len(parts)
      /\ c = Least({Len(parts) + 1} \cup {l \in DOMAIN parts : BasicLookup(parts[l], o) = 0})
      /\ levels = IF c <= Len(parts) THEN parts ELSE Grown(parts)
  BY <1>0, <1>3b
<1>4. /\ c <= Len(hashers) /\ net' = [net EXCEPT ![o] = @ + 1]
      /\ parts' = [l \in DOMAIN levels |-> IF l < c THEN BasicRemove(levels[l], o)
                                           ELSE IF l = c THEN BasicAdd(levels[l], o) ELSE levels[l]]
  BY <1>3 DEF AddBitwise, Counted
<1>5. c \in 1 .. K + 1 /\ c \in Nat
      /\ (c <= K => BasicLookup(parts[c], o) = 0)
      /\ \A l \in 1 .. K : l < c => BasicLookup(parts[l], o) = 1
  <2> DEFINE S == {K + 1} \cup {l \in 1 .. K : BasicLookup(parts[l], o) = 0}
  <2>1. S \in SUBSET Nat /\ S # {}
    OBVIOUS
  <2>2. c \in S /\ \A x \in S : c <= x
    <3>1. c = Least(S)
      BY <1>2, <1>3
    <3> HIDE DEF S
    <3>2. QED
      BY <2>1, <3>1, LeastIs
  <2>3. \A l \in 1 .. K : l < c => BasicLookup(parts[l], o) # 0
    BY <2>2
  <2>4. \A l \in 1 .. K : l < c => BasicLookup(parts[l], o) = 1
    BY <2>3 DEF BasicLookup
  <2>5. QED
    BY <2>2, <2>4
<1>6. PICK J \in Nat : J = IF c <= K THEN K ELSE K + 1
  OBVIOUS
<1>7. J \in 1 .. Len(hashers) /\ J \in {K, K + 1} /\ c \in 1 .. J
  <2>1. PICK M \in Nat : M = Len(hashers)
    BY <1>1
  <2>2. K \in 1 .. M /\ c <= M
    BY <1>2, <1>3, <1>4, <2>1
  <2>3. J \in 1 .. M /\ J \in {K, K + 1} /\ c \in 1 .. J
    BY <1>5, <1>6, <2>2
  <2>4. QED
    BY <2>1, <2>3
<1>8. /\ DOMAIN levels = 1 .. J
      /\ \A l \in 1 .. K : levels[l] = parts[l]
      /\ \A l \in 1 .. J : levels[l] = [hasher |-> hashers[l], bits |-> levels[l].bits]
      /\ J = K + 1 => levels[K + 1].bits = {}
  <2>1. CASE c <= K
    <3>1. J = K /\ levels = parts
      BY <1>3, <1>6, <2>1
    <3>2. DOMAIN levels = 1 .. J /\ \A l \in 1 .. K : levels[l] = parts[l]
      BY <1>2, <1>3, <3>1
    <3>3. \A l \in 1 .. J : levels[l] = [hasher |-> hashers[l], bits |-> levels[l].bits]
      BY <1>2, <1>3, <3>1
    <3>4. ~(J = K + 1)
      BY <3>1
    <3>5. QED
      BY <3>2, <3>3, <3>4
  <2>2. CASE ~(c <= K)
    <3>1. J = K + 1 /\ levels = Append(parts, EmptyBits(hashers[K + 1]))
      BY <1>3, <1>6, <2>2 DEF Grown
    <3>2. parts \in Seq({parts[l] : l \in 1 .. K}) /\ Len(parts) = K
      BY <1>2, <1>3
    <3>3. /\ DOMAIN levels = 1 .. K + 1 /\ levels[K + 1] = EmptyBits(hashers[K + 1])
          /\ \A l \in 1 .. K : levels[l] = parts[l]
      BY <1>3, <3>1, <3>2
    <3>4. \A l \in 1 .. K : levels[l] = [hasher |-> hashers[l], bits |-> levels[l].bits]
      BY <1>2, <1>3, <3>3
    <3>5. EmptyBits(hashers[K + 1]) = [hasher |-> hashers[K + 1], bits |-> {}]
      BY DEF EmptyBits
    <3>6. levels[K + 1] = [hasher |-> hashers[K + 1], bits |-> levels[K + 1].bits]
          /\ levels[K + 1].bits = {}
      BY <3>3, <3>5
    <3>7. \A l \in 1 .. J : l \in 1 .. K \/ l = K + 1
      BY <3>1
    <3>8. QED
      BY <3>1, <3>3, <3>4, <3>6, <3>7
  <2>3. QED
    BY <2>1, <2>2
<1>9. DOMAIN parts' = 1 .. J /\ Len(parts') = J
  <2>1. parts' \in [1 .. J -> {parts'[l] : l \in 1 .. J}]
    BY <1>4, <1>8
  <2>2. QED
    BY <2>1
<1>10. ASSUME NEW l \in 1 .. J
       PROVE  /\ parts'[l] = [hasher |-> hashers[l], bits |-> parts'[l].bits]
              /\ parts'[l].bits = IF l < c THEN levels[l].bits \ hashers[l][o]
                                  ELSE IF l = c THEN levels[l].bits \cup hashers[l][o]
                                  ELSE levels[l].bits
  <2>1. parts'[l] = IF l < c THEN BasicRemove(levels[l], o)
                    ELSE IF l = c THEN BasicAdd(levels[l], o) ELSE levels[l]
    BY <1>4, <1>8
  <2>2. PICK b : b = levels[l].bits
    OBVIOUS
  <2>3. levels[l] = [hasher |-> hashers[l], bits |-> b]
    BY <1>8, <2>2
  <2>4. /\ BasicRemove(levels[l], o) = [hasher |-> hashers[l], bits |-> b \ hashers[l][o]]
        /\ BasicAdd(levels[l], o) = [hasher |-> hashers[l], bits |-> b \cup hashers[l][o]]
    BY <2>3 DEF BasicRemove, BasicAdd
  <2>5. PICK b2 : b2 = IF l < c THEN b \ hashers[l][o]
                       ELSE IF l = c THEN b \cup hashers[l][o] ELSE b
    OBVIOUS
  <2>6. parts'[l] = [hasher |-> hashers[l], bits |-> b2]
    BY <2>1, <2>3, <2>4, <2>5
  <2>7. parts'[l].bits = b2
    BY <2>6
  <2>8. QED
    BY <2>2, <2>5, <2>6, <2>7
<1>11. ASSUME NEW p \in Object, NEW l \in 1 .. J
       PROVE  /\ BasicLookup(levels[l], p) = IF hashers[l][p] \subseteq levels[l].bits THEN 1 ELSE 0
              /\ BasicLookup(parts'[l], p) = IF hashers[l][p] \subseteq parts'[l].bits THEN 1 ELSE 0
              /\ l \in DOMAIN hashers
  <2>1. levels[l].hasher = hashers[l] /\ parts'[l].hasher = hashers[l]
    <3>1. levels[l] = [hasher |-> hashers[l], bits |-> levels[l].bits]
      BY <1>8
    <3>2. parts'[l] = [hasher |-> hashers[l], bits |-> parts'[l].bits]
      BY <1>10
    <3>3. QED
      BY <3>1, <3>2
  <2>2. l \in DOMAIN hashers
    BY <1>1, <1>7
  <2>3. QED
    BY <2>1, <2>2 DEF BasicLookup
<1>12. ASSUME NEW p \in Object
       PROVE  /\ Levels(parts, p) \in [1 .. K -> 0 .. 1] /\ Levels(parts', p) \in [1 .. J -> 0 .. 1]
              /\ \A l \in 1 .. K : Levels(parts, p)[l] = BasicLookup(levels[l], p)
              /\ \A l \in 1 .. J : Levels(parts', p)[l] = BasicLookup(parts'[l], p)
              /\ \A l \in 1 .. J : BasicLookup(levels[l], p) \in 0 .. 1
              /\ J = K + 1 => BasicLookup(levels[K + 1], p) = 0
  <2>1. J = K + 1 => BasicLookup(levels[K + 1], p) = 0
    <3> SUFFICES ASSUME J = K + 1 PROVE BasicLookup(levels[K + 1], p) = 0
      OBVIOUS
    <3>1. K + 1 \in 1 .. J
      OBVIOUS
    <3>2. hashers[K + 1][p] # {} /\ levels[K + 1].bits = {}
      BY <1>1, <1>8, <1>11, <3>1
    <3>3. QED
      BY <1>11, <3>1, <3>2
  <2>2. ASSUME NEW f PROVE BasicLookup(f, p) \in 0 .. 1
    BY DEF BasicLookup
  <2>3. /\ Levels(parts, p) = [l \in 1 .. K |-> BasicLookup(parts[l], p)]
        /\ Levels(parts', p) = [l \in 1 .. J |-> BasicLookup(parts'[l], p)]
    BY <1>3, <1>9 DEF Levels
  <2>4. QED
    BY <1>8, <2>1, <2>2, <2>3
<1>13. ASSUME NEW p \in Object
       PROVE  \E F, G : /\ IsValue(Levels(parts, p), K, F) /\ LookupBitwise(p) = F[1]
                        /\ IsValue(Levels(parts', p), J, G) /\ LookupBitwise(p)' = G[1]
  <2>1. \E F : IsValue(Levels(parts, p), K, F) /\ LookupBitwise(p) = F[1]
    BY <1>3, LookupIsTheValue DEF LookupIsValue
  <2>2. LookupIsValue'
    BY LookupIsTheValue, PTL
  <2>3. \E G : IsValue(Levels(parts', p), J, G) /\ LookupBitwise(p)' = G[1]
    BY <1>9, <2>2 DEF LookupIsValue
  <2>4. QED
    BY <2>1, <2>3
<1>14. ASSUME NEW p \in Object, OwnsAllCells(p)
       PROVE  LookupBitwise(p)' = net'[p]
  <2>1. PICK F, G : /\ IsValue(Levels(parts, p), K, F) /\ LookupBitwise(p) = F[1]
                    /\ IsValue(Levels(parts', p), J, G) /\ LookupBitwise(p)' = G[1]
    BY <1>13
  <2>2. PICK w \in [1 .. K -> 0 .. 1], v \in [1 .. J -> 0 .. 1] :
          w = Levels(parts, p) /\ v = Levels(parts', p)
    BY <1>12
  <2>3. /\ \A l \in 1 .. K : w[l] = BasicLookup(levels[l], p)
        /\ \A l \in 1 .. J : v[l] = BasicLookup(parts'[l], p)
    BY <1>12, <2>2
  <2>4. F[1] = net[p] /\ 1 \in 1 .. K + 1
    BY <1>2, <1>14, <2>1
  <2>5. CASE p # o
    <3>1. ASSUME NEW l \in 1 .. J PROVE BasicLookup(parts'[l], p) = BasicLookup(levels[l], p)
      <4>1. \A i \in hashers[l][p] : i \notin hashers[l][o]
        BY <1>11, <1>14, <2>5 DEF OwnsAllCells, OwnsCell, Indices
      <4>2. hashers[l][p] \subseteq parts'[l].bits <=> hashers[l][p] \subseteq levels[l].bits
        BY <1>10, <4>1
      <4>3. QED
        BY <1>11, <4>2
    <3>2. /\ \A l \in 1 .. K : v[l] = w[l]
          /\ J = K + 1 => v[K + 1] = 0
      BY <1>7, <1>12, <2>3, <3>1
    <3>3. \A l \in 1 .. K + 1 : G[l] = F[l]
      <4>1. IsValue(w, K, F) /\ IsValue(v, J, G) /\ J \in {K, K + 1}
        BY <1>7, <2>1, <2>2
      <4>2. ZeroOnTop(w, K, v, J)
        BY <3>2, <4>1 DEF ZeroOnTop
      <4>3. QED
        BY <4>1, <4>2, ValueWithZero
    <3>4. net'[p] = net[p]
      BY <1>2, <1>4, <2>5
    <3>5. QED
      BY <2>1, <2>4, <3>3, <3>4
  <2>6. CASE p = o
    <3>1. PICK x \in [1 .. J -> 0 .. 1] : \A l \in 1 .. J : x[l] = BasicLookup(levels[l], p)
      <4>1. [l \in 1 .. J |-> BasicLookup(levels[l], p)] \in [1 .. J -> 0 .. 1]
        BY <1>12
      <4>2. QED
        BY <4>1
    <3>2. PICK H : IsValue(x, J, H)
      BY ValueExists
    <3>3. H[1] = F[1]
      <4>1. /\ \A l \in 1 .. K : x[l] = w[l]
            /\ J = K + 1 => x[K + 1] = 0
        <5>1. \A l \in 1 .. K : l \in 1 .. J
          BY <1>7
        <5>2. J = K + 1 => K + 1 \in 1 .. J
          OBVIOUS
        <5>3. QED
          BY <1>12, <2>3, <3>1, <5>1, <5>2
      <4>2. IsValue(w, K, F) /\ J \in {K, K + 1}
        BY <1>7, <2>1, <2>2
      <4>3. ZeroOnTop(w, K, x, J)
        BY <4>1, <4>2 DEF ZeroOnTop
      <4>4. \A l \in 1 .. K + 1 : H[l] = F[l]
        BY <3>2, <4>2, <4>3, ValueWithZero
      <4>5. QED
        BY <2>4, <4>4
    <3>4. x[c] = 0
      BY <1>5, <1>6, <1>7, <1>8, <1>12, <2>6, <3>1
    <3>5. ASSUME NEW l \in 1 .. J, l < c PROVE x[l] = 1 /\ v[l] = 0
      <4>1. l \in 1 .. K
        BY <1>5, <3>5
      <4>2. x[l] = 1
        BY <1>5, <1>8, <2>6, <3>1, <3>5, <4>1
      <4>3. hashers[l][p] # {}
        BY <1>1, <1>11
      <4>4. ~(hashers[l][p] \subseteq parts'[l].bits)
        BY <1>10, <2>6, <3>5, <4>3
      <4>5. QED
        BY <1>11, <2>3, <4>2, <4>4
    <3>6. v[c] = 1
      <4>1. parts'[c].bits = levels[c].bits \cup hashers[c][o]
        <5>1. PICK l \in 1 .. J : l = c
          BY <1>7
        <5>2. ~(l < c)
          BY <1>5, <5>1
        <5>3. QED
          BY <1>10, <5>1, <5>2
      <4>2. hashers[c][p] \subseteq parts'[c].bits
        BY <2>6, <4>1
      <4>3. QED
        BY <1>7, <1>11, <2>3, <4>2
    <3>7. ASSUME NEW l \in 1 .. J, l > c PROVE v[l] = x[l]
      <4>1. parts'[l].bits = levels[l].bits
        <5>1. ~(l < c) /\ l # c
          BY <1>5, <3>7
        <5>2. QED
          BY <1>10, <5>1
      <4>2. QED
        BY <1>11, <2>3, <3>1, <4>1
    <3>8. G[1] = H[1] + 1
      <4>1. \A l \in 1 .. J : l < c => x[l] = 1 /\ v[l] = 0
        BY <3>5
      <4>2. \A l \in 1 .. J : l > c => v[l] = x[l]
        BY <3>7
      <4>3. IsValue(v, J, G)
        BY <2>1, <2>2
      <4>4. c \in 1 .. J
        BY <1>7
      <4>5. CarriesInto(J, x, v, c)
        BY <3>4, <3>6, <4>1, <4>2 DEF CarriesInto
      <4>6. QED
        BY <3>2, <4>3, <4>4, <4>5, ValuePlusOne
    <3>9. net'[p] = net[p] + 1
      BY <1>2, <1>4, <2>6
    <3>10. QED
      BY <2>1, <2>4, <3>3, <3>8, <3>9
  <2>7. QED
    BY <2>5, <2>6
<1>15. net' \in [Object -> Int]
  BY <1>2, <1>4
<1>16. \A p \in Object : OwnsAllCells(p)' => OwnsAllCells(p)
  BY DEF OwnsAllCells, Indices
<1>17. parts' = [l \in 1 .. J |-> [hasher |-> hashers[l], bits |-> parts'[l].bits]]
  <2>1. PICK g : g = [l \in 1 .. J |-> [hasher |-> hashers[l], bits |-> parts'[l].bits]]
    OBVIOUS
  <2>2. \A l \in 1 .. J : parts'[l] = g[l]
    BY <1>10, <2>1
  <2>3. parts' = [l \in 1 .. J |-> parts'[l]] /\ g = [l \in 1 .. J |-> g[l]]
    BY <1>4, <1>9, <2>1
  <2>4. QED
    BY <2>1, <2>2, <2>3
<1>18. QED
  BY <1>7, <1>9, <1>14, <1>15, <1>16, <1>17 DEF BitwiseInv

-----------------------------------------------------------------------------
(* Every call keeps the invariant                                          *)

LEMMA AddHolds ==
  ASSUME HashersFit, FilterInv, ~misused, NEW o \in Object, Add(o)
  PROVE  FilterInv'
<1>1. /\ kind \in DOMAIN Hashers /\ hashers \in Hashers[kind]
      /\ kind' = kind /\ hashers' = hashers
  BY DEF FilterInv, Add
<1>2. kind' \in DOMAIN Hashers /\ hashers' \in Hashers[kind']
  BY <1>1
<1>3. CASE AddCounting(o)
  <2>1. kind = "counting" /\ CountingInv
    BY <1>3 DEF FilterInv, AddCounting
  <2>2. PICK c : c = Incremented(parts[1], Indices(1, o), 1)
    OBVIOUS
  <2>3. parts' = <<c>> /\ parts'[1] = c /\ parts' = <<parts'[1]>>
    <3>1. parts' = <<c>>
      BY <1>3, <2>2 DEF AddCounting
    <3>2. QED
      BY <3>1
  <2>4. /\ net' = [net EXCEPT ![o] = @ + 1]
        /\ saturated' = (saturated \/ Overflows(parts[1], hashers[1][o], 1))
        /\ parts'[1] = Incremented(parts[1], hashers[1][o], 1)
    BY <1>3, <2>2, <2>3 DEF AddCounting, Counted, Indices
  <2>5. saturated \in BOOLEAN
    BY <2>1 DEF CountingInv
  <2>6. saturated' \in BOOLEAN /\ (saturated => saturated')
        /\ (Overflows(parts[1], hashers[1][o], 1) => saturated')
    BY <2>4, <2>5 DEF Overflows
  <2>7. CountingInv'
    BY <1>1, <2>1, <2>4, <2>6, CountingAdds
  <2>8. QED
    BY <1>1, <1>2, <2>1, <2>3, <2>7 DEF FilterInv
<1>4. CASE AddMi(o)
  <2>1. kind = "mi" /\ MiInv
    BY <1>4 DEF FilterInv, AddMi
  <2>2. MiInv'
    BY <1>1, <1>4, <2>1, MiAdds
  <2>3. QED
    BY <1>1, <1>2, <2>1, <2>2 DEF FilterInv
<1>5. CASE AddRm(o)
  <2>1. kind = "rm" /\ RmInv
    BY <1>5 DEF FilterInv, AddRm
  <2>2. RmInv'
    BY <1>1, <1>5, <2>1, RmAdds
  <2>3. QED
    BY <1>1, <1>2, <2>1, <2>2 DEF FilterInv
<1>6. CASE AddStable(o)
  <2>1. kind = "stable" /\ StableInv
    BY <1>6 DEF FilterInv, AddStable
  <2>2. StableInv'
    BY <1>1, <1>6, <2>1, StableAdds
  <2>3. QED
    BY <1>1, <1>2, <2>1, <2>2 DEF FilterInv
<1>7. CASE AddBitwise(o)
  <2>1. kind = "bitwise" /\ BitwiseInv
    BY <1>7 DEF FilterInv, AddBitwise
  <2>2. BitwiseInv'
    BY <1>1, <1>7, <2>1, BitwiseAdds
  <2>3. QED
    BY <1>1, <1>2, <2>1, <2>2 DEF FilterInv
<1>8. CASE AddA2(o)
  <2>1. kind = "a2" /\ A2Inv
    BY <1>8 DEF FilterInv, AddA2
  <2>2. A2Inv'
    BY <1>1, <1>8, <2>1, A2Adds
  <2>3. QED
    BY <1>1, <1>2, <2>1, <2>2 DEF FilterInv
<1>9. QED
  BY <1>3, <1>4, <1>5, <1>6, <1>7, <1>8 DEF Add

(* What a remove may break, it calls misused. *)
LEMMA RemoveHolds ==
  ASSUME HashersFit, FilterInv, ~misused, NEW o \in Object, Remove(o)
  PROVE  FilterInv'
<1>1. /\ kind \in DOMAIN Hashers /\ hashers \in Hashers[kind]
      /\ kind' = kind /\ hashers' = hashers
      /\ UNCHANGED saturated /\ net' = [net EXCEPT ![o] = @ - 1]
  BY DEF FilterInv, Remove
<1>2. kind' \in DOMAIN Hashers /\ hashers' \in Hashers[kind']
  BY <1>1
<1>3. CASE misused'
  BY <1>2, <1>3 DEF FilterInv
<1>4. CASE ~misused'
  <2>1. ~saturated /\ ~(net[o] <= 0) /\ kind \notin {"mi", "stable"}
    BY <1>4 DEF Remove
  <2>2. CASE RemoveCounting(o)
    <3>1. kind = "counting" /\ CountingInv
      BY <2>1, <2>2 DEF FilterInv, RemoveCounting
    <3>2. net[o] > 0
      <4>1. net[o] \in Nat
        BY <3>1 DEF CountingInv
      <4>2. QED
        BY <2>1, <4>1
    <3>3. PICK c : c = Decremented(parts[1], Indices(1, o))
      OBVIOUS
    <3>4. parts' = <<c>>
      BY <2>2, <3>3 DEF RemoveCounting, RemoveFirst
    <3>5. parts'[1] = c /\ parts' = <<parts'[1]>>
      BY <3>4
    <3>6. parts'[1] = Decremented(parts[1], hashers[1][o])
      BY <3>3, <3>5 DEF Indices
    <3>7. CountingInv'
      BY <1>1, <2>1, <3>1, <3>2, <3>6, CountingRemoves
    <3>8. QED
      BY <1>1, <1>2, <3>1, <3>5, <3>7 DEF FilterInv
  <2>3. CASE RemoveRm(o)
    <3>1. kind = "rm" /\ RmInv
      BY <2>3 DEF FilterInv, RemoveRm
    <3>2. net[o] > 0
      <4>1. net[o] \in Nat
        BY <3>1 DEF RmInv, CountingInv
      <4>2. QED
        BY <2>1, <4>1
    <3>3. RmInv'
      BY <1>1, <2>1, <2>3, <3>1, <3>2, RmRemoves
    <3>4. QED
      BY <1>1, <1>2, <3>1, <3>3 DEF FilterInv
  <2>4. QED
    BY <2>2, <2>3 DEF Remove
<1>5. QED
  BY <1>3, <1>4

LEMMA ClearHolds ==
  ASSUME HashersFit, FilterInv, ~misused, ClearFilter
  PROVE  FilterInv'
<1>1. /\ kind \in DOMAIN Hashers /\ hashers \in Hashers[kind]
      /\ kind' = kind /\ hashers' = hashers /\ items' = items
      /\ net' = [o \in Object |-> 0] /\ age' = [o \in Object |-> -1]
      /\ saturated' = FALSE
  BY DEF FilterInv, ClearFilter
<1>2. CASE ClearA2
  <2>1. kind = "a2" /\ A2Inv
    BY <1>2 DEF FilterInv, ClearA2
  <2>2. A2Inv'
    BY <1>1, <1>2, <2>1, A2Clears
  <2>3. QED
    BY <1>1, <2>1, <2>2 DEF FilterInv
<1>3. CASE kind # "a2" /\ parts' = Fresh(kind, hashers)
  <2>1. parts' = Fresh(kind, hashers)'
    BY <1>1, <1>3 DEF Fresh
  <2>2. Empty'
    BY <1>1, <1>3, <2>1 DEF Empty
  <2>3. QED
    BY <2>2, EmptyHolds, PTL
<1>4. QED
  BY <1>2, <1>3 DEF ClearFilter

LEMMA FilterInvHolds == FilterSpec => []FilterInv
<1>0. HashersFit
  BY FilterAssumption
<1>1. FilterInit => FilterInv
  BY <1>0, EmptyHolds DEF FilterInit, Empty
<1>2. FilterInv /\ [FilterNext]_filterVars => FilterInv'
  <2> SUFFICES ASSUME FilterInv, [FilterNext]_filterVars PROVE FilterInv'
    OBVIOUS
  <2>1. CASE FilterNext
    BY <1>0, <2>1, AddHolds, RemoveHolds, ClearHolds DEF FilterNext
  <2>2. CASE UNCHANGED filterVars
    <3>1. UNCHANGED <<kind, hashers, parts, items, net, age, saturated, misused>>
      BY <2>2 DEF filterVars
    <3>2. /\ CountingInv' <=> CountingInv
          /\ MiInv' <=> MiInv
          /\ StableInv' <=> StableInv
      BY <3>1 DEF CountingInv, MiInv, StableInv, Indices
    <3>3. RmInv' <=> RmInv
      BY <3>1, <3>2 DEF RmInv, OwnsAllCells, Indices
    <3>4. A2Inv' <=> A2Inv
      BY <3>1 DEF A2Inv, Filter
    <3>5. \A o \in Object : LookupBitwise(o)' = LookupBitwise(o)
      BY <3>1, Zenon DEF LookupBitwise
    <3>6. \A o \in Object : OwnsAllCells(o)' <=> OwnsAllCells(o)
      BY <3>1 DEF OwnsAllCells, Indices
    <3>7. BitwiseInv' <=> BitwiseInv
      BY <3>1, <3>5, <3>6 DEF BitwiseInv
    <3>8. QED
      BY <3>1, <3>2, <3>3, <3>4, <3>7 DEF FilterInv
  <2>3. QED
    BY <2>1, <2>2
<1>3. QED
  BY <1>1, <1>2, PTL DEF FilterSpec

-----------------------------------------------------------------------------
(* What a lookup promises                                                  *)

LEMMA CountsInInvariant == HashersFit /\ FilterInv => CountsHold
<1> SUFFICES ASSUME HashersFit, FilterInv, kind \in {"counting", "mi", "rm", "bitwise"}, ~misused,
                    NEW o \in Object, NEW most,
                    most = IF kind = "bitwise" THEN net[o] ELSE Least({Max, net[o]})
             PROVE  /\ kind \in {"counting", "mi"} => Lookup(o) >= most
                    /\ kind = "rm" => Lookup(o) >= Least({1, net[o]})
                    /\ OwnsItsCells(o) => Lookup(o) = most
  BY DEF CountsHold
<1>1. /\ IsFiniteSet(Object) /\ Max \in Nat /\ Max > 0
      /\ 1 \in DOMAIN hashers /\ (kind = "rm" => 2 \in DOMAIN hashers)
      /\ \A l \in DOMAIN hashers :
           IsFiniteSet(hashers[l][o]) /\ hashers[l][o] # {} /\ hashers[l][o] \subseteq CellsOf(hashers[l])
  BY HashFacts DEF FilterInv
<1>2. CASE kind = "counting"
  <2>1. /\ net \in [Object -> Nat] /\ IsCount(parts[1], hashers[1], net)
    BY <1>2 DEF FilterInv, CountingInv
  <2>2. Lookup(o) = FindMinimum(parts[1], hashers[1][o])
    BY <1>2 DEF Lookup, LookupCounting, Indices
  <2>3. most = Least({Max, net[o]})
    BY <1>2
  <2>4. /\ FindMinimum(parts[1], hashers[1][o]) >= Least({Max, net[o]})
        /\ (\E i \in hashers[1][o] : OwnsCell(hashers[1], o, i)) =>
             FindMinimum(parts[1], hashers[1][o]) = Least({Max, net[o]})
    BY <1>1, <2>1, CountIsEnough
  <2>5. OwnsItsCells(o) => \E i \in hashers[1][o] : OwnsCell(hashers[1], o, i)
    BY <1>2 DEF OwnsItsCells, Indices
  <2>6. QED
    BY <1>2, <2>2, <2>3, <2>4, <2>5
<1>3. CASE kind = "mi"
  <2>1. net \in [Object -> Nat] /\ parts[1] \in [CellsOf(hashers[1]) -> 0 .. Max]
        /\ \A i \in hashers[1][o] :
             /\ parts[1][i] >= Least({Max, net[o]})
             /\ OwnsCell(hashers[1], o, i) => parts[1][i] <= net[o]
    BY <1>1, <1>3 DEF FilterInv, MiInv, Cells, Indices
  <2>2. PICK m : m = FindMinimum(parts[1], hashers[1][o])
    OBVIOUS
  <2>3. /\ m \in 0 .. Max /\ \A i \in hashers[1][o] : m <= parts[1][i]
        /\ \E i \in hashers[1][o] : m = parts[1][i]
    BY <1>1, <2>1, <2>2, MinimumIs
  <2>4. Lookup(o) = m
    BY <1>3, <2>2 DEF Lookup, LookupCounting, Indices
  <2>5. most = Least({Max, net[o]}) /\ most = IF Max <= net[o] THEN Max ELSE net[o]
    BY <1>1, <1>3, <2>1, LeastOfTwo
  <2>6. m >= most
    BY <2>1, <2>3, <2>5
  <2>7. ASSUME OwnsItsCells(o) PROVE m = most
    <3>1. PICK i \in hashers[1][o] : OwnsCell(hashers[1], o, i)
      BY <1>3, <2>7 DEF OwnsItsCells, Indices
    <3>2. m <= parts[1][i] /\ parts[1][i] <= net[o] /\ parts[1][i] \in 0 .. Max
      BY <1>1, <2>1, <2>3, <3>1
    <3>3. QED
      BY <1>1, <2>1, <2>3, <2>5, <2>6, <3>2
  <2>8. QED
    BY <1>3, <2>4, <2>6, <2>7
<1>4. CASE kind = "rm"
  <2>1. /\ net \in [Object -> Nat] /\ IsCount(parts[1], hashers[1], net)
        /\ parts[1] \in [CellsOf(hashers[1]) -> 0 .. Max]
        /\ parts[2] \in [CellsOf(hashers[2]) -> 0 .. Max]
        /\ OwnsAllCells(o) /\ Cardinality(hashers[1][o]) = 1 =>
             \A j \in hashers[2][o] : parts[2][j] = Least({Max, net[o]})
    BY <1>4 DEF FilterInv, RmInv, CountingInv, IsCount, Cells, Indices
  <2>2. PICK min1, min2, is1, minima :
          /\ min1 = FindMinimum(parts[1], hashers[1][o])
          /\ min2 = FindMinimum(parts[2], hashers[2][o])
          /\ is1 = hashers[1][o] /\ minima = FindMinima(parts[1], is1)
    OBVIOUS
  <2>3. Lookup(o) = IF Cardinality(minima) = 1 /\ min2 > 0 THEN min2 ELSE min1
    BY <1>4, <2>2 DEF Lookup, LookupRm, Indices
  <2>4. most = Least({Max, net[o]}) /\ most = IF Max <= net[o] THEN Max ELSE net[o]
    BY <1>1, <1>4, <2>1, LeastOfTwo
  <2>5. /\ min1 >= most /\ min1 \in 0 .. Max
        /\ \A i \in is1 : OwnsCell(hashers[1], o, i) => parts[1][i] = most
        /\ (\E i \in is1 : OwnsCell(hashers[1], o, i)) => min1 = most
    BY <1>1, <2>1, <2>2, <2>4, CountIsEnough
  <2>6. min2 \in 0 .. Max /\ \E j \in hashers[2][o] : min2 = parts[2][j]
    <3>1. hashers[2][o] # {} /\ hashers[2][o] \in SUBSET CellsOf(hashers[2])
      BY <1>1, <1>4
    <3>2. QED
      BY <1>1, <2>1, <2>2, <3>1, MinimumIs
  <2>7. Least({1, net[o]}) = IF 1 <= net[o] THEN 1 ELSE net[o]
    BY <2>1, LeastOfTwo
  <2>8. Lookup(o) >= Least({1, net[o]})
    <3>1. net[o] \in Nat
      BY <2>1
    <3>2. CASE Cardinality(minima) = 1 /\ min2 > 0
      BY <2>3, <2>6, <2>7, <3>1, <3>2
    <3>3. CASE ~(Cardinality(minima) = 1 /\ min2 > 0)
      <4>1. Lookup(o) = min1
        BY <2>3, <3>3
      <4>0. PICK k \in Nat : k = net[o]
        BY <3>1
      <4>1a. PICK l1 : l1 = Least({1, net[o]})
        OBVIOUS
      <4>2. k = net[o] /\ l1 = Least({1, net[o]})
        BY <4>0, <4>1a
      <4>3. min1 >= (IF Max <= k THEN Max ELSE k) /\ l1 = IF 1 <= k THEN 1 ELSE k
        BY <2>4, <2>5, <2>7, <4>2
      <4>4. min1 >= l1
        BY ONLY <1>1, <2>5, <4>3, k \in Nat
      <4>5. QED
        BY <4>1, <4>2, <4>4
    <3>4. QED
      BY <3>2, <3>3
  <2>9. ASSUME OwnsItsCells(o) PROVE Lookup(o) = most
    <3>1. OwnsAllCells(o) /\ \A i \in is1 : OwnsCell(hashers[1], o, i)
      <4>1. OwnsAllCells(o)
        BY <1>4, <2>9 DEF OwnsItsCells, OwnsAllCells
      <4>2. QED
        BY <1>1, <2>2, <4>1 DEF OwnsAllCells, Indices
    <3>2. min1 = most /\ minima = is1
      <4>1. min1 = most /\ \A i \in is1 : parts[1][i] = most
        BY <1>1, <2>2, <2>5, <3>1
      <4>2. QED
        BY <2>2, <4>1 DEF FindMinima
    <3>3. Cardinality(minima) = 1 => min2 = most
      BY <2>1, <2>2, <2>4, <2>6, <3>1, <3>2
    <3>4. QED
      BY <2>3, <3>2, <3>3
  <2>10. QED
    BY <1>4, <2>8, <2>9
<1>5. CASE kind = "bitwise"
  <2>1. OwnsItsCells(o) => OwnsAllCells(o)
    BY <1>5 DEF OwnsItsCells, OwnsAllCells
  <2>2. Lookup(o) = LookupBitwise(o)
    BY <1>5 DEF Lookup
  <2>3. OwnsAllCells(o) => LookupBitwise(o) = net[o]
    BY <1>5 DEF FilterInv, BitwiseInv
  <2>4. QED
    BY <1>5, <2>1, <2>2, <2>3
<1>6. QED
  BY <1>2, <1>3, <1>4, <1>5

LEMMA RecentInInvariant == HashersFit /\ FilterInv => RecentlyAddedIsFound
<1> SUFFICES ASSUME HashersFit, FilterInv, ~misused, NEW o \in Object, age[o] >= 0
             PROVE  /\ kind = "stable" => Lookup(o) >= Max - age[o]
                    /\ kind = "a2" /\ age[o] <= Capacity => Lookup(o) = 1
  BY DEF RecentlyAddedIsFound
<1>1. /\ Max \in Nat /\ Max > 0 /\ Capacity \in Nat /\ 1 \in DOMAIN hashers
      /\ hashers[1][o] # {} /\ hashers[1][o] \subseteq CellsOf(hashers[1])
  BY HashFacts DEF FilterInv
<1>2. CASE kind = "stable"
  <2>1. /\ parts[1] \in [CellsOf(hashers[1]) -> 0 .. Max]
        /\ \A i \in hashers[1][o] : parts[1][i] >= Max - age[o]
    BY <1>1, <1>2 DEF FilterInv, StableInv, Cells, Indices
  <2>2. \E i \in hashers[1][o] : FindMinimum(parts[1], hashers[1][o]) = parts[1][i]
    BY <1>1, <2>1, MinimumIs
  <2>3. Lookup(o) = FindMinimum(parts[1], hashers[1][o])
    BY <1>2 DEF Lookup, LookupCounting, Indices
  <2>4. QED
    BY <1>2, <2>1, <2>2, <2>3
<1>3. CASE kind = "a2" /\ age[o] <= Capacity
  <2>1. /\ age[o] \in Int /\ items \in Nat /\ items > 0
        /\ age[o] < items + Capacity =>
             BasicLookup(parts[1], o) = 1 \/ BasicLookup(parts[2], o) = 1
    BY <1>3 DEF FilterInv, A2Inv
  <2>2. age[o] < items + Capacity
    BY <1>1, <1>3, <2>1
  <2>3. Lookup(o) = IF BasicLookup(parts[1], o) = 1 THEN 1 ELSE BasicLookup(parts[2], o)
    BY <1>3 DEF Lookup, LookupA2
  <2>4. QED
    BY <1>3, <2>1, <2>2, <2>3
<1>4. QED
  BY <1>2, <1>3

-----------------------------------------------------------------------------
(* What callers have added and not removed is not undercounted by a        *)
(* counting or minimal-increase filter, not lost by a recurring minimum,   *)
(* and counted exactly by these and the bitwise filter for an object that  *)
(* owns its cells (lookup in counting.cpp and bitwise.cpp).                *)
THEOREM CountsAreHeld == FilterSpec => []CountsHold
<1>1. FilterInv => CountsHold
  BY CountsInInvariant, FilterAssumption
<1>2. QED
  BY <1>1, FilterInvHolds, PTL

(* An object added lately is found, however many others were added and     *)
(* whatever cells the stable filter drew (stable.cpp and a2.cpp).          *)
THEOREM RecentIsFound == FilterSpec => []RecentlyAddedIsFound
<1>1. FilterInv => RecentlyAddedIsFound
  BY RecentInInvariant, FilterAssumption
<1>2. QED
  BY <1>1, FilterInvHolds, PTL
=============================================================================
