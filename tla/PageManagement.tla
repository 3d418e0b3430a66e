--------------------------- MODULE PageManagement ---------------------------
(***************************************************************************)
(* PageManagement (src/utils): items are appended to fixed-size memory     *)
(* pages, one key per page, and Write2Disk spills full pages to an SSD.    *)
(* index_ remembers the pages of a key, used_page_ the one it fills.       *)
(*                                                                         *)
(* The free and used queues are boost lock-free queues whose pop result is *)
(* ignored: a pop from an empty queue leaves an uninitialised pointer to   *)
(* be dereferenced.  The model stops there, with the reason in `fault`.    *)
(* An item holds a row id and 32 bytes; keys and values have that length,  *)
(* which Set and Scan rely on.                                             *)
(* A call works through its items or its batch step by step; the class is  *)
(* used by one thread, so no other call starts meanwhile.                  *)
(***************************************************************************)
EXTENDS Integers, Sequences, FiniteSets, Functions

CONSTANTS
  Key,         \* keys that items are stored under
  NumPages,    \* mpage_num_
  PageItems,   \* page_item_size_, items that fill a page
  Batch,       \* write_batch_size_
  BufferPages, \* pages that fit into buf_
  Counts,      \* numbers of items a call of Set may bring
  Positional,  \* the keys stored with the Set that numbers the items itself
  ValuesFor    \* key -> the values a caller stores under it; Get looks for the key

ASSUME PageAssumption ==
  /\ NumPages \in Nat \ {0} /\ PageItems \in Nat \ {0} /\ Batch \in Nat
  /\ BufferPages \in Nat /\ Counts \subseteq Nat /\ Positional \subseteq Key

MemPage == 1 .. NumPages
(* InitPageMetaArray pushes mpage_num_ disk pages, not dpage_num_: the SSD *)
(* must be at least as large as the memory.                                *)
DiskPage == NumPages + 1 .. 2 * NumPages
Page == MemPage \cup DiskPage
Value == UNION {ValuesFor[k] : k \in Key}

VARIABLES
  mfree,    \* mfree_queue_
  mused,    \* mused_queue_
  dfree,    \* dfree_queue_
  rows,     \* page -> the row ids of its items; nalloc_ is their number
  values,   \* page -> the value_ of its items
  index,    \* index_: key -> its pages
  usedPage, \* used_page_: key -> the page being filled
  bufPages, \* buf_offset_, in pages: disk reads so far
  call,     \* the running call: its kind, its key, what it has left to do
  answer,   \* the rows the last Get returned, and its key
  given,    \* history: key -> number of items stored under it
  wanted,   \* history: key -> those of them whose value is the key
  fault     \* "none", or why the program is undefined from here on

(* What is stored, where, and what was asked to be stored. *)
stored == <<rows, values, given, wanted>>

vars == <<mfree, mused, dfree, stored, index, usedPage, bufPages, call, answer, fault>>

Idle == [kind |-> "idle", left |-> 0]
NoAnswer == [key |-> "none", rows |-> {}]

Init ==
  /\ mfree = [i \in MemPage |-> i] /\ mused = <<>>
  /\ dfree = [i \in MemPage |-> NumPages + i]
  /\ rows = [p \in Page |-> <<>>] /\ values = [p \in Page |-> <<>>]
  /\ index = <<>> /\ usedPage = <<>> /\ bufPages = 0
  /\ call = Idle /\ answer = NoAnswer
  /\ given = [k \in Key |-> 0] /\ wanted = [k \in Key |-> {}]
  /\ fault = "none"

IsFull(p) == Len(rows[p]) >= PageItems

(* m[k] = v of a std::map. *)
Put(m, k, v) == [l \in DOMAIN m \cup {k} |-> IF l = k THEN v ELSE m[l]]

(* What happens when a queue is popped empty. *)
Undefined(why) ==
  /\ fault' = why
  /\ UNCHANGED <<mfree, mused, dfree, stored, index, usedPage, bufPages, answer>>
-----------------------------------------------------------------------------
(* Both overloads of Set take a page the same way: for a new key, and      *)
(* whenever the page in use is full, before and between the items.         *)
NewPage(k) ==
  IF mfree = <<>> THEN Undefined("no free page")
  ELSE LET p == Head(mfree) IN
       /\ mfree' = Tail(mfree) /\ mused' = Append(mused, p)
       /\ usedPage' = Put(usedPage, k, p)
       /\ index' = Put(index, k, {p} \cup (IF k \in DOMAIN index THEN index[k] ELSE {}))
       /\ UNCHANGED <<dfree, stored, bufPages, answer, fault>>

Set(k, n) ==
  /\ call = Idle /\ fault = "none"
  /\ call' = IF n = 0 THEN Idle ELSE [kind |-> "set", left |-> n, key |-> k]
  /\ IF k \in DOMAIN index /\ ~IsFull(usedPage[k])
     THEN UNCHANGED <<mfree, mused, dfree, stored, index, usedPage, bufPages, answer, fault>>
     ELSE NewPage(k)

SetNextPage ==
  /\ call.kind = "set" /\ fault = "none"
  /\ IsFull(usedPage[call.key])
  /\ NewPage(call.key)
  /\ UNCHANGED call

(* WritableItem numbers the item by its place in the page; the overload    *)
(* for pairs then overwrites the number with the caller's row id.          *)
WritableItem(k) ==
  IF k \in Positional THEN Len(rows[usedPage[k]]) ELSE given[k]

(* The next item holds whatever value the caller's vector has there. *)
SetItem(v) ==
  /\ call.kind = "set" /\ fault = "none" /\ v \in ValuesFor[call.key]
  /\ ~IsFull(usedPage[call.key])
  /\ LET k == call.key
         p == usedPage[k] IN
       /\ rows' = [rows EXCEPT ![p] = Append(@, WritableItem(k))]
       /\ values' = [values EXCEPT ![p] = Append(@, v)]
       /\ given' = [given EXCEPT ![k] = @ + 1]
       /\ wanted' = [wanted EXCEPT ![k] = IF v = k THEN @ \cup {WritableItem(k)} ELSE @]
  /\ call' = IF call.left = 1 THEN Idle ELSE [call EXCEPT !.left = @ - 1]
  /\ UNCHANGED <<mfree, mused, dfree, index, usedPage, bufPages, answer, fault>>
-----------------------------------------------------------------------------
Write2Disk ==
  /\ call = Idle /\ fault = "none"
  /\ call' = [kind |-> "write", left |-> Batch]
  /\ UNCHANGED <<mfree, mused, dfree, stored, index, usedPage, bufPages, answer, fault>>

WriteDone ==
  /\ call.kind = "write" /\ call.left = 0 /\ fault = "none"
  /\ call' = Idle
  /\ UNCHANGED <<mfree, mused, dfree, stored, index, usedPage, bufPages, answer, fault>>

OwnerOf(p) == CHOOSE k \in DOMAIN index : p \in index[k]

(* Mutant of SpillPage: whatever page is next is written. *)
SpillPageEvenPartial ==
  /\ mused # <<>>
  /\ LET p == Head(mused)
         d == Head(dfree) IN
       /\ mused' = Tail(mused) /\ dfree' = Tail(dfree)
       /\ rows' = [rows EXCEPT ![d] = rows[p]]
       /\ values' = [values EXCEPT ![d] = values[p]]
       /\ index' = [index EXCEPT ![OwnerOf(p)] = (@ \ {p}) \cup {d}]
  /\ call' = [call EXCEPT !.left = @ - 1]
  /\ UNCHANGED <<mfree, usedPage, bufPages, answer, given, wanted, fault>>

(* A full page moves to the disk and its key's index with it.  The memory  *)
(* page does not go back to mfree_queue_.                                  *)
SpillPage ==
  /\ mused # <<>> /\ IsFull(Head(mused))
  /\ LET p == Head(mused)
         d == Head(dfree) IN
       /\ mused' = Tail(mused) /\ dfree' = Tail(dfree)
       /\ rows' = [rows EXCEPT ![d] = rows[p]]
       /\ values' = [values EXCEPT ![d] = values[p]]
       /\ index' = [index EXCEPT ![OwnerOf(p)] = (@ \ {p}) \cup {d}]
  /\ call' = [call EXCEPT !.left = @ - 1]
  /\ UNCHANGED <<mfree, usedPage, bufPages, answer, given, wanted, fault>>

(* pwrite writes less than a page: the call throws, with both pages popped.*)
SpillFails ==
  /\ mused # <<>> /\ IsFull(Head(mused))
  /\ mused' = Tail(mused) /\ dfree' = Tail(dfree)
  /\ call' = Idle
  /\ UNCHANGED <<mfree, stored, index, usedPage, bufPages, answer, fault>>

(* The next used page is not full: it goes to the back and the call ends.  *)
SpillStops ==
  /\ mused # <<>> /\ ~IsFull(Head(mused))
  /\ mused' = Append(Tail(mused), Head(mused))
  /\ call' = Idle
  /\ UNCHANGED <<mfree, dfree, stored, index, usedPage, bufPages, answer, fault>>

(* The queue of disk pages, whose pop is not checked either, outlasts it:  *)
(* see PagesHaveOneOwner.                                                  *)
SpillStarves == mused = <<>> /\ Undefined("no used page") /\ UNCHANGED call

WriteStep ==
  /\ call.kind = "write" /\ call.left > 0 /\ fault = "none"
  /\ SpillPage \/ SpillFails \/ SpillStops \/ SpillStarves
-----------------------------------------------------------------------------
RowsOf(pages) == UNION {Range(rows[p]) : p \in pages}

(* The places in a page whose item holds the key. *)
Matches(p, k) == {i \in DOMAIN values[p] : values[p][i] = k}

OnDisk(k) == index[k] \cap DiskPage

(* What the pointers of a Get lead to once it has returned.  A memory page *)
(* is read in place.  Each disk page is read into the first slot of buf_,  *)
(* but its items are looked for buf_offset_ further on, where, after the   *)
(* first read of all, only zeros are.  The items found in that first page  *)
(* are overwritten by the pages read after it.  std::set orders the disk   *)
(* pages by address, which is their number.                                *)
Scanned(k) ==
  LET first == CHOOSE d \in OnDisk(k) : \A e \in OnDisk(k) : d <= e
      last == CHOOSE d \in OnDisk(k) : \A e \in OnDisk(k) : e <= d
      inMemory == UNION {{rows[p][i] : i \in Matches(p, k)} : p \in index[k] \cap MemPage}
  IN inMemory \cup (IF OnDisk(k) # {} /\ bufPages = 0
                   THEN {rows[last][i] : i \in Matches(first, k)}
                   ELSE {})

(* Mutant of Get: it looks only at the page being filled. *)
GetUsedPage(k) ==
  /\ call = Idle /\ fault = "none"
  /\ k \in DOMAIN index
  /\ LET p == usedPage[k] IN
       answer' = [key |-> k, rows |-> {rows[p][i] : i \in Matches(p, k)}]
  /\ UNCHANGED <<mfree, mused, dfree, stored, index, usedPage, bufPages, call, fault>>

(* An unknown key is no change.  Behind the end of buf_ a read is undefined.*)
Get(k) ==
  /\ call = Idle /\ fault = "none"
  /\ k \in DOMAIN index
  /\ LET reads == Cardinality(OnDisk(k)) IN
       IF bufPages + reads > BufferPages
       THEN Undefined("behind the buffer")
       ELSE /\ bufPages' = bufPages + reads
            /\ answer' = [key |-> k, rows |-> Scanned(k)]
            /\ UNCHANGED <<mfree, mused, dfree, stored, index, usedPage, fault>>
  /\ UNCHANGED call

(* pread brings less than a page: GetPage gives no page, and Scan looks    *)
(* for the items of a spilled page, which is full, behind a null pointer.  *)
GetFails(k) ==
  /\ call = Idle /\ fault = "none"
  /\ k \in DOMAIN index /\ OnDisk(k) # {}
  /\ Undefined("short read")
  /\ UNCHANGED call

Next ==
  \/ \E k \in Key, n \in Counts : Set(k, n)
  \/ SetNextPage
  \/ \E v \in Value : SetItem(v)
  \/ Write2Disk
  \/ WriteStep
  \/ WriteDone
  \/ \E k \in Key : Get(k) \/ GetFails(k)

Spec == Init /\ [][Next]_vars
-----------------------------------------------------------------------------
(* nalloc_ *)
Filled == [p \in Page |-> Len(rows[p])]

(* Nothing stored is lost or doubled by spilling, failed writes included:  *)
(* the pages indexed for a key hold as many items as were stored under it, *)
(* and for the Set that takes row ids, exactly those rows.                 *)
PagesHoldEveryItem ==
  \A k \in DOMAIN index :
    /\ SumFunctionOnSet(Filled, index[k]) = given[k]
    /\ k \notin Positional => RowsOf(index[k]) = 0 .. given[k] - 1

(* A page serves one key, a queued page is in one queue, and a page that   *)
(* still has room is never spilled: the next item of its key goes into a   *)
(* page the index knows.  So the writer finds no used page only when every *)
(* key has filled its pages exactly, and it never runs out of disk pages.  *)
PagesHaveOneOwner ==
  /\ \A k, l \in DOMAIN index : k # l => index[k] \cap index[l] = {}
  /\ \A k \in DOMAIN index :
       /\ index[k] \cap (Range(mfree) \cup Range(dfree)) = {}
       /\ ~IsFull(usedPage[k]) => usedPage[k] \in index[k] \cap Range(mused)
  /\ Range(mused) \subseteq UNION {index[k] : k \in DOMAIN index}
  /\ Cardinality(Range(mused)) = Len(mused)
  /\ Len(mfree) + Len(mused) <= Len(dfree)
  /\ fault = "no used page" => \A k \in DOMAIN index : IsFull(usedPage[k])

(* A Get never returns a row of another key, whatever the read buffer held *)
(* before.  In memory it finds exactly the rows stored with the key as     *)
(* their value, however they were spread over pages by calls and spills in *)
(* between.  On the disk it finds them too if this is the first read of    *)
(* all and of a single page; a later read finds nothing that was spilled.  *)
GetIsExact ==
  [][\A k \in DOMAIN index \ Positional :
       Get(k) /\ fault' = "none" =>
         /\ answer'.rows \subseteq 0 .. given[k] - 1
         /\ wanted[k] \ RowsOf(OnDisk(k)) \subseteq answer'.rows
         /\ bufPages > 0 => answer'.rows = wanted[k] \ RowsOf(OnDisk(k))
         /\ bufPages = 0 /\ Cardinality(OnDisk(k)) <= 1 => answer'.rows = wanted[k]]_vars
=============================================================================
