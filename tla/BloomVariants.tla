---------------------------- MODULE BloomVariants ----------------------------
(***************************************************************************)
(* The other filters of libbf: counting, spectral with minimal increase    *)
(* ("mi") and with recurring minimum ("rm"), stable, bitwise and A2.  The  *)
(* first four keep one or two vectors of counters that saturate at Max but *)
(* wrap below zero; bitwise keeps one plain filter per binary digit, A2 a  *)
(* filter that fills up and the one filled before.                         *)
(*                                                                         *)
(* A hasher is a function from objects to the cells that their digests     *)
(* select, in one range or in one part of it per digest; equal cells count *)
(* once.  The bits of a counter are modelled by the number they stand for. *)
(***************************************************************************)
EXTENDS Integers, Sequences, FiniteSets

CONSTANTS
  Object,   \* what is added
  Max,      \* counter_vector::max(), 2^width - 1
  Hashers,  \* kind of filter -> the sequences of hashers it may be given
  Decay,    \* d_: cells a stable filter decrements before it adds
  Capacity, \* capacity_ of an A2 filter
  MaxCalls  \* bound: calls a behaviour may make

(* There are hashers for every part, and each digests an object. *)
HashersFit ==
  /\ IsFiniteSet(Object) /\ Max \in Nat \ {0} /\ Decay \in Nat /\ Capacity \in Nat
  /\ \A k \in DOMAIN Hashers : \A hs \in Hashers[k] :
       /\ Len(hs) \in Nat /\ DOMAIN hs = 1 .. Len(hs)
       /\ Len(hs) >= (IF k \in {"rm", "a2"} THEN 2 ELSE 1)
       /\ \A l \in DOMAIN hs : \A o \in Object : IsFiniteSet(hs[l][o]) /\ hs[l][o] # {}

ASSUME FilterAssumption == HashersFit

VARIABLES
  kind,      \* the class of the filter
  hashers,   \* what hashes for its parts; one per level if it is bitwise
  parts,     \* counter vectors (cells), or plain filters (levels, first, second)
  items,     \* items_ of A2
  net,       \* history: object -> adds minus removes since the last clear
  age,       \* history: object -> adds since its last one, or -1
  saturated, \* history: some counter had to drop an increment
  misused,   \* history: an object was removed that its counters do not hold
  calls      \* calls made so far

filterVars == <<kind, hashers, parts, items, net, age, saturated, misused, calls>>

Least(s) == CHOOSE x \in s : \A y \in s : x <= y
CellsOf(h) == UNION {h[o] : o \in Object}
ZeroCells(h) == [i \in CellsOf(h) |-> 0]
EmptyBits(h) == [hasher |-> h, bits |-> {}]

(* rm and A2 have two parts from the start, the others one. *)
Fresh(k, hs) ==
  CASE k = "rm" -> <<ZeroCells(hs[1]), ZeroCells(hs[2])>>
    [] k = "a2" -> <<EmptyBits(hs[1]), EmptyBits(hs[2])>>
    [] k = "bitwise" -> <<EmptyBits(hs[1])>>  \* grow on no levels
    [] OTHER -> <<ZeroCells(hs[1])>>

FilterInit ==
  /\ kind \in DOMAIN Hashers /\ hashers \in Hashers[kind]
  /\ parts = Fresh(kind, hashers) /\ items = 0
  /\ net = [o \in Object |-> 0] /\ age = [o \in Object |-> -1]
  /\ saturated = FALSE /\ misused = FALSE /\ calls = 0
-----------------------------------------------------------------------------
(* Vectors of counters                                                     *)

(* find_indices: the cells of an object in part l. *)
Indices(l, o) == hashers[l][o]

FindMinimum(c, is) == Least({Max} \cup {c[i] : i \in is})
FindMinima(c, is) == {i \in is : c[i] = FindMinimum(c, is)}

(* Mutant of Incremented: the carry out of the last bit is dropped. *)
IncrementedDroppingCarry(c, is, value) ==
  [i \in DOMAIN c |-> IF i \in is THEN (c[i] + value) % (Max + 1) ELSE c[i]]

Incremented(c, is, value) ==
  [i \in DOMAIN c |-> IF i \in is THEN Least({Max, c[i] + value}) ELSE c[i]]

Overflows(c, is, value) == \E i \in is : c[i] + value > Max

(* Two's complement, with no check for zero: 0 - 1 is Max. *)
Decremented(c, is) ==
  [i \in DOMAIN c |-> IF i \in is THEN (c[i] - 1) % (Max + 1) ELSE c[i]]

(* Plain filters                                                           *)
BasicAdd(f, o) == [f EXCEPT !.bits = @ \cup f.hasher[o]]
BasicRemove(f, o) == [f EXCEPT !.bits = @ \ f.hasher[o]]
BasicLookup(f, o) == IF f.hasher[o] \subseteq f.bits THEN 1 ELSE 0
-----------------------------------------------------------------------------
(* What an add leaves in the history of a filter that counts, and of one   *)
(* that ages its contents.                                                 *)
Counted(o) ==
  /\ net' = [net EXCEPT ![o] = @ + 1]
  /\ UNCHANGED <<items, age, misused>>

Aged(o, years) ==
  /\ age' = [p \in Object |-> IF p = o THEN 0 ELSE IF age[p] < 0 THEN -1 ELSE age[p] + years]
  /\ UNCHANGED <<net, saturated, misused>>

AddCounting(o) ==
  /\ kind = "counting"
  /\ parts' = <<Incremented(parts[1], Indices(1, o), 1)>>
  /\ saturated' = (saturated \/ Overflows(parts[1], Indices(1, o), 1))
  /\ Counted(o)

AddMi(o) ==
  /\ kind = "mi"
  /\ parts' = <<Incremented(parts[1], FindMinima(parts[1], Indices(1, o)), 1)>>
  /\ Counted(o) /\ UNCHANGED saturated

(* An object with one minimal counter goes into the second vector as well. *)
AddRm(o) ==
  LET is1 == Indices(1, o)
      is2 == Indices(2, o)
      first == Incremented(parts[1], is1, 1)
      value == IF FindMinimum(parts[2], is2) > 0 THEN 1 ELSE FindMinimum(first, is1)
      single == Cardinality(FindMinima(first, is1)) = 1
  IN /\ kind = "rm"
     /\ parts' = <<first, IF single THEN Incremented(parts[2], is2, value) ELSE parts[2]>>
     /\ saturated' = \/ saturated
                     \/ Overflows(parts[1], is1, 1)
                     \/ single /\ Overflows(parts[2], is2, value)
     /\ Counted(o)

(* Mutant of AddStable: a cell may be drawn twice. *)
AddStableRepeating(o) ==
  /\ kind = "stable"
  /\ \E i, j \in DOMAIN parts[1] :
       parts' = <<Incremented(Decremented(Decremented(parts[1], {i}), {j}),
                              Indices(1, o), Max)>>
  /\ Aged(o, 1) /\ UNCHANGED items

(* Decay distinct cells at random, a zero cell too, then the object's.     *)
AddStable(o) ==
  /\ kind = "stable"
  /\ \E drawn \in {s \in SUBSET DOMAIN parts[1] : Cardinality(s) = Decay} :
       parts' = <<Incremented(Decremented(parts[1], drawn), Indices(1, o), Max)>>
  /\ Aged(o, 1) /\ UNCHANGED items

(* grow: a new level, whose hasher is seeded by the number of levels. *)
Grown(levels) == Append(levels, EmptyBits(hashers[Len(levels) + 1]))

(* The carry of binary addition: the levels below the first that does not  *)
(* claim to hold the object forget it.                                     *)
AddBitwise(o) ==
  LET carried == Least({Len(parts) + 1} \cup
                       {l \in DOMAIN parts : BasicLookup(parts[l], o) = 0})
      levels == IF carried <= Len(parts) THEN parts ELSE Grown(parts)
  IN /\ kind = "bitwise" /\ carried <= Len(hashers)
     /\ parts' = [l \in DOMAIN levels |->
                    IF l < carried THEN BasicRemove(levels[l], o)
                    ELSE IF l = carried THEN BasicAdd(levels[l], o) ELSE levels[l]]
     /\ Counted(o) /\ UNCHANGED saturated

(* Mutant of AddA2: the bits are swapped and the hashers stay. *)
AddA2SwapsBitsOnly(o) ==
  LET first == BasicAdd(parts[1], o) IN
  /\ kind = "a2"
  /\ IF BasicLookup(parts[1], o) = 1 THEN Aged(o, 0) /\ UNCHANGED <<parts, items>>
     ELSE /\ Aged(o, 1)
          /\ items' = IF items < Capacity THEN items + 1 ELSE 1
          /\ parts' = IF items < Capacity THEN [parts EXCEPT ![1] = first]
                      ELSE <<BasicAdd([parts[1] EXCEPT !.bits = {}], o),
                             [parts[2] EXCEPT !.bits = first.bits]>>

(* A full first filter, the object included, becomes the second one. *)
AddA2(o) ==
  LET first == BasicAdd(parts[1], o) IN
  /\ kind = "a2"
  /\ IF BasicLookup(parts[1], o) = 1 THEN Aged(o, 0) /\ UNCHANGED <<parts, items>>
     ELSE /\ Aged(o, 1)
          /\ items' = IF items < Capacity THEN items + 1 ELSE 1
          /\ parts' = IF items < Capacity THEN [parts EXCEPT ![1] = first]
                      ELSE <<BasicAdd(EmptyBits(parts[2].hasher), o), first>>

Add(o) ==
  /\ \/ AddCounting(o) \/ AddMi(o) \/ AddRm(o) \/ AddStable(o)
     \/ AddBitwise(o) \/ AddA2(o)
  /\ UNCHANGED <<kind, hashers>>

(* mi and stable inherit the remove of the counting filter, which is not   *)
(* the inverse of their add.                                               *)
RemoveFirst(o) == Decremented(parts[1], Indices(1, o))

RemoveCounting(o) == kind \in {"counting", "mi", "stable"} /\ parts' = <<RemoveFirst(o)>>

RemoveRm(o) ==
  LET is2 == Indices(2, o)
      single == Cardinality(FindMinima(RemoveFirst(o), Indices(1, o))) = 1
  IN /\ kind = "rm"
     /\ parts' = <<RemoveFirst(o), IF single /\ FindMinimum(parts[2], is2) > 0
                                   THEN Decremented(parts[2], is2) ELSE parts[2]>>

Remove(o) ==
  /\ RemoveCounting(o) \/ RemoveRm(o)
  /\ net' = [net EXCEPT ![o] = @ - 1]
  /\ misused' = (misused \/ saturated \/ net[o] <= 0 \/ kind \in {"mi", "stable"})
  /\ UNCHANGED <<kind, hashers, items, age, saturated>>

(* A2 keeps its number of items, and so gives up the next first filter     *)
(* before it is full.  Its hashers stay with the filters they are in.      *)
ClearA2 == kind = "a2" /\ parts' = [l \in 1 .. 2 |-> EmptyBits(parts[l].hasher)]

ClearFilter ==
  /\ \/ ClearA2
     \/ /\ kind # "a2"
        /\ parts' = Fresh(kind, hashers)
  /\ net' = [o \in Object |-> 0] /\ age' = [o \in Object |-> -1]
  /\ saturated' = FALSE /\ misused' = FALSE
  /\ UNCHANGED <<kind, hashers, items>>

(* Bound: nothing is claimed of a misused filter, and it is left alone.     *)
FilterNext ==
  /\ calls < MaxCalls /\ calls' = calls + 1 /\ ~misused
  /\ (\E o \in Object : Add(o) \/ Remove(o)) \/ ClearFilter

FilterSpec == FilterInit /\ [][FilterNext]_filterVars
-----------------------------------------------------------------------------
(* The levels are the digits of a binary number, the lowest one first.     *)
LookupBitwise(o) ==
  LET Digits[l \in 1 .. Len(parts) + 1] ==
        IF l = Len(parts) + 1 THEN 0 ELSE BasicLookup(parts[l], o) + 2 * Digits[l + 1]
  IN Digits[1]

LookupA2(o) == IF BasicLookup(parts[1], o) = 1 THEN 1 ELSE BasicLookup(parts[2], o)

LookupRm(o) ==
  LET min1 == FindMinimum(parts[1], Indices(1, o))
      min2 == FindMinimum(parts[2], Indices(2, o))
  IN IF Cardinality(FindMinima(parts[1], Indices(1, o))) = 1 /\ min2 > 0
     THEN min2 ELSE min1

LookupCounting(o) == FindMinimum(parts[1], Indices(1, o))

Lookup(o) ==
  CASE kind = "bitwise" -> LookupBitwise(o)
    [] kind = "a2" -> LookupA2(o)
    [] kind = "rm" -> LookupRm(o)
    [] OTHER -> LookupCounting(o)

OwnsCell(h, o, i) == \A p \in Object \ {o} : i \notin h[p]

(* Where the count of an object can be trusted: it has a counter of its    *)
(* own or, where the hashers of several parts take part, no counter or bit *)
(* of any part in common with another object.                              *)
OwnsItsCells(o) ==
  IF kind \in {"counting", "mi"}
  THEN \E i \in Indices(1, o) : OwnsCell(hashers[1], o, i)
  ELSE \A l \in DOMAIN hashers : \A i \in Indices(l, o) : OwnsCell(hashers[l], o, i)

(* As long as callers remove only what is there, and no counter that had   *)
(* to drop an increment is decremented, a filter of counters never says    *)
(* less than the number of copies it holds (the recurring minimum at least *)
(* does not lose the object), and says exactly that number, up to Max, for *)
(* an object that owns its cells.  The bitwise filter only does the latter:*)
(* its carries clear bits that other objects share.                        *)
CountsHold ==
  kind \in {"counting", "mi", "rm", "bitwise"} /\ ~misused =>
    \A o \in Object :
      LET most == IF kind = "bitwise" THEN net[o] ELSE Least({Max, net[o]}) IN
      /\ kind \in {"counting", "mi"} => Lookup(o) >= most
      /\ kind = "rm" => Lookup(o) >= Least({1, net[o]})
      /\ OwnsItsCells(o) => Lookup(o) = most

(* A filter that forgets does so in time only.  One more add costs an      *)
(* object of a stable filter at most one of the Max it starts with, so no  *)
(* cell it needs is at zero, where a decrement would wrap, before Max adds.*)
(* An A2 filter finds an object through the next Capacity adds that change *)
(* it, also when it was cleared and gives up a filter early.               *)
RecentlyAddedIsFound ==
  ~misused => \A o \in Object : age[o] >= 0 =>
    /\ kind = "stable" => Lookup(o) >= Max - age[o]
    /\ kind = "a2" /\ age[o] <= Capacity => Lookup(o) = 1
=============================================================================
