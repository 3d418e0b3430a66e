----------------------------- MODULE Bitvector ------------------------------
(***************************************************************************)
(* bf::bitvector (libbf): the bits of every Bloom filter, packed into      *)
(* blocks of W bits.  A block is the set of positions of its one bits, so  *)
(* a shift that leaves the block drops the bit.  `ones` and `size` say     *)
(* which bits the caller has asked to be set: the blocks must agree with   *)
(* them, the bits behind the last one included, which count and the search *)
(* functions do not mask.                                                  *)
(*                                                                         *)
(* operator>>= is left out: nobody calls it, and for two or more blocks it *)
(* reads behind the last block.  So is the constructor with value = true,  *)
(* which leaves ones behind the last bit and whose only caller, setting a  *)
(* counter, reads single bits.                                             *)
(***************************************************************************)
EXTENDS Integers, Sequences, FiniteSets

CONSTANTS
  W,      \* bits_per_block, at least 1
  MaxSize \* bound: vectors longer than this are not built

ASSUME BitvectorAssumption == W \in Nat \ {0} /\ MaxSize \in Nat

Pos == 0 .. W - 1
Block == SUBSET Pos
npos == -1

VARIABLES
  bits,    \* bits_
  numBits, \* num_bits_
  ones,    \* history: indices of the bits the caller set
  size     \* history: number of bits the caller asked for

bitVars == <<bits, numBits, ones, size>>

BlocksFor(n) == (n + W - 1) \div W
BlockIndex(i) == i \div W + 1          \* blocks are numbered from 1 here
BitIndex(i) == i % W
ExtraBits == BitIndex(numBits)

Shl(block, n) == {p + n : p \in block} \cap Pos
Shr(block, n) == {p - n : p \in block} \cap Pos

BitsInit == bits = <<>> /\ numBits = 0 /\ ones = {} /\ size = 0

(* zero_unused_bits, on blocks that hold n bits. *)
ZeroUnusedBits(blocks, n) ==
  IF BitIndex(n) = 0 THEN blocks
  ELSE [blocks EXCEPT ![Len(blocks)] = @ \cap 0 .. BitIndex(n) - 1]

Bits == {i \in 0 .. W * Len(bits) - 1 : BitIndex(i) \in bits[BlockIndex(i)]}
-----------------------------------------------------------------------------
(* A vector of n zero bits, in place of the one there was. *)
Construct(n) ==
  /\ bits' = [b \in 1 .. BlocksFor(n) |-> {}] /\ numBits' = n
  /\ ones' = {} /\ size' = n

Clear ==
  /\ bits' = <<>> /\ numBits' = 0
  /\ ones' = {} /\ size' = 0

(* Mutant of Resized: the bits of the old last block stay as they are. *)
ResizedBlocksOnly(n, value) ==
  LET new == IF value THEN Pos ELSE {}
  IN ZeroUnusedBits([b \in 1 .. BlocksFor(n) |->
       IF b <= Len(bits) THEN bits[b] ELSE new], n)

(* The old last block is filled up first if ones are to follow. *)
Resized(n, value) ==
  LET new == IF value THEN Pos ELSE {}
      grown == [b \in 1 .. BlocksFor(n) |-> IF b <= Len(bits) THEN bits[b] ELSE new]
  IN ZeroUnusedBits(
       IF value /\ n > numBits /\ ExtraBits # 0
       THEN [grown EXCEPT ![Len(bits)] = @ \cup Shl(new, ExtraBits)]
       ELSE grown, n)

Resize(n, value) ==
  /\ bits' = Resized(n, value) /\ numBits' = n
  /\ ones' = {i \in 0 .. n - 1 : IF i < size THEN i \in ones ELSE value}
  /\ size' = n

SetIn(blocks, i, bit) ==
  [blocks EXCEPT ![BlockIndex(i)] =
     IF bit THEN @ \cup {BitIndex(i)} ELSE @ \ {BitIndex(i)}]

PushBack(bit) ==
  /\ bits' = SetIn(Resized(numBits + 1, FALSE), numBits, bit)
  /\ numBits' = numBits + 1
  /\ ones' = IF bit THEN ones \cup {size} ELSE ones
  /\ size' = size + 1

(* append of a block: its lower bits fill the last block, the others start *)
(* a new one.                                                              *)
AppendBlock(block) ==
  /\ bits' = IF ExtraBits = 0 THEN Append(bits, block)
             ELSE Append([bits EXCEPT ![Len(bits)] = @ \cup Shl(block, ExtraBits)],
                         Shr(block, W - ExtraBits))
  /\ numBits' = numBits + W
  /\ ones' = ones \cup {size + p : p \in block}
  /\ size' = size + W

(* set(i, bit), reset(i) and the assignments of a reference. *)
SetBit(i, bit) ==
  /\ i < numBits
  /\ bits' = SetIn(bits, i, bit)
  /\ ones' = IF bit THEN ones \cup {i} ELSE ones \ {i}
  /\ UNCHANGED <<numBits, size>>

SetAll ==
  /\ bits' = ZeroUnusedBits([b \in DOMAIN bits |-> Pos], numBits)
  /\ ones' = 0 .. size - 1
  /\ UNCHANGED <<numBits, size>>

ResetAll ==
  /\ bits' = [b \in DOMAIN bits |-> {}]
  /\ ones' = {}
  /\ UNCHANGED <<numBits, size>>

Flip(i) ==
  /\ i < numBits
  /\ bits' = [bits EXCEPT ![BlockIndex(i)] =
                IF BitIndex(i) \in @ THEN @ \ {BitIndex(i)} ELSE @ \cup {BitIndex(i)}]
  /\ ones' = IF i \in ones THEN ones \ {i} ELSE ones \cup {i}
  /\ UNCHANGED <<numBits, size>>

FlipAll ==
  /\ bits' = ZeroUnusedBits([b \in DOMAIN bits |-> Pos \ bits[b]], numBits)
  /\ ones' = 0 .. size - 1 \ ones
  /\ UNCHANGED <<numBits, size>>

(* operator<<=: from the last block down, each takes what its two sources  *)
(* shift into it.                                                          *)
ShiftLeft(n) ==
  LET div == n \div W
      r == BitIndex(n)
      From(b) == IF b - div < 1 THEN {} ELSE bits[b - div]
      shifted == [b \in DOMAIN bits |->
                    IF r = 0 THEN From(b) ELSE Shl(From(b), r) \cup Shr(From(b - 1), W - r)]
  IN /\ bits' = IF n >= numBits THEN [b \in DOMAIN bits |-> {}]
                ELSE IF n = 0 THEN bits ELSE ZeroUnusedBits(shifted, numBits)
     /\ ones' = {i + n : i \in ones} \cap 0 .. size - 1
     /\ UNCHANGED <<numBits, size>>

And(a, b) == a \cap b
Or(a, b) == a \cup b
Minus(a, b) == a \ b
Xor(a, b) == (a \ b) \cup (b \ a)

Apply(op, a, b) ==
  CASE op = "&=" -> And(a, b) [] op = "|=" -> Or(a, b)
    [] op = "-=" -> Minus(a, b) [] op = "^=" -> Xor(a, b)

(* The operators &=, |=, ^= and -= with a vector of the same size. *)
Combine(op, zs) ==
  LET z == [b \in DOMAIN bits |-> {BitIndex(i) : i \in {j \in zs : BlockIndex(j) = b}}]
  IN /\ bits' = [b \in DOMAIN bits |-> Apply(op, bits[b], z[b])]
     /\ ones' = Apply(op, ones, zs)
     /\ UNCHANGED <<numBits, size>>

BitsNext ==
  \/ \E n \in 0 .. MaxSize : Construct(n)
  \/ Clear
  \/ \E n \in 0 .. MaxSize, value \in BOOLEAN : Resize(n, value)
  \/ \E bit \in BOOLEAN : numBits < MaxSize /\ PushBack(bit)
  \/ \E block \in Block : numBits + W <= MaxSize /\ AppendBlock(block)
  \/ \E i \in 0 .. MaxSize, bit \in BOOLEAN : SetBit(i, bit)
  \/ SetAll
  \/ ResetAll
  \/ \E i \in 0 .. MaxSize : Flip(i)
  \/ FlipAll
  \/ \E n \in 0 .. MaxSize : ShiftLeft(n)
  \/ \E op \in {"&=", "|=", "-=", "^="}, zs \in SUBSET (0 .. numBits - 1) : Combine(op, zs)

BitsSpec == BitsInit /\ [][BitsNext]_bitVars
-----------------------------------------------------------------------------
(* Queries                                                                 *)

Lowest(s) == CHOOSE x \in s : \A y \in s : x <= y

(* count adds up whole blocks. *)
Count ==
  LET Sum[b \in 0 .. Len(bits)] == IF b = 0 THEN 0 ELSE Sum[b - 1] + Cardinality(bits[b])
  IN Sum[Len(bits)]

(* find_from: the lowest bit of the first block from b on that has one. *)
FindFrom(b) ==
  LET some == {c \in b .. Len(bits) : bits[c] # {}}
  IN IF some = {} THEN npos ELSE W * (Lowest(some) - 1) + Lowest(bits[Lowest(some)])

FindNext(i) ==
  IF numBits = 0 \/ i >= numBits - 1 THEN npos
  ELSE LET b == BlockIndex(i + 1)
           block == {p \in bits[b] : p >= BitIndex(i + 1)}
       IN IF block # {} THEN W * (b - 1) + Lowest(block) ELSE FindFrom(b + 1)

(* The blocks hold exactly the bits the caller set, with zeros behind the  *)
(* last one, after any sequence of resizing, appending, shifting, flipping *)
(* and combining.  So counting whole blocks counts the caller's bits, a    *)
(* filter's bits can be compared and or-ed block by block, and find_first  *)
(* and find_next visit the one bits in order and end.                      *)
BlocksHoldTheBits ==
  LET OrNone(s) == IF s = {} THEN npos ELSE Lowest(s)
  IN /\ numBits = size /\ Len(bits) = BlocksFor(size)
     /\ Bits = ones
     /\ Count = Cardinality(ones)
     /\ FindFrom(1) = OrNone(ones)
     /\ \A i \in 0 .. size : FindNext(i) = OrNone({j \in ones : j > i})
=============================================================================
