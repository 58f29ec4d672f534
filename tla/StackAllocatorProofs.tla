------------------------ MODULE StackAllocatorProofs ------------------------
(***************************************************************************)
(* Proofs about the stack allocator, for every word size, every set of     *)
(* layouts and every place the heap may choose for a block.                *)
(***************************************************************************)
EXTENDS StackAllocator, SequenceTheorems, WellFoundedInduction, TLAPS

-----------------------------------------------------------------------------
(***************************************************************************)
(* Multiples and alignment.                                                *)
(***************************************************************************)

\* A product with a factor of at least one.
LEMMA TimesUp == ASSUME NEW w \in Nat, NEW x \in Int, x >= 1 PROVE w * x >= w
OBVIOUS

\* A product with a negative factor.
LEMMA TimesDown == ASSUME NEW w \in Nat, NEW x \in Int, x <= -1 PROVE w * x <= -w
OBVIOUS

\* Quotient and remainder.
LEMMA Remainder ==
  ASSUME NEW a \in Int, NEW w \in Nat, w > 0
  PROVE  /\ a % w \in Int /\ 0 <= a % w /\ a % w < w
         /\ \E q \in Int : a = w * q + (a % w)
OBVIOUS

\* A multiple leaves no remainder.
LEMMA MultipleMod ==
  ASSUME NEW a \in Int, NEW w \in Nat, w > 0, NEW q \in Int, a = w * q
  PROVE  a % w = 0
<1>1. PICK d \in Int : a = w * d + (a % w)
  BY Remainder
<1>2. a % w \in Int /\ 0 <= a % w /\ a % w < w
  BY Remainder
<1>3. w * (q - d) = a % w
  BY <1>1, <1>2
<1>4. CASE q - d >= 1
  BY <1>2, <1>3, <1>4, TimesUp
<1>5. CASE q - d <= -1
  BY <1>2, <1>3, <1>5, TimesDown
<1> QED
  BY <1>1, <1>2, <1>4, <1>5

\* And what leaves no remainder is a multiple.
LEMMA ModMultiple ==
  ASSUME NEW a \in Int, NEW w \in Nat, w > 0, a % w = 0
  PROVE  \E q \in Int : a = w * q
BY Remainder

\* Sums and differences of multiples are multiples.
LEMMA SumOfMultiples ==
  ASSUME NEW a \in Int, NEW c \in Int, NEW w \in Nat, w > 0, a % w = 0, c % w = 0
  PROVE  (a + c) % w = 0 /\ (a - c) % w = 0
<1>1. PICK q \in Int : a = w * q
  BY ModMultiple
<1>2. PICK r \in Int : c = w * r
  BY ModMultiple
<1>3. a + c = w * (q + r) /\ a - c = w * (q - r)
  BY <1>1, <1>2
<1>4. q + r \in Int /\ q - r \in Int /\ a + c \in Int /\ a - c \in Int
  OBVIOUS
<1> QED
  BY <1>3, <1>4, MultipleMod

\* A multiple of a multiple is a multiple.
LEMMA MultipleOfMultiple ==
  ASSUME NEW a \in Int, NEW v \in Nat, NEW w \in Nat, v > 0, w > 0, a % v = 0, v % w = 0
  PROVE  a % w = 0
<1>1. PICK q \in Int : a = v * q
  BY ModMultiple
<1>2. PICK r \in Int : v = w * r
  BY ModMultiple
<1>3. a = w * (r * q) /\ r * q \in Int
  BY <1>1, <1>2
<1> QED
  BY <1>3, MultipleMod

\* A positive multiple of w is at least w.
LEMMA LeastMultiple ==
  ASSUME NEW a \in Int, NEW w \in Nat, w > 0, a % w = 0, a > 0
  PROVE  a >= w
<1>1. PICK q \in Int : a = w * q
  BY ModMultiple
<1>2. CASE q >= 1
  BY <1>1, <1>2, TimesUp
<1>3. CASE q <= -1
  BY <1>1, <1>3, TimesDown
<1> QED
  BY <1>1, <1>2, <1>3

\* AlignDown yields a multiple of the alignment, less than one alignment below.
LEMMA AlignDownFacts ==
  ASSUME NEW a \in Int, NEW w \in Nat, w > 0
  PROVE  /\ AlignDown(a, w) \in Int /\ AlignDown(a, w) % w = 0
         /\ AlignDown(a, w) <= a /\ a - w < AlignDown(a, w)
<1>1. PICK q \in Int : a = w * q + (a % w)
  BY Remainder
<1>2. a % w \in Int /\ 0 <= a % w /\ a % w < w
  BY Remainder
<1>3. AlignDown(a, w) = w * q /\ w * q \in Int
  BY <1>1, <1>2 DEF AlignDown
<1>4. AlignDown(a, w) % w = 0
  BY <1>3, MultipleMod
<1> QED
  BY <1>2, <1>3, <1>4 DEF AlignDown

\* The place alloc_layout computes for a value below from, in a block whose header ends at
\* edge: it is aligned, does not reach above from, and its back pointer is above the
\* header, though alloc_size only asks for the padding an alignment above a word needs.
LEMMA PlaceFacts ==
  ASSUME NEW l \in Layouts, NEW from \in Int, NEW edge \in Nat,
         from % Word = 0, edge % Word = 0, from - alloc_size(l) >= edge,
         NEW A, A = (IF l.align > Word THEN l.align ELSE Word),
         NEW res, res = AlignDown(from - l.size, A)
  PROVE  /\ res \in Int /\ res - Word >= edge
         /\ res + l.size <= from
         /\ (res - Word) % Word = 0
         /\ res % l.align = 0
<1>1. /\ Word \in Nat /\ Word > 0 /\ l.size \in Nat /\ l.align \in Nat /\ l.align > 0
      /\ l.size % l.align = 0
      /\ l.align % Word = 0 \/ Word % l.align = 0
  BY AllocatorAssumption
<1>2. A \in Nat /\ A > 0 /\ A >= Word /\ A >= l.align
  BY <1>1
<1>3. from - l.size - A >= edge
  BY <1>1 DEF alloc_size, saturating_sub
<1>4. /\ res \in Int /\ res % A = 0 /\ res <= from - l.size /\ from - l.size - A < res
  <2>1. PICK y \in Int : y = from - l.size
    BY <1>1
  <2>2. res = AlignDown(y, A)
    BY <2>1
  <2>3. res \in Int /\ res % A = 0 /\ res <= y /\ y - A < res
    BY <1>2, <2>2, AlignDownFacts
  <2> QED
    BY <2>1, <2>3
<1>5. A % Word = 0 /\ A % l.align = 0
  <2>1. l.align % l.align = 0 /\ Word % Word = 0
    <3>1. l.align = l.align * 1 /\ Word = Word * 1 /\ 1 \in Int
      BY <1>1
    <3> QED
      BY <1>1, <3>1, MultipleMod
  <2>2. CASE l.align > Word
    <3>1. l.align % Word = 0
      <4> SUFFICES ASSUME Word % l.align = 0 PROVE FALSE
        BY <1>1
      <4>1. Word >= l.align
        BY <1>1, LeastMultiple
      <4> QED
        BY <1>1, <2>2, <4>1
    <3> QED
      BY <2>1, <2>2, <3>1
  <2>3. CASE ~(l.align > Word)
    <3>1. CASE Word % l.align = 0
      BY <2>1, <2>3, <3>1
    <3>2. CASE l.align % Word = 0
      <4>1. l.align >= Word
        BY <1>1, <3>2, LeastMultiple
      <4>2. l.align = Word
        BY <1>1, <2>3, <4>1
      <4> QED
        BY <2>1, <2>3, <4>2
    <3> QED
      BY <1>1, <3>1, <3>2
  <2> QED
    BY <2>2, <2>3
<1>6. res % Word = 0 /\ res % l.align = 0
  BY <1>1, <1>2, <1>4, <1>5, MultipleOfMultiple
<1>7. Word % Word = 0
  <2>1. Word = Word * 1 /\ 1 \in Int
    BY <1>1
  <2> QED
    BY <1>1, <2>1, MultipleMod
<1>8. (res - Word) % Word = 0
  BY <1>1, <1>4, <1>6, <1>7, SumOfMultiples
<1>9. (res - edge) % Word = 0 /\ res - edge \in Int
  BY <1>1, <1>4, <1>6, SumOfMultiples
<1>10. res - edge > 0
  BY <1>1, <1>2, <1>3, <1>4
<1>11. res - edge >= Word
  BY <1>1, <1>9, <1>10, LeastMultiple
<1> QED
  BY <1>1, <1>4, <1>6, <1>8, <1>11

-----------------------------------------------------------------------------
(***************************************************************************)
(* Blocks.                                                                 *)
(***************************************************************************)

\* A set of numbers that is not empty has a least element.
LEMMA LeastElement ==
  ASSUME NEW T \in SUBSET Nat, T # {}
  PROVE  \E x \in T : \A y \in T : x <= y
<1> DEFINE R == OpToRel(<, Nat)
<1>1. \A x, y \in Nat : x < y => <<x, y>> \in R
  BY DEF OpToRel
<1>2. IsWellFoundedOn(R, Nat)
  BY NatLessThanWellFounded
<1> HIDE DEF R
<1>3. T \subseteq Nat
  OBVIOUS
<1>4. PICK x \in T : \A y \in T : ~ (<<y, x>> \in R)
  BY <1>2, <1>3, WFMin, Zenon
<1>5. \A y \in T : ~ (y < x)
  BY <1>1, <1>3, <1>4, Zenon
<1> QED
  BY <1>3, <1>5

\* The next power of two is one and is large enough, when there is one at all.
LEMMA NextPower ==
  ASSUME NEW n \in Int, \E p \in Powers : p >= n
  PROVE  next_power_of_two(n) \in Powers /\ next_power_of_two(n) >= n
<1> DEFINE T == {p \in Powers : p >= n}
<1>1. T \in SUBSET Nat /\ T # {}
  BY AllocatorAssumption
<1>2. PICK x \in T : \A y \in T : x <= y
  BY <1>1, LeastElement
<1>3. \E p \in Powers : p >= n /\ \A q \in Powers : q >= n => p <= q
  BY <1>2
<1> QED
  BY <1>3 DEF next_power_of_two

\* Every allocation needs a back pointer at least.
LEMMA AllocSizeFacts ==
  ASSUME NEW l \in Layouts
  PROVE  /\ Word \in Nat /\ Word > 0 /\ HeaderSize \in Nat /\ HeaderSize >= Word
         /\ alloc_size(l) \in Nat /\ alloc_size(l) >= Word /\ l.size \in Nat
BY AllocatorAssumption DEF alloc_size, saturating_sub, HeaderSize

\* The blocks of a chain get larger, hold more than their headers, and are apart.
BlocksSound(bs) ==
  /\ \A m \in 1..Len(bs) : bs[m].size > HeaderSize
  /\ \A m, n \in 1..Len(bs) : m < n =>
       /\ bs[m].size < bs[n].size
       /\ last(bs[m]) <= bs[n].base \/ last(bs[n]) <= bs[m].base

\* The numbers of a block.
LEMMA BlockFacts ==
  ASSUME NEW b \in Blocks
  PROVE  /\ b.base \in Nat /\ b.base > 0 /\ b.base % Word = 0
         /\ b.size \in Nat /\ b.size > 0 /\ b.size \in Powers
         /\ last(b) \in Nat /\ last(b) = b.base + b.size
BY AllocatorAssumption DEF Blocks, last

\* Both ends of a block that holds more than its header are aligned, and so is the end of
\* the header.
LEMMA BlockAligned ==
  ASSUME NEW b \in Blocks, b.size > HeaderSize
  PROVE  last(b) % Word = 0 /\ (b.base + HeaderSize) % Word = 0
<1>1. Word \in Nat /\ Word > 0 /\ HeaderSize = Word * 2 /\ HeaderSize \in Nat
  BY AllocatorAssumption DEF HeaderSize
<1>2. /\ b.base \in Nat /\ b.base % Word = 0 /\ b.size \in Nat /\ b.size > 0 /\ b.size \in Powers
      /\ last(b) = b.base + b.size
  BY BlockFacts
<1>3. b.size % Word = 0
  <2> SUFFICES ASSUME Word % b.size = 0 PROVE FALSE
    BY <1>2, AllocatorAssumption
  <2>1. Word >= b.size
    BY <1>1, <1>2, LeastMultiple
  <2> QED
    BY <1>1, <1>2, <2>1
<1>4. HeaderSize % Word = 0
  BY <1>1, MultipleMod
<1>5. b.base \in Int /\ b.size \in Int /\ HeaderSize \in Int
  BY <1>1, <1>2
<1>6. (b.base + b.size) % Word = 0
  BY <1>1, <1>2, <1>3, <1>5, SumOfMultiples
<1>7. (b.base + HeaderSize) % Word = 0
  BY <1>1, <1>2, <1>4, <1>5, SumOfMultiples
<1> QED
  BY <1>2, <1>6, <1>7

\* An address inside the cells of one block is not within another.
LEMMA OneBlock ==
  ASSUME NEW bs \in Seq(Blocks), BlocksSound(bs), NEW m \in 1..Len(bs), NEW n \in 1..Len(bs),
         NEW c, c.at \in Nat, c.size \in Nat, c.size >= Word,
         InBlock(c, bs[m]), within_block(bs[n], c.at)
  PROVE  m = n
<1>1. bs[m] \in Blocks /\ bs[n] \in Blocks
  BY ElementOfSeq
<1>2. /\ bs[m].base \in Nat /\ bs[m].size \in Nat /\ last(bs[m]) = bs[m].base + bs[m].size
      /\ bs[n].base \in Nat /\ bs[n].size \in Nat /\ last(bs[n]) = bs[n].base + bs[n].size
  BY <1>1, BlockFacts
<1>3. Word \in Nat /\ Word > 0 /\ HeaderSize \in Nat /\ HeaderSize > 0
  BY AllocatorAssumption DEF HeaderSize
<1>4. Len(bs) \in Nat
  BY LenProperties
<1>5. ~(last(bs[m]) <= bs[n].base \/ last(bs[n]) <= bs[m].base)
  BY <1>2, <1>3, SMTT(30) DEF InBlock, within_block
<1>6. ~(m < n) /\ ~(n < m)
  BY <1>5 DEF BlocksSound
<1> QED
  BY <1>4, <1>6

\* A cell in a block is within it.
LEMMA InIsWithin ==
  ASSUME NEW b \in Blocks, NEW c, c.at \in Nat, c.size \in Nat, InBlock(c, b)
  PROVE  within_block(b, c.at)
BY BlockFacts, AllocatorAssumption DEF InBlock, within_block, last, HeaderSize

\* A chain with a larger block at its end, apart from the others.
LEMMA BlocksAppend ==
  ASSUME NEW bs \in Seq(Blocks), BlocksSound(bs), NEW b \in Blocks, b.size > HeaderSize,
         \A m \in 1..Len(bs) : /\ bs[m].size < b.size
                               /\ last(b) <= bs[m].base \/ last(bs[m]) <= b.base
  PROVE  BlocksSound(Append(bs, b))
<1> DEFINE t == Append(bs, b)
           k == Len(bs)
<1>1. k \in Nat /\ Len(t) = k + 1 /\ t[k + 1] = b /\ \A i \in 1..k : t[i] = bs[i]
  BY AppendProperties, LenProperties
<1> HIDE DEF t
<1>2. ASSUME NEW m \in 1..Len(t) PROVE t[m].size > HeaderSize
  <2>1. m = k + 1 \/ m \in 1..k
    BY <1>1
  <2> QED
    BY <1>1, <2>1 DEF BlocksSound
<1>3. ASSUME NEW m \in 1..Len(t), NEW n \in 1..Len(t), m < n
      PROVE  /\ t[m].size < t[n].size
             /\ last(t[m]) <= t[n].base \/ last(t[n]) <= t[m].base
  <2>1. m \in 1..k /\ (n = k + 1 \/ n \in 1..k)
    BY <1>1, <1>3
  <2>2. CASE n = k + 1
    BY <1>1, <2>1, <2>2
  <2>3. CASE n \in 1..k
    BY <1>1, <1>3, <2>1, <2>3 DEF BlocksSound
  <2> QED
    BY <2>1, <2>2, <2>3
<1> QED
  BY <1>2, <1>3 DEF BlocksSound, t

-----------------------------------------------------------------------------
(***************************************************************************)
(* The inductive invariant.                                                *)
(***************************************************************************)

\* Each live cell is in a block, and it and its value are aligned.
CellsPlaced ==
  \A i \in 1..Len(live) :
    /\ \E m \in 1..Len(blocks) : InBlock(live[i], blocks[m])
    /\ live[i].size >= Word
    /\ live[i].at % Word = 0
    /\ (live[i].at + Word) % live[i].align = 0

\* Cells fill the blocks one after another, and each block from its end down.
CellsGoDown ==
  \A i, j \in 1..Len(live), m, n \in 1..Len(blocks) :
    i < j /\ InBlock(live[i], blocks[m]) /\ InBlock(live[j], blocks[n]) =>
      m <= n /\ (m = n => live[j].at + live[j].size <= live[i].at)

\* The back pointers link the live cells.
BackLinks ==
  \A i \in 1..Len(live) :
    /\ live[i].at \in DOMAIN back
    /\ back[live[i].at] = IF i = 1 THEN NoPtr ELSE live[i - 1].at

TopIsLast == top = IF live = <<>> THEN NoPtr ELSE Last(live).at

AllocInv ==
  /\ AllocTypeOK /\ HeapIsChain /\ BlocksSound(blocks)
  /\ CellsPlaced /\ CellsGoDown /\ BackLinks /\ TopIsLast

\* The numbers of a live cell.
LEMMA CellFacts ==
  ASSUME AllocInv
  PROVE  /\ Len(live) \in Nat /\ Len(blocks) \in Nat
         /\ live = <<>> <=> Len(live) = 0
         /\ \A i \in 1..Len(live) :
              /\ live[i].at \in Nat /\ live[i].size \in Nat /\ live[i].align \in Nat
              /\ live[i].size >= Word
         /\ \A m \in 1..Len(blocks) : blocks[m] \in Blocks
<1>1. live \in Seq(Cells) /\ blocks \in Seq(Blocks)
  BY DEF AllocInv, AllocTypeOK
<1>2. \A i \in 1..Len(live) : live[i] \in Cells
  BY <1>1, ElementOfSeq
<1>3. \A m \in 1..Len(blocks) : blocks[m] \in Blocks
  BY <1>1, ElementOfSeq
<1>4. Len(live) \in Nat /\ Len(blocks) \in Nat /\ (live = <<>> <=> Len(live) = 0)
  BY <1>1, LenProperties, EmptySeq
<1> QED
  BY <1>2, <1>3, <1>4 DEF AllocInv, CellsPlaced, Cells

\* The lowest cell is the last one.
LEMMA TopFacts ==
  ASSUME AllocInv
  PROVE  /\ top = NoPtr <=> Len(live) = 0
         /\ Len(live) > 0 => /\ top = live[Len(live)].at /\ top \in Nat /\ top # NoPtr
                             /\ Len(live) \in 1..Len(live)
<1>1. live \in Seq(Cells)
  BY DEF AllocInv, AllocTypeOK
<1>2. CASE Len(live) = 0
  BY <1>2, CellFacts DEF AllocInv, TopIsLast
<1>3. CASE Len(live) # 0
  <2>1. live # <<>> /\ Len(live) \in 1..Len(live) /\ Len(live) > 0
    BY <1>3, CellFacts
  <2>2. top = live[Len(live)].at
    BY <2>1 DEF AllocInv, TopIsLast, Last
  <2>3. top \in Nat /\ top # NoPtr
    <3>1. top \in Nat
      BY <2>1, <2>2, CellFacts
    <3> QED
      BY <3>1, AllocatorAssumption
  <2> QED
    BY <1>3, <2>1, <2>2, <2>3
<1> QED
  BY <1>2, <1>3

\* The free part of the head block ends at AllocFrom: it is aligned, in the block, and not
\* above any cell in it.
LEMMA FreePart ==
  ASSUME AllocInv, NEW k, k = Len(blocks), k >= 1,
         NEW from, from = AllocFrom(blocks[k])
  PROVE  /\ from \in Nat /\ from % Word = 0 /\ from <= last(blocks[k])
         /\ \A i \in 1..Len(live) : InBlock(live[i], blocks[k]) => from <= live[i].at
<1> DEFINE h == blocks[k]
           j == Len(live)
<1>1. k \in Nat /\ k \in 1..Len(blocks) /\ h \in Blocks /\ blocks \in Seq(Blocks)
  BY CellFacts DEF AllocInv, AllocTypeOK
<1>2. last(h) \in Nat /\ last(h) % Word = 0
  <2>1. h.size > HeaderSize
    BY <1>1 DEF AllocInv, BlocksSound
  <2> QED
    BY <1>1, <2>1, BlockFacts, BlockAligned
<1>3. CASE top # NoPtr /\ within_block(h, top)
  <2>1. from = top /\ j \in 1..j /\ top = live[j].at /\ top \in Nat
    BY <1>3, TopFacts, CellFacts DEF AllocFrom
  <2>2. top % Word = 0 /\ top <= last(h)
    BY <1>3, <2>1 DEF AllocInv, CellsPlaced, within_block, last
  <2>3. PICK m \in 1..Len(blocks) : InBlock(live[j], blocks[m])
    BY <2>1 DEF AllocInv, CellsPlaced
  <2>4. live[j].at \in Nat /\ live[j].size \in Nat /\ live[j].size >= Word
    BY <2>1, CellFacts
  <2>5. within_block(blocks[k], live[j].at)
    BY <1>3, <2>1
  <2>6. m = k
    BY <1>1, <2>3, <2>4, <2>5, OneBlock DEF AllocInv
  <2>7. ASSUME NEW i \in 1..Len(live), InBlock(live[i], blocks[k]) PROVE from <= live[i].at
    <3>1. CASE i = j
      BY <2>1, <3>1
    <3>2. CASE i # j
      <4>1. i < j
        BY <3>2, CellFacts
      <4>2. live[j].at + live[j].size <= live[i].at
        BY <1>1, <2>1, <2>3, <2>6, <2>7, <4>1 DEF AllocInv, CellsGoDown
      <4>3. live[i].at \in Nat
        BY CellFacts
      <4> QED
        BY <2>1, <2>4, <4>2, <4>3
    <3> QED
      BY <3>1, <3>2
  <2> QED
    BY <2>1, <2>2, <2>7
<1>4. CASE ~(top # NoPtr /\ within_block(h, top))
  <2>1. from = last(h)
    BY <1>4 DEF AllocFrom
  <2>2. ASSUME NEW i \in 1..Len(live), InBlock(live[i], blocks[k]) PROVE FALSE
    <3>1. j > 0 /\ j \in Nat
      BY CellFacts
    <3>2. j \in 1..j /\ top = live[j].at /\ top # NoPtr
      BY <3>1, TopFacts
    <3>3. PICK m \in 1..Len(blocks) : InBlock(live[j], blocks[m])
      BY <3>2 DEF AllocInv, CellsPlaced
    <3>4. blocks[m] \in Blocks /\ live[j].at \in Nat /\ live[j].size \in Nat
      BY <3>2, CellFacts
    <3>5. within_block(blocks[m], live[j].at)
      BY <3>3, <3>4, InIsWithin
    <3>6. m # k
      BY <1>4, <3>2, <3>5
    <3>7. m < k /\ ~(k <= m)
      BY <1>1, <3>6
    <3>8. CASE i = j
      <4>1. within_block(blocks[k], live[j].at)
        BY <1>1, <2>2, <3>4, <3>8, InIsWithin
      <4> QED
        BY <1>4, <3>2, <4>1
    <3>9. CASE i # j
      <4>1. i < j
        BY <3>9, CellFacts
      <4> QED
        BY <1>1, <2>2, <3>2, <3>3, <3>7, <4>1 DEF AllocInv, CellsGoDown
    <3> QED
      BY <3>8, <3>9
  <2> QED
    BY <1>2, <2>1, <2>2
<1> QED
  BY <1>3, <1>4

-----------------------------------------------------------------------------
(***************************************************************************)
(* alloc_layout.                                                           *)
(***************************************************************************)

\* A block that is not exhausted has room for the cell above its header.
LEMMA RoomLeft ==
  ASSUME NEW l \in Layouts, NEW b \in Blocks, NEW from \in Nat, ~Exhausted(l, b, from)
  PROVE  from - alloc_size(l) >= b.base + HeaderSize
BY AllocSizeFacts, BlockFacts DEF Exhausted, saturating_sub

\* What alloc_layout leaves: the chain with at most one block more, and a place from in its
\* last block below which the new cell goes, and above which the older ones there are.
NewPlace(l, from) ==
  LET k == Len(blocks')
  IN  /\ blocks' \in Seq(Blocks) /\ BlocksSound(blocks') /\ heap' = ToSet(blocks')
      /\ k \in Nat /\ k >= 1 /\ Len(blocks) <= k
      /\ \A m \in 1..Len(blocks) : blocks'[m] = blocks[m]
      /\ from \in Nat /\ from % Word = 0 /\ from <= last(blocks'[k])
      /\ from - alloc_size(l) >= blocks'[k].base + HeaderSize
      /\ \A i \in 1..Len(live) : InBlock(live[i], blocks'[k]) => from <= live[i].at
      /\ top' = AlignDown(from - l.size, IF l.align > Word THEN l.align ELSE Word) - Word

\* The elements of a chain of one block, and of one with a block more.
LEMMA ToSetFacts ==
  /\ ToSet(<<>>) = {}
  /\ \A b : ToSet(<<b>>) = {b}
  /\ \A s \in Seq(Blocks), b \in Blocks : ToSet(Append(s, b)) = ToSet(s) \cup {b}
<1>1. ToSet(<<>>) = {}
  BY DEF ToSet
<1>2. ASSUME NEW b PROVE ToSet(<<b>>) = {b}
  BY DEF ToSet
<1>3. ASSUME NEW s \in Seq(Blocks), NEW b \in Blocks
      PROVE  ToSet(Append(s, b)) = ToSet(s) \cup {b}
  <2> DEFINE t == Append(s, b)
  <2>1. /\ t \in Seq(Blocks) /\ Len(t) = Len(s) + 1 /\ Len(s) \in Nat
        /\ t[Len(s) + 1] = b /\ \A i \in 1..Len(s) : t[i] = s[i]
    BY AppendProperties, LenProperties
  <2> HIDE DEF t
  <2>2. DOMAIN s = 1..Len(s) /\ DOMAIN t = 1..(Len(s) + 1)
    BY <2>1, LenProperties
  <2>3. \A i \in 1..(Len(s) + 1) : i = Len(s) + 1 \/ i \in 1..Len(s)
    BY <2>1
  <2>4. \A i \in 1..Len(s) : i \in 1..(Len(s) + 1)
    BY <2>1
  <2>5. Len(s) + 1 \in 1..(Len(s) + 1)
    BY <2>1
  <2>6. ASSUME NEW x \in ToSet(t) PROVE x \in ToSet(s) \cup {b}
    BY <2>1, <2>2, <2>3 DEF ToSet
  <2>7. ASSUME NEW x \in ToSet(s) \cup {b} PROVE x \in ToSet(t)
    BY <2>1, <2>2, <2>4, <2>5 DEF ToSet
  <2>8. ToSet(t) = ToSet(s) \cup {b}
    BY <2>6, <2>7
  <2> QED
    BY <2>8 DEF t
<1> QED
  BY <1>1, <1>2, <1>3

\* The first allocation gets a new block that holds it.
LEMMA FirstBlock ==
  ASSUME AllocInv, NEW l \in Layouts, NEW first \in Bases, NEW next \in Bases,
         alloc_layout(l, first, next), blocks = <<>>
  PROVE  \E from : NewPlace(l, from)
<1> DEFINE b == grow_initial(l, first)
           from == last(b)
<1>1. Len(blocks) = 0 /\ Len(live) = 0 /\ top = NoPtr
  <2>1. Len(blocks) = 0
    OBVIOUS
  <2>2. Len(live) = 0
    <3> SUFFICES ASSUME Len(live) # 0 PROVE FALSE
      OBVIOUS
    <3>1. 1 \in 1..Len(live)
      BY CellFacts
    <3> QED
      BY <2>1, <3>1 DEF AllocInv, CellsPlaced
  <2> QED
    BY <2>1, <2>2, TopFacts
<1>2. /\ Word \in Nat /\ Word > 0 /\ HeaderSize \in Nat /\ alloc_size(l) \in Nat
      /\ alloc_size(l) >= Word
  BY AllocSizeFacts
<1>3. \E p \in Powers : p >= alloc_size(l) + HeaderSize
  BY <1>2 DEF alloc_layout
<1>4. /\ b.size \in Powers /\ b.size >= alloc_size(l) + HeaderSize /\ b.base = first
      /\ b \in Blocks
  BY <1>2, <1>3, NextPower DEF grow_initial, Blocks
<1>5. b.base \in Nat /\ b.size \in Nat /\ last(b) \in Nat /\ last(b) = b.base + b.size
  BY <1>4, BlockFacts
<1>6. AllocFrom(b) = last(b)
  BY <1>1 DEF AllocFrom
<1>7. ~Exhausted(l, b, last(b))
  BY <1>2, <1>4, <1>5 DEF Exhausted, saturating_sub
<1> HIDE DEF b
<1>8. Last(<<b>>) = b
  BY DEF Last
<1>9. /\ blocks' = <<b>> /\ heap' = heap \cup (ToSet(<<b>>) \ ToSet(<<>>))
      /\ top' = AlignDown(last(b) - l.size, IF l.align > Word THEN l.align ELSE Word) - Word
  BY <1>6, <1>7, <1>8 DEF alloc_layout, b
<1>10. heap = {} /\ heap' = ToSet(blocks')
  BY <1>9, ToSetFacts DEF AllocInv, HeapIsChain
<1>11. blocks' \in Seq(Blocks) /\ Len(blocks') = 1 /\ blocks'[1] = b
  BY <1>4, <1>9
<1>12. b.size > HeaderSize
  BY <1>2, <1>4, <1>5
<1>13. BlocksSound(blocks')
  BY <1>11, <1>12 DEF BlocksSound
<1>14. last(b) % Word = 0
  BY <1>4, <1>12, BlockAligned
<1>15. last(b) - alloc_size(l) >= b.base + HeaderSize
  BY <1>4, <1>5, <1>7, RoomLeft
<1>16. NewPlace(l, from)
  BY <1>1, <1>5, <1>9, <1>10, <1>11, <1>13, <1>14, <1>15 DEF NewPlace
<1> QED
  BY <1>16

\* The head block has room.
LEMMA SameBlock ==
  ASSUME AllocInv, NEW l \in Layouts, NEW first \in Bases, NEW next \in Bases,
         alloc_layout(l, first, next), blocks # <<>>,
         ~Exhausted(l, Last(blocks), AllocFrom(Last(blocks)))
  PROVE  \E from : NewPlace(l, from)
<1> DEFINE k == Len(blocks)
           h == blocks[k]
           from == AllocFrom(h)
<1>1. k \in Nat /\ k >= 1 /\ k \in 1..Len(blocks) /\ Last(blocks) = h /\ h \in Blocks
      /\ blocks \in Seq(Blocks)
  BY CellFacts, EmptySeq DEF AllocInv, AllocTypeOK, Last
<1>2. /\ blocks' = blocks /\ heap' = heap \cup (ToSet(blocks) \ ToSet(blocks))
      /\ top' = AlignDown(from - l.size, IF l.align > Word THEN l.align ELSE Word) - Word
  BY <1>1 DEF alloc_layout
<1>3. heap' = ToSet(blocks')
  BY <1>2 DEF AllocInv, HeapIsChain
<1>4. /\ from \in Nat /\ from % Word = 0 /\ from <= last(blocks[k])
      /\ \A i \in 1..Len(live) : InBlock(live[i], blocks[k]) => from <= live[i].at
  BY <1>1, FreePart
<1>5. from - alloc_size(l) >= h.base + HeaderSize
  BY <1>1, <1>4, RoomLeft
<1> HIDE DEF from
<1>6. NewPlace(l, from)
  BY <1>1, <1>2, <1>3, <1>4, <1>5 DEF NewPlace, AllocInv
<1> QED
  BY <1>6

\* The head block is exhausted and a larger one becomes the head.
LEMMA LargerBlock ==
  ASSUME AllocInv, NEW l \in Layouts, NEW first \in Bases, NEW next \in Bases,
         alloc_layout(l, first, next), blocks # <<>>,
         Exhausted(l, Last(blocks), AllocFrom(Last(blocks)))
  PROVE  \E from : NewPlace(l, from)
<1> DEFINE k == Len(blocks)
           h == blocks[k]
           b == grow_alloc_new_top(l, h, next)
           t == Append(blocks, b)
           from == last(b)
<1>1. k \in Nat /\ k >= 1 /\ k \in 1..Len(blocks) /\ Last(blocks) = h /\ h \in Blocks
      /\ blocks \in Seq(Blocks)
  BY CellFacts, EmptySeq DEF AllocInv, AllocTypeOK, Last
<1>2. /\ Word \in Nat /\ Word > 0 /\ HeaderSize \in Nat /\ alloc_size(l) \in Nat
      /\ alloc_size(l) >= Word
  BY AllocSizeFacts
<1>3. h.size \in Nat /\ h.size > HeaderSize
  BY <1>1, BlockFacts DEF AllocInv, BlocksSound
<1>4. \E p \in Powers : p >= h.size + alloc_size(l)
  BY <1>1 DEF alloc_layout
<1>5. /\ b.size \in Powers /\ b.size >= h.size + alloc_size(l) /\ b.base = next /\ b \in Blocks
  BY <1>2, <1>3, <1>4, NextPower DEF grow_alloc_new_top, Blocks
<1>6. b.base \in Nat /\ b.size \in Nat /\ last(b) \in Nat /\ last(b) = b.base + b.size
  BY <1>5, BlockFacts
<1> HIDE DEF b
<1>7. /\ t \in Seq(Blocks) /\ Len(t) = k + 1 /\ t[k + 1] = b
      /\ \A i \in 1..k : t[i] = blocks[i]
  BY <1>1, <1>5, AppendProperties
<1>8. Last(t) = b
  BY <1>7 DEF Last
<1>9. /\ blocks' = t /\ heap' = heap \cup (ToSet(t) \ ToSet(blocks))
      /\ top' = AlignDown(last(b) - l.size, IF l.align > Word THEN l.align ELSE Word) - Word
      /\ \A c \in ToSet(t) \ ToSet(blocks) :
           alloc_new_block(c, heap \cup ((ToSet(t) \ ToSet(blocks)) \ {c}))
  BY <1>1, <1>8 DEF alloc_layout, b
<1>10. ToSet(t) = ToSet(blocks) \cup {b}
  BY <1>1, <1>5, ToSetFacts
<1>11. \A m \in 1..k : blocks[m].size <= h.size /\ blocks[m].size \in Nat /\ blocks[m] \in ToSet(blocks)
  <2>1. ASSUME NEW m \in 1..k
        PROVE  blocks[m].size <= h.size /\ blocks[m].size \in Nat /\ blocks[m] \in ToSet(blocks)
    <3>1. blocks[m].size \in Nat /\ (m = k \/ m < k)
      BY <1>1, CellFacts, BlockFacts
    <3>2. DOMAIN blocks = 1..k
      BY <1>1, LenProperties
    <3>3. blocks[m] \in ToSet(blocks)
      BY <3>2 DEF ToSet
    <3>4. m < k => blocks[m].size < h.size
      BY <1>1 DEF AllocInv, BlocksSound
    <3> QED
      BY <1>3, <3>1, <3>3, <3>4
  <2> QED
    BY <2>1
<1>12. \A m \in 1..k : blocks[m].size < b.size
  BY <1>2, <1>3, <1>5, <1>6, <1>11
<1>13. b \notin ToSet(blocks)
  <2>1. DOMAIN blocks = 1..k
    BY <1>1, LenProperties
  <2> SUFFICES ASSUME NEW m \in 1..k, blocks[m] = b PROVE FALSE
    BY <2>1 DEF ToSet
  <2> QED
    BY <1>6, <1>12
<1>14. ToSet(t) \ ToSet(blocks) = {b} /\ heap = ToSet(blocks)
  BY <1>10, <1>13 DEF AllocInv, HeapIsChain
<1>15. heap' = ToSet(blocks') /\ alloc_new_block(b, ToSet(blocks))
  BY <1>9, <1>10, <1>14 DEF alloc_new_block
<1>16. b.size > HeaderSize
  BY <1>2, <1>3, <1>5, <1>6
<1>17. BlocksSound(blocks')
  <2>1. \A m \in 1..k : last(b) <= blocks[m].base \/ last(blocks[m]) <= b.base
    BY <1>11, <1>15 DEF alloc_new_block
  <2> QED
    BY <1>1, <1>5, <1>9, <1>12, <1>16, <2>1, BlocksAppend DEF AllocInv
<1>18. last(b) % Word = 0
  BY <1>5, <1>16, BlockAligned
<1>19. last(b) - alloc_size(l) >= b.base + HeaderSize
  BY <1>2, <1>3, <1>5, <1>6, SMTT(30)
<1>20. ASSUME NEW i \in 1..Len(live), InBlock(live[i], b) PROVE last(b) <= live[i].at
  <2>1. PICK m \in 1..k : InBlock(live[i], blocks[m])
    BY DEF AllocInv, CellsPlaced
  <2>2. live[i].at \in Nat /\ live[i].size \in Nat /\ live[i].size >= Word
    BY CellFacts
  <2>3. t[m] = blocks[m] /\ m \in 1..Len(t) /\ k + 1 \in 1..Len(t) /\ m # k + 1
    BY <1>1, <1>7
  <2>4. within_block(t[k + 1], live[i].at)
    BY <1>5, <1>7, <1>20, <2>2, InIsWithin
  <2>5. m = k + 1
    BY <1>7, <1>9, <1>17, <2>1, <2>2, <2>3, <2>4, OneBlock
  <2> QED
    BY <2>3, <2>5
<1> HIDE DEF t
<1>21. Len(blocks') = k + 1 /\ blocks'[Len(blocks')] = b /\ k + 1 \in Nat /\ k + 1 >= 1
  BY <1>1, <1>7, <1>9
<1>22. NewPlace(l, from)
  BY <1>1, <1>6, <1>7, <1>9, <1>15, <1>17, <1>18, <1>19, <1>20, <1>21 DEF NewPlace
<1> QED
  BY <1>22

\* One of the three happens.
LEMMA PlaceFound ==
  ASSUME AllocInv, NEW l \in Layouts, NEW first \in Bases, NEW next \in Bases,
         alloc_layout(l, first, next)
  PROVE  \E from : NewPlace(l, from)
BY FirstBlock, SameBlock, LargerBlock

\* alloc_layout keeps the invariant.
LEMMA AllocKeeps ==
  ASSUME AllocInv, NEW l \in Layouts, NEW first \in Bases, NEW next \in Bases,
         alloc_layout(l, first, next)
  PROVE  AllocInv'
<1> DEFINE k == Len(blocks')
           b == blocks'[k]
           c == [at |-> top', size |-> Word + l.size, align |-> l.align]
           z == Len(live)
<1>1. PICK from : NewPlace(l, from)
  BY PlaceFound
<1>2. /\ blocks' \in Seq(Blocks) /\ BlocksSound(blocks') /\ heap' = ToSet(blocks')
      /\ k \in Nat /\ k >= 1 /\ Len(blocks) <= k
      /\ \A m \in 1..Len(blocks) : blocks'[m] = blocks[m]
      /\ from \in Nat /\ from % Word = 0 /\ from <= last(b)
      /\ from - alloc_size(l) >= b.base + HeaderSize
      /\ \A i \in 1..z : InBlock(live[i], b) => from <= live[i].at
      /\ top' = AlignDown(from - l.size, IF l.align > Word THEN l.align ELSE Word) - Word
  BY <1>1 DEF NewPlace
<1>3. /\ Word \in Nat /\ Word > 0 /\ l.size \in Nat /\ HeaderSize \in Nat
      /\ l.align \in Nat /\ l.align > 0
  BY AllocatorAssumption DEF HeaderSize
<1>4. b \in Blocks /\ k \in 1..k
  BY <1>2, ElementOfSeq
<1>5. b.base \in Nat /\ last(b) \in Nat /\ b.size \in Nat
  BY <1>4, BlockFacts
<1>6. (b.base + HeaderSize) % Word = 0 /\ b.base + HeaderSize \in Nat
  <2>1. b.size > HeaderSize
    BY <1>2, <1>4 DEF BlocksSound
  <2> QED
    BY <1>3, <1>4, <1>5, <2>1, BlockAligned, SMTT(30)
<1>7. /\ top' \in Nat /\ top' >= b.base + HeaderSize /\ (top' + Word) + l.size <= from
      /\ top' % Word = 0 /\ (top' + Word) % l.align = 0
  <2> DEFINE A == IF l.align > Word THEN l.align ELSE Word
             res == AlignDown(from - l.size, A)
             edge == b.base + HeaderSize
  <2>1. from \in Int /\ edge \in Nat /\ from % Word = 0 /\ edge % Word = 0
        /\ from - alloc_size(l) >= edge
    BY <1>2, <1>6
  <2>2. top' = res - Word
    BY <1>2
  <2> HIDE DEF edge
  <2>3. /\ res \in Int /\ res - Word >= edge /\ res + l.size <= from
        /\ (res - Word) % Word = 0 /\ res % l.align = 0
    BY <2>1, PlaceFacts
  <2> HIDE DEF A, res
  <2>4. top' + Word = res /\ top' \in Nat
    BY <1>3, <2>1, <2>2, <2>3
  <2> QED
    BY <2>2, <2>3, <2>4 DEF edge
<1>8. c.at = top' /\ c.size = Word + l.size /\ c.align = l.align /\ c \in Cells
  BY <1>3, <1>7 DEF Cells
<1>9. InBlock(c, b) /\ c.size \in Nat /\ c.size >= Word /\ c.at + c.size <= from /\ c.at \in Nat
  <2> HIDE DEF c, b
  <2>1. c.size \in Nat /\ c.size >= Word /\ c.at + c.size <= from /\ c.at \in Nat
    <3>1. PICK x \in Nat : x = top' /\ (x + Word) + l.size <= from
      BY <1>7
    <3>2. c.at = x /\ c.size = Word + l.size
      BY <1>8, <3>1
    <3>3. Word + l.size \in Nat /\ Word + l.size >= Word /\ x + (Word + l.size) <= from
      <4>1. from \in Nat
        BY <1>2
      <4> QED
        BY <1>3, <3>1, <4>1
    <3> QED
      BY <3>2, <3>3
  <2>2. b.base + HeaderSize <= c.at /\ c.at + c.size <= last(b)
    BY <1>2, <1>3, <1>5, <1>7, <1>8, <2>1
  <2> QED
    BY <2>1, <2>2 DEF InBlock
<1>10. /\ live' = Append(live, c)
       /\ back' = [a \in DOMAIN back \cup {top'} |-> IF a = top' THEN top ELSE back[a]]
  BY DEF alloc_layout
<1> HIDE DEF c
<1>11. /\ live' \in Seq(Cells) /\ Len(live') = z + 1 /\ live'[z + 1] = c /\ z \in Nat
       /\ \A i \in 1..z : live'[i] = live[i]
  BY <1>8, <1>10, CellFacts, AppendProperties DEF AllocInv, AllocTypeOK
<1>12. \A i \in 1..z : live[i].at \in Nat /\ live[i].size \in Nat /\ live[i].size >= Word
  BY CellFacts
<1>13. \A i \in 1..z : \E m \in 1..Len(blocks) : InBlock(live[i], blocks[m])
  BY DEF AllocInv, CellsPlaced
<1>14. \A m \in 1..k : blocks'[m] \in Blocks
  BY <1>2, ElementOfSeq
<1>15. ASSUME NEW i \in 1..z, NEW n \in 1..k, within_block(blocks'[n], live[i].at)
       PROVE  n \in 1..Len(blocks) /\ blocks'[n] = blocks[n] /\ InBlock(live[i], blocks[n])
  <2>1. PICK m \in 1..Len(blocks) : InBlock(live[i], blocks[m])
    BY <1>13
  <2>2. m \in 1..k /\ InBlock(live[i], blocks'[m])
    BY <1>2, <2>1, CellFacts
  <2>3. m = n
    BY <1>2, <1>12, <1>15, <2>2, OneBlock
  <2> QED
    BY <1>2, <2>1, <2>3
<1>16. ASSUME NEW n \in 1..k, within_block(blocks'[n], c.at) PROVE n = k
  BY <1>2, <1>4, <1>9, <1>16, OneBlock
<1>17. ASSUME NEW i \in 1..(z + 1), NEW n \in 1..k, InBlock(live'[i], blocks'[n])
       PROVE  within_block(blocks'[n], live'[i].at)
  <2>1. i = z + 1 \/ i \in 1..z
    BY <1>11
  <2>2. live'[i].at \in Nat /\ live'[i].size \in Nat
    BY <1>9, <1>11, <1>12, <2>1
  <2> QED
    BY <1>14, <1>17, <2>2, InIsWithin
<1>18. ASSUME NEW i \in 1..z, within_block(b, live[i].at)
       PROVE  c.at + c.size <= live[i].at
  <2>1. InBlock(live[i], b)
    BY <1>4, <1>15, <1>18
  <2> QED
    BY <1>2, <1>9, <1>12, <2>1
<1>19. \A i \in 1..z : live[i].at # top'
  <2> SUFFICES ASSUME NEW i \in 1..z, live[i].at = top' PROVE FALSE
    OBVIOUS
  <2>1. within_block(b, live[i].at)
    BY <1>4, <1>8, <1>9, InIsWithin
  <2> QED
    BY <1>3, <1>8, <1>9, <1>18, <2>1, SMTT(30)
<1>20. /\ DOMAIN back' = DOMAIN back \cup {top'}
       /\ back'[top'] = top
       /\ \A a \in DOMAIN back : a # top' => back'[a] = back[a]
  BY <1>10
<1>21. AllocTypeOK'
  <2>1. top \in Nat \cup {NoPtr} /\ DOMAIN back \subseteq Nat
        /\ \A a \in DOMAIN back : back[a] \in Nat \cup {NoPtr}
    BY DEF AllocInv, AllocTypeOK
  <2>2. DOMAIN back' \subseteq Nat /\ \A a \in DOMAIN back' : back'[a] \in Nat \cup {NoPtr}
    BY <1>7, <1>20, <2>1
  <2>3. heap' \in SUBSET Blocks
    <3>1. DOMAIN blocks' = 1..k
      BY <1>2, LenProperties
    <3> QED
      BY <1>2, <1>14, <3>1 DEF ToSet
  <2> QED
    BY <1>2, <1>7, <1>11, <2>2, <2>3 DEF AllocTypeOK
<1>22. CellsPlaced'
  <2> SUFFICES ASSUME NEW i \in 1..(z + 1)
               PROVE  /\ \E m \in 1..k : InBlock(live'[i], blocks'[m])
                      /\ live'[i].size >= Word
                      /\ live'[i].at % Word = 0
                      /\ (live'[i].at + Word) % live'[i].align = 0
    BY <1>11 DEF CellsPlaced
  <2>1. CASE i = z + 1
    BY <1>4, <1>7, <1>8, <1>9, <1>11, <2>1
  <2>2. CASE i # z + 1
    <3>1. i \in 1..z /\ live'[i] = live[i]
      BY <1>11, <2>2
    <3>2. PICK m \in 1..Len(blocks) : InBlock(live[i], blocks[m])
      BY <1>13, <3>1
    <3>3. m \in 1..k /\ blocks'[m] = blocks[m]
      BY <1>2, CellFacts
    <3> QED
      BY <3>1, <3>2, <3>3 DEF AllocInv, CellsPlaced
  <2> QED
    BY <2>1, <2>2
<1>23. CellsGoDown'
  <2> SUFFICES ASSUME NEW i \in 1..(z + 1), NEW j \in 1..(z + 1), NEW m \in 1..k, NEW n \in 1..k,
                      i < j, InBlock(live'[i], blocks'[m]), InBlock(live'[j], blocks'[n])
               PROVE  m <= n /\ (m = n => live'[j].at + live'[j].size <= live'[i].at)
    BY <1>11 DEF CellsGoDown
  <2>1. i \in 1..z /\ live'[i] = live[i]
    BY <1>11
  <2>2. within_block(blocks'[m], live[i].at) /\ within_block(blocks'[n], live'[j].at)
    BY <1>17, <2>1
  <2>3. m \in 1..Len(blocks) /\ InBlock(live[i], blocks[m])
    BY <1>15, <2>1, <2>2
  <2>4. CASE j = z + 1
    <3>1. live'[j] = c
      BY <1>11, <2>4
    <3>2. n = k
      BY <1>16, <2>2, <3>1
    <3>3. m = n => c.at + c.size <= live[i].at
      BY <1>18, <2>1, <2>2, <3>2
    <3>4. m <= n
      BY <1>2, <3>2
    <3> QED
      BY <2>1, <3>1, <3>3, <3>4
  <2>5. CASE j # z + 1
    <3>1. j \in 1..z /\ live'[j] = live[j]
      BY <1>11, <2>5
    <3>2. n \in 1..Len(blocks) /\ InBlock(live[j], blocks[n])
      BY <1>15, <2>2, <3>1
    <3> QED
      BY <2>1, <2>3, <3>1, <3>2 DEF AllocInv, CellsGoDown
  <2> QED
    BY <2>4, <2>5
<1>24. BackLinks'
  <2> SUFFICES ASSUME NEW i \in 1..(z + 1)
               PROVE  /\ live'[i].at \in DOMAIN back'
                      /\ back'[live'[i].at] = IF i = 1 THEN NoPtr ELSE live'[i - 1].at
    BY <1>11 DEF BackLinks
  <2>1. CASE i = z + 1
    <3>1. live'[i].at = top' /\ back'[top'] = top
      BY <1>8, <1>11, <1>20, <2>1
    <3>2. CASE z = 0
      BY <1>20, <2>1, <3>1, <3>2, TopFacts
    <3>3. CASE z # 0
      <4>1. z > 0 /\ z \in 1..z /\ i - 1 = z /\ i # 1
        BY <1>11, <2>1, <3>3
      <4>2. top = live[z].at
        BY <4>1, TopFacts
      <4> QED
        BY <1>11, <1>20, <3>1, <4>1, <4>2
    <3> QED
      BY <3>2, <3>3
  <2>2. CASE i # z + 1
    <3>1. i \in 1..z /\ live'[i] = live[i] /\ (i # 1 => i - 1 \in 1..z)
      BY <1>11, <2>2
    <3>2. live[i].at \in DOMAIN back /\ back[live[i].at] = IF i = 1 THEN NoPtr ELSE live[i - 1].at
      BY <3>1 DEF AllocInv, BackLinks
    <3>3. back'[live[i].at] = back[live[i].at]
      BY <1>19, <1>20, <3>1, <3>2
    <3> QED
      BY <1>11, <1>20, <3>1, <3>2, <3>3
  <2> QED
    BY <2>1, <2>2
<1>25. TopIsLast'
  <2>1. Len(live') # 0
    BY <1>11
  <2>2. live' # <<>>
    BY <1>11, <2>1, EmptySeq
  <2> QED
    BY <1>8, <1>11, <2>2 DEF TopIsLast, Last
<1> QED
  BY <1>2, <1>21, <1>22, <1>23, <1>24, <1>25 DEF AllocInv, HeapIsChain

\* All but the last cell.
LEMMA FrontCells ==
  ASSUME NEW s \in Seq(Cells), NEW n \in Nat, Len(s) = n + 1
  PROVE  /\ Front(s) \in Seq(Cells) /\ Len(Front(s)) = n
         /\ \A i \in 1..n : Front(s)[i] = s[i]
<1> DEFINE t == SubSeq(s, 1, n)
<1>1. Front(s) = t
  BY DEF Front
<1>2. \A i \in 1..n : s[i] \in Cells
  BY ElementOfSeq
<1>3. /\ t \in Seq(Cells)
      /\ Len(t) = IF 1 <= n THEN n - 1 + 1 ELSE 0
      /\ \A i \in 1..(n - 1 + 1) : t[i] = s[1 + i - 1]
  BY <1>2, SubSeqProperties
<1> HIDE DEF t
<1>4. Len(t) = n /\ n - 1 + 1 = n
  BY <1>3
<1>5. ASSUME NEW i \in 1..n PROVE t[i] = s[i]
  <2>1. i \in 1..(n - 1 + 1) /\ 1 + i - 1 = i
    BY <1>4
  <2> QED
    BY <1>3, <2>1
<1> QED
  BY <1>1, <1>3, <1>4, <1>5

\* Taking the block behind the head out of a chain.
LEMMA WithoutSecond ==
  ASSUME NEW s \in Seq(Blocks), NEW j \in Nat, j >= 1, Len(s) = j + 1
  PROVE  /\ RemoveAt(s, j) \in Seq(Blocks) /\ Len(RemoveAt(s, j)) = j
         /\ RemoveAt(s, j)[j] = s[j + 1]
         /\ \A m \in 1..(j - 1) : RemoveAt(s, j)[m] = s[m]
<1> DEFINE a == SubSeq(s, 1, j - 1)
           z == SubSeq(s, j + 1, j + 1)
           r == a \o z
<1>1. RemoveAt(s, j) = r
  BY DEF RemoveAt
<1>2. \A m \in 1..(j + 1) : s[m] \in Blocks
  BY ElementOfSeq
<1>3. PICK h \in Nat : h = j - 1
  OBVIOUS
<1>4. /\ a \in Seq(Blocks)
      /\ Len(a) = IF 1 <= h THEN h - 1 + 1 ELSE 0
      /\ \A m \in 1..(h - 1 + 1) : a[m] = s[1 + m - 1]
  <2>1. \A m \in 1..h : s[m] \in Blocks
    BY <1>2, <1>3
  <2> QED
    BY <1>3, <2>1, SubSeqProperties
<1>5. PICK g \in Nat : g = j + 1
  OBVIOUS
<1>6. /\ z \in Seq(Blocks)
      /\ Len(z) = IF g <= g THEN g - g + 1 ELSE 0
      /\ \A m \in 1..(g - g + 1) : z[m] = s[g + m - 1]
  <2>1. \A m \in g..g : s[m] \in Blocks
    BY <1>2, <1>5
  <2> QED
    BY <1>5, <2>1, SubSeqProperties
<1> HIDE DEF a, z
<1>7. Len(a) = j - 1 /\ \A m \in 1..(j - 1) : a[m] = s[m]
  <2>1. h - 1 + 1 = j - 1 /\ Len(a) = j - 1
    BY <1>3, <1>4
  <2>2. ASSUME NEW m \in 1..(j - 1) PROVE a[m] = s[m]
    <3>1. 1 + m - 1 = m
      OBVIOUS
    <3> QED
      BY <1>4, <2>1, <3>1
  <2> QED
    BY <2>1, <2>2
<1>8. Len(z) = 1 /\ z[1] = s[j + 1]
  <2>1. g - g + 1 = 1 /\ g + 1 - 1 = j + 1 /\ 1 \in 1..1
    BY <1>5
  <2> QED
    BY <1>6, <2>1
<1>9. /\ r \in Seq(Blocks) /\ Len(r) = Len(a) + Len(z)
      /\ \A m \in 1..(Len(a) + Len(z)) : r[m] = IF m <= Len(a) THEN a[m] ELSE z[m - Len(a)]
  BY <1>4, <1>6, ConcatProperties
<1> HIDE DEF r
<1>10. Len(r) = j /\ r[j] = s[j + 1]
  <2>1. Len(a) + Len(z) = j /\ j \in 1..j /\ ~(j <= Len(a)) /\ j - Len(a) = 1
    BY <1>7, <1>8
  <2> QED
    BY <1>8, <1>9, <2>1
<1>11. ASSUME NEW m \in 1..(j - 1) PROVE r[m] = s[m]
  <2>1. m \in 1..(Len(a) + Len(z)) /\ m <= Len(a)
    BY <1>7, <1>8
  <2> QED
    BY <1>7, <1>9, <2>1
<1> QED
  BY <1>1, <1>9, <1>10, <1>11

\* The chain that is left is sound, and has the blocks it had but for the one taken out.
LEMMA BlocksRemove ==
  ASSUME NEW s \in Seq(Blocks), BlocksSound(s), NEW j \in Nat, j >= 1, Len(s) = j + 1
  PROVE  /\ BlocksSound(RemoveAt(s, j))
         /\ ToSet(RemoveAt(s, j)) = ToSet(s) \ {s[j]}
<1> DEFINE r == RemoveAt(s, j)
           F(m) == IF m = j THEN j + 1 ELSE m
<1>1. /\ r \in Seq(Blocks) /\ Len(r) = j /\ r[j] = s[j + 1]
      /\ \A m \in 1..(j - 1) : r[m] = s[m]
  BY WithoutSecond
<1>2. ASSUME NEW m \in 1..j PROVE F(m) \in 1..(j + 1) /\ F(m) # j /\ r[m] = s[F(m)]
  <2>1. CASE m = j
    BY <1>1, <2>1
  <2>2. CASE m # j
    <3>1. m \in 1..(j - 1)
      BY <2>2
    <3> QED
      BY <1>1, <2>2, <3>1
  <2> QED
    BY <2>1, <2>2
<1>3. \A m, n \in 1..j : m < n => F(m) < F(n)
  OBVIOUS
<1>4. \A m \in 1..(j + 1) : m # j => \E n \in 1..j : F(n) = m
  <2> SUFFICES ASSUME NEW m \in 1..(j + 1), m # j PROVE \E n \in 1..j : F(n) = m
    OBVIOUS
  <2>1. CASE m = j + 1
    <3>1. j \in 1..j /\ F(j) = m
      BY <2>1
    <3> QED
      BY <3>1
  <2>2. CASE m # j + 1
    <3>1. m \in 1..j /\ F(m) = m
      BY <2>2
    <3> QED
      BY <3>1
  <2> QED
    BY <2>1, <2>2
<1> HIDE DEF r, F
<1>5. BlocksSound(r)
  <2>1. ASSUME NEW m \in 1..Len(r) PROVE r[m].size > HeaderSize
    BY <1>1, <1>2 DEF BlocksSound
  <2>2. ASSUME NEW m \in 1..Len(r), NEW n \in 1..Len(r), m < n
        PROVE  /\ r[m].size < r[n].size
               /\ last(r[m]) <= r[n].base \/ last(r[n]) <= r[m].base
    <3>1. /\ F(m) \in 1..Len(s) /\ F(n) \in 1..Len(s) /\ F(m) < F(n)
          /\ r[m] = s[F(m)] /\ r[n] = s[F(n)]
      BY <1>1, <1>2, <1>3, <2>2
    <3> QED
      BY <3>1 DEF BlocksSound
  <2> QED
    BY <2>1, <2>2 DEF BlocksSound
<1>6. ASSUME NEW m \in 1..(j + 1), m # j PROVE s[m] # s[j]
  <2>1. j \in 1..Len(s) /\ m \in 1..Len(s) /\ (m < j \/ j < m)
    BY <1>6
  <2>2. s[m] \in Blocks /\ s[j] \in Blocks
    BY <2>1, ElementOfSeq
  <2>3. s[m].size \in Nat /\ s[j].size \in Nat
    BY <2>2, BlockFacts
  <2>4. s[m].size < s[j].size \/ s[j].size < s[m].size
    BY <2>1 DEF BlocksSound
  <2> QED
    BY <2>3, <2>4
<1>7. DOMAIN r = 1..j /\ DOMAIN s = 1..(j + 1)
  BY <1>1, LenProperties
<1>8. ASSUME NEW x \in ToSet(r) PROVE x \in ToSet(s) \ {s[j]}
  <2>1. PICK m \in 1..j : x = r[m]
    BY <1>7 DEF ToSet
  <2>2. F(m) \in 1..(j + 1) /\ F(m) # j /\ x = s[F(m)]
    BY <1>2, <2>1
  <2> QED
    BY <1>6, <1>7, <2>2 DEF ToSet
<1>9. ASSUME NEW x \in ToSet(s) \ {s[j]} PROVE x \in ToSet(r)
  <2>1. PICK m \in 1..(j + 1) : x = s[m] /\ m # j
    BY <1>7 DEF ToSet
  <2>2. PICK n \in 1..j : F(n) = m
    BY <1>4, <2>1
  <2>3. x = r[n]
    BY <1>2, <2>1, <2>2
  <2> QED
    BY <1>7, <2>3 DEF ToSet
<1>10. ToSet(r) = ToSet(s) \ {s[j]}
  BY <1>8, <1>9
<1> QED
  BY <1>5, <1>10 DEF r

\* What pop_dealloc leaves of the chain: either all of it, or all but the block behind the
\* head, which had no cell left in it.
ChainLeft(y) ==
  \/ blocks' = blocks /\ heap' = heap
  \/ \E j \in Nat :
       /\ j >= 1 /\ Len(blocks) = j + 1
       /\ blocks' = RemoveAt(blocks, j) /\ heap' = heap \ {blocks[j]}
       /\ \A i \in 1..y, m \in 1..Len(blocks) : InBlock(live[i], blocks[m]) => m < j

\* The block pop_dealloc frees holds no live cell.
LEMMA FreedIsEmpty ==
  ASSUME AllocInv, pop_dealloc, NEW y \in Nat, Len(live) = y + 1
  PROVE  ChainLeft(y)
<1> DEFINE k == Len(blocks)
           old == blocks[k - 1]
           z == y + 1
           frees == /\ ~within_block(Last(blocks), top)
                    /\ back[top] = NoPtr \/ ~within_block(old, back[top])
<1>1. /\ blocks' = IF frees THEN RemoveAt(blocks, k - 1) ELSE blocks
      /\ heap' = IF frees THEN heap \ {old} ELSE heap
  BY DEF pop_dealloc
<1> SUFFICES ASSUME frees PROVE ChainLeft(y)
  BY <1>1 DEF ChainLeft
<1>2. top = live[z].at /\ z \in 1..Len(live) /\ Len(live) > 0
  BY TopFacts
<1>3. PICK n \in 1..k : InBlock(live[z], blocks[n])
  BY <1>2 DEF AllocInv, CellsPlaced
<1>4. k \in Nat /\ blocks \in Seq(Blocks) /\ BlocksSound(blocks)
  BY CellFacts DEF AllocInv, AllocTypeOK
<1>5. live[z].at \in Nat /\ live[z].size \in Nat /\ live[z].size >= Word
  BY <1>2, CellFacts
<1>6. blocks[n] \in Blocks
  BY CellFacts
<1>7. within_block(blocks[n], live[z].at)
  BY <1>3, <1>5, <1>6, InIsWithin
<1>8. n # k
  BY <1>2, <1>7 DEF Last
<1>9. PICK j \in Nat : j = k - 1 /\ j >= 1 /\ k = j + 1 /\ n <= j /\ j \in 1..k
  BY <1>4, <1>8
<1>10. ASSUME NEW i \in 1..y, NEW m \in 1..k, InBlock(live[i], blocks[m]) PROVE m < j
  <2>1. i \in 1..Len(live) /\ y \in 1..Len(live) /\ i < z /\ y < z /\ i <= y /\ y >= 1
    OBVIOUS
  <2>2. m <= n
    BY <1>2, <1>3, <1>10, <2>1 DEF AllocInv, CellsGoDown
  <2> SUFFICES ASSUME m = j PROVE FALSE
    BY <1>4, <1>9, <2>2
  <2>3. PICK p \in 1..k : InBlock(live[y], blocks[p])
    BY <2>1 DEF AllocInv, CellsPlaced
  <2>4. p <= n
    BY <1>2, <1>3, <2>1, <2>3 DEF AllocInv, CellsGoDown
  <2>5. live[y].at \in Nat /\ live[y].size \in Nat /\ live[y].size >= Word
    BY <2>1, CellFacts
  <2>6. m <= p
    <3>1. CASE i = y
      <4>1. within_block(blocks[m], live[y].at)
        BY <1>10, <2>5, <3>1, CellFacts, InIsWithin
      <4>2. p = m
        BY <1>4, <2>3, <2>5, <4>1, OneBlock
      <4> QED
        BY <4>2
    <3>2. CASE i # y
      <4>1. i < y
        BY <2>1, <3>2
      <4> QED
        BY <1>10, <2>1, <2>3, <4>1 DEF AllocInv, CellsGoDown
    <3> QED
      BY <3>1, <3>2
  <2>7. p = j
    BY <1>9, <2>4, <2>6
  <2>8. within_block(old, live[y].at)
    <3>1. old = blocks[p] /\ blocks[p] \in Blocks
      BY <1>9, <2>7, CellFacts
    <3> HIDE DEF old
    <3> QED
      BY <2>3, <2>5, <3>1, InIsWithin
  <2>9. back[top] = live[y].at
    <3>1. z # 1 /\ z - 1 = y
      BY <2>1
    <3> QED
      BY <1>2, <3>1 DEF AllocInv, BackLinks
  <2>10. live[y].at # NoPtr
    BY <2>5, AllocatorAssumption
  <2> QED
    BY <2>8, <2>9, <2>10
<1>11. /\ j >= 1 /\ Len(blocks) = j + 1
       /\ blocks' = RemoveAt(blocks, j) /\ heap' = heap \ {blocks[j]}
       /\ \A i \in 1..y, m \in 1..Len(blocks) : InBlock(live[i], blocks[m]) => m < j
  <2>1. blocks' = RemoveAt(blocks, j) /\ heap' = heap \ {blocks[j]}
    BY <1>1, <1>9
  <2> QED
    BY <1>9, <1>10, <2>1
<1> QED
  BY <1>11 DEF ChainLeft

\* pop_dealloc keeps the invariant.
LEMMA PopKeeps ==
  ASSUME AllocInv, pop_dealloc
  PROVE  AllocInv'
<1>1. live \in Seq(Cells) /\ blocks \in Seq(Blocks) /\ BlocksSound(blocks) /\ heap = ToSet(blocks)
  BY DEF AllocInv, AllocTypeOK, HeapIsChain
<1>2. Len(live) \in Nat /\ Len(live) > 0
  BY CellFacts, TopFacts DEF pop_dealloc
<1>3. PICK y \in Nat : y = Len(live) - 1 /\ Len(live) = y + 1
  BY <1>2
<1>4. top = live[y + 1].at /\ y + 1 \in 1..Len(live) /\ top \in Nat
  BY <1>2, <1>3, TopFacts
<1>5. /\ live' \in Seq(Cells) /\ Len(live') = y
      /\ \A i \in 1..y : live'[i] = live[i]
  BY <1>1, <1>3, FrontCells DEF pop_dealloc
<1>6. top' = IF y = 0 THEN NoPtr ELSE live[y].at
  <2>1. top' = IF y + 1 = 1 THEN NoPtr ELSE live[y + 1 - 1].at
    BY <1>4 DEF pop_dealloc, AllocInv, BackLinks
  <2>2. y + 1 - 1 = y /\ (y + 1 = 1 <=> y = 0)
    OBVIOUS
  <2> QED
    BY <2>1, <2>2
<1>7. \A i \in 1..y : i \in 1..Len(live) /\ i < y + 1
  BY <1>3
<1>8. \A i \in 1..y : live[i].at \in Nat /\ live[i].size \in Nat /\ live[i].size >= Word
  BY <1>7, CellFacts
<1>9. Word \in Nat /\ Word > 0
  BY AllocatorAssumption
<1>10. ASSUME NEW i \in 1..y PROVE live[i].at # top
  <2>1. PICK m \in 1..Len(blocks) : InBlock(live[i], blocks[m])
    BY <1>7 DEF AllocInv, CellsPlaced
  <2>2. PICK n \in 1..Len(blocks) : InBlock(live[y + 1], blocks[n])
    BY <1>4 DEF AllocInv, CellsPlaced
  <2>3. live[y + 1].at \in Nat /\ live[y + 1].size \in Nat /\ live[y + 1].size >= Word
    BY <1>4, CellFacts
  <2> SUFFICES ASSUME live[i].at = live[y + 1].at PROVE FALSE
    BY <1>4
  <2>4. within_block(blocks[n], live[y + 1].at)
    BY <2>2, <2>3, CellFacts, InIsWithin
  <2>5. within_block(blocks[n], live[i].at)
    BY <2>4
  <2>6. m = n
    BY <1>1, <1>8, <2>1, <2>5, OneBlock
  <2>7. live[y + 1].at + live[y + 1].size <= live[i].at
    BY <1>4, <1>7, <2>1, <2>2, <2>6 DEF AllocInv, CellsGoDown
  <2> QED
    BY <1>8, <1>9, <2>3, <2>7
<1>11. DOMAIN back' = DOMAIN back \ {top} /\ \A a \in DOMAIN back \ {top} : back'[a] = back[a]
  BY DEF pop_dealloc
<1>12. /\ blocks' \in Seq(Blocks) /\ BlocksSound(blocks') /\ heap' = ToSet(blocks')
       /\ \A i \in 1..y : \E m \in 1..Len(blocks') : InBlock(live[i], blocks'[m])
       /\ \A i, h \in 1..y, m, n \in 1..Len(blocks') :
            i < h /\ InBlock(live[i], blocks'[m]) /\ InBlock(live[h], blocks'[n]) =>
              m <= n /\ (m = n => live[h].at + live[h].size <= live[i].at)
  <2>1. ChainLeft(y)
    BY <1>3, FreedIsEmpty
  <2>2. CASE blocks' = blocks /\ heap' = heap
    BY <1>1, <1>7, <2>2 DEF AllocInv, CellsPlaced, CellsGoDown
  <2>3. CASE \E j \in Nat :
               /\ j >= 1 /\ Len(blocks) = j + 1
               /\ blocks' = RemoveAt(blocks, j) /\ heap' = heap \ {blocks[j]}
               /\ \A i \in 1..y, m \in 1..Len(blocks) : InBlock(live[i], blocks[m]) => m < j
    <3>1. PICK j \in Nat :
               /\ j >= 1 /\ Len(blocks) = j + 1
               /\ blocks' = RemoveAt(blocks, j) /\ heap' = heap \ {blocks[j]}
               /\ \A i \in 1..y, m \in 1..Len(blocks) : InBlock(live[i], blocks[m]) => m < j
      BY <2>3
    <3>2. /\ blocks' \in Seq(Blocks) /\ Len(blocks') = j /\ blocks'[j] = blocks[j + 1]
          /\ \A m \in 1..(j - 1) : blocks'[m] = blocks[m]
      BY <1>1, <3>1, WithoutSecond
    <3>3. BlocksSound(blocks') /\ heap' = ToSet(blocks')
      BY <1>1, <3>1, BlocksRemove
    <3>4. ASSUME NEW i \in 1..y PROVE \E m \in 1..Len(blocks') : InBlock(live[i], blocks'[m])
      <4>1. PICK m \in 1..Len(blocks) : InBlock(live[i], blocks[m])
        BY <1>7 DEF AllocInv, CellsPlaced
      <4>2. m < j
        BY <3>1, <4>1
      <4>3. m \in 1..(j - 1) /\ m \in 1..Len(blocks')
        BY <3>1, <3>2, <4>2
      <4> QED
        BY <3>2, <4>1, <4>3
    <3>5. ASSUME NEW i \in 1..y, NEW m \in 1..Len(blocks'), InBlock(live[i], blocks'[m])
          PROVE  m \in 1..Len(blocks) /\ blocks'[m] = blocks[m]
      <4>1. j + 1 \in 1..Len(blocks) /\ ~(j + 1 < j)
        BY <3>1
      <4>2. m # j
        BY <3>1, <3>2, <3>5, <4>1
      <4>3. m \in 1..(j - 1) /\ m \in 1..Len(blocks)
        BY <3>1, <3>2, <4>2
      <4> QED
        BY <3>2, <4>3
    <3>6. ASSUME NEW i \in 1..y, NEW h \in 1..y,
                 NEW m \in 1..Len(blocks'), NEW n \in 1..Len(blocks'),
                 i < h, InBlock(live[i], blocks'[m]), InBlock(live[h], blocks'[n])
          PROVE  m <= n /\ (m = n => live[h].at + live[h].size <= live[i].at)
      <4>1. /\ m \in 1..Len(blocks) /\ blocks'[m] = blocks[m]
            /\ n \in 1..Len(blocks) /\ blocks'[n] = blocks[n]
        BY <3>5, <3>6
      <4>2. InBlock(live[i], blocks[m]) /\ InBlock(live[h], blocks[n])
        BY <3>6, <4>1
      <4> QED
        BY <1>7, <3>6, <4>1, <4>2 DEF AllocInv, CellsGoDown
    <3> QED
      BY <3>2, <3>3, <3>4, <3>6
  <2> QED
    BY <2>1, <2>2, <2>3 DEF ChainLeft
<1>13. AllocTypeOK'
  <2>1. DOMAIN back \subseteq Nat /\ \A a \in DOMAIN back : back[a] \in Nat \cup {NoPtr}
    BY DEF AllocInv, AllocTypeOK
  <2>2. DOMAIN back' \subseteq Nat /\ \A a \in DOMAIN back' : back'[a] \in Nat \cup {NoPtr}
    BY <1>11, <2>1
  <2>3. top' \in Nat \cup {NoPtr}
    <3>1. CASE y = 0
      BY <1>6, <3>1
    <3>2. CASE y # 0
      <4>1. y \in 1..y
        BY <3>2
      <4> QED
        BY <1>6, <1>8, <3>2, <4>1
    <3> QED
      BY <3>1, <3>2
  <2>4. heap' \in SUBSET Blocks
    <3>1. DOMAIN blocks' = 1..Len(blocks') /\ \A m \in 1..Len(blocks') : blocks'[m] \in Blocks
      BY <1>12, LenProperties, ElementOfSeq
    <3> QED
      BY <1>12, <3>1 DEF ToSet
  <2> QED
    BY <1>5, <1>12, <2>2, <2>3, <2>4 DEF AllocTypeOK
<1>14. CellsPlaced'
  BY <1>5, <1>7, <1>12 DEF AllocInv, CellsPlaced
<1>15. CellsGoDown'
  BY <1>5, <1>12 DEF CellsGoDown
<1>16. BackLinks'
  <2> SUFFICES ASSUME NEW i \in 1..y
               PROVE  /\ live'[i].at \in DOMAIN back'
                      /\ back'[live'[i].at] = IF i = 1 THEN NoPtr ELSE live'[i - 1].at
    BY <1>5 DEF BackLinks
  <2>1. live[i].at \in DOMAIN back /\ back[live[i].at] = IF i = 1 THEN NoPtr ELSE live[i - 1].at
    BY <1>7 DEF AllocInv, BackLinks
  <2>2. live[i].at \in DOMAIN back \ {top}
    BY <1>10, <2>1
  <2>3. i # 1 => i - 1 \in 1..y
    OBVIOUS
  <2> QED
    BY <1>5, <1>11, <2>1, <2>2, <2>3
<1>17. TopIsLast'
  <2>1. CASE y = 0
    <3>1. live' = <<>>
      BY <1>5, <2>1, EmptySeq
    <3> QED
      BY <1>6, <2>1, <3>1 DEF TopIsLast
  <2>2. CASE y # 0
    <3>1. live' # <<>> /\ y \in 1..y
      BY <1>5, <2>2, EmptySeq
    <3> QED
      BY <1>5, <1>6, <2>2, <3>1 DEF TopIsLast, Last
  <2> QED
    BY <2>1, <2>2
<1> QED
  BY <1>12, <1>13, <1>14, <1>15, <1>16, <1>17 DEF AllocInv, HeapIsChain

\* With no block and no cell the invariant holds.
LEMMA NothingHeld ==
  ASSUME NEW f, DOMAIN f \subseteq Nat, \A a \in DOMAIN f : f[a] \in Nat \cup {NoPtr}
  PROVE  /\ (blocks = <<>> /\ top = NoPtr /\ back = f /\ heap = {} /\ live = <<>>) => AllocInv
         /\ (blocks' = <<>> /\ top' = NoPtr /\ back' = f /\ heap' = {} /\ live' = <<>>) => AllocInv'
<1>1. <<>> \in Seq(Blocks) /\ <<>> \in Seq(Cells) /\ Len(<<>>) = 0 /\ ToSet(<<>>) = {}
  BY EmptySeq, ToSetFacts
<1>2. 1..0 = {}
  OBVIOUS
<1>3. ASSUME blocks = <<>>, top = NoPtr, back = f, heap = {}, live = <<>> PROVE AllocInv
  <2>1. Len(live) = 0 /\ Len(blocks) = 0 /\ ToSet(blocks) = {}
    BY <1>1, <1>3
  <2>2. AllocTypeOK /\ HeapIsChain /\ TopIsLast
    BY <1>1, <1>3, <2>1 DEF AllocTypeOK, HeapIsChain, TopIsLast
  <2>3. BlocksSound(blocks) /\ CellsPlaced /\ CellsGoDown /\ BackLinks
    BY <1>2, <2>1 DEF BlocksSound, CellsPlaced, CellsGoDown, BackLinks
  <2> QED
    BY <2>2, <2>3 DEF AllocInv
<1>4. ASSUME blocks' = <<>>, top' = NoPtr, back' = f, heap' = {}, live' = <<>> PROVE AllocInv'
  <2>1. Len(live') = 0 /\ Len(blocks') = 0 /\ ToSet(blocks') = {}
    BY <1>1, <1>4
  <2>2. AllocTypeOK' /\ HeapIsChain' /\ TopIsLast'
    BY <1>1, <1>4, <2>1 DEF AllocTypeOK, HeapIsChain, TopIsLast
  <2>3. BlocksSound(blocks)' /\ CellsPlaced' /\ CellsGoDown' /\ BackLinks'
    BY <1>2, <2>1 DEF BlocksSound, CellsPlaced, CellsGoDown, BackLinks
  <2> QED
    BY <2>2, <2>3 DEF AllocInv
<1> QED
  BY <1>3, <1>4

\* drop keeps the invariant.
LEMMA DropKeeps ==
  ASSUME AllocInv, drop
  PROVE  AllocInv'
<1>1. DOMAIN back \subseteq Nat /\ \A a \in DOMAIN back : back[a] \in Nat \cup {NoPtr}
  BY DEF AllocInv, AllocTypeOK
<1>2. heap' = {}
  BY DEF drop, AllocInv, HeapIsChain
<1>3. blocks' = <<>> /\ top' = NoPtr /\ back' = back /\ live' = <<>>
  BY DEF drop
<1> QED
  BY <1>1, <1>2, <1>3, NothingHeld

\* Cells in blocks that are apart are apart.
LEMMA OtherBlock ==
  ASSUME NEW b \in Blocks, NEW d \in Blocks, last(b) <= d.base \/ last(d) <= b.base,
         NEW c, c.at \in Nat, c.size \in Nat, InBlock(c, b),
         NEW e, e.at \in Nat, e.size \in Nat, InBlock(e, d)
  PROVE  c.at + c.size <= e.at \/ e.at + e.size <= c.at
<1>1. b.base \in Nat /\ last(b) \in Nat /\ d.base \in Nat /\ last(d) \in Nat /\ HeaderSize \in Nat
  BY BlockFacts, AllocatorAssumption DEF HeaderSize
<1> QED
  BY <1>1 DEF InBlock

-----------------------------------------------------------------------------
(***************************************************************************)
(* Theorems.                                                               *)
(***************************************************************************)

\* AllocInv is inductive: it holds at first, and alloc_layout, pop_dealloc and drop keep it,
\* whatever the layouts and wherever the heap puts the blocks.
THEOREM AllocInvariant == AllocSpec => []AllocInv
<1>1. AllocInit => AllocInv
  <2> SUFFICES ASSUME AllocInit PROVE AllocInv
    OBVIOUS
  <2>1. DOMAIN back \subseteq Nat /\ \A a \in DOMAIN back : back[a] \in Nat \cup {NoPtr}
    BY DEF AllocInit
  <2> QED
    BY <2>1, NothingHeld DEF AllocInit
<1>2. AllocInv /\ [AllocNext]_allocVars => AllocInv'
  <2> SUFFICES ASSUME AllocInv, [AllocNext]_allocVars PROVE AllocInv'
    OBVIOUS
  <2>1. CASE \E l \in Layouts, first, next \in Bases : alloc_layout(l, first, next)
    BY <2>1, AllocKeeps
  <2>2. CASE pop_dealloc
    BY <2>2, PopKeeps
  <2>3. CASE drop
    BY <2>3, DropKeeps
  <2>4. CASE UNCHANGED allocVars
    BY <2>4 DEF allocVars, AllocInv, AllocTypeOK, HeapIsChain, BlocksSound, CellsPlaced,
                CellsGoDown, BackLinks, TopIsLast, InBlock
  <2> QED
    BY <2>1, <2>2, <2>3, <2>4 DEF AllocNext
<1> QED
  BY <1>1, <1>2, PTL DEF AllocSpec

\* The allocator's chain, back pointers and cells keep their types: top is the address of a
\* cell or None.
THEOREM AllocTypeCorrect == AllocSpec => []AllocTypeOK
BY AllocInvariant, PTL DEF AllocInv

\* alloc_layout puts every cell within a block and above its header, and pop_dealloc never
\* frees a block with a live cell in it.
THEOREM CellsAreInBlocks == AllocSpec => []CellsInBlocks
<1>1. AllocInv => CellsInBlocks
  <2> SUFFICES ASSUME AllocInv, NEW i \in 1..Len(live)
               PROVE  \E b \in ToSet(blocks) : InBlock(live[i], b)
    BY DEF CellsInBlocks
  <2>1. PICK m \in 1..Len(blocks) : InBlock(live[i], blocks[m])
    BY DEF AllocInv, CellsPlaced
  <2>2. DOMAIN blocks = 1..Len(blocks)
    BY LenProperties DEF AllocInv, AllocTypeOK
  <2> QED
    BY <2>1, <2>2 DEF ToSet
<1> QED
  BY <1>1, AllocInvariant, PTL

\* No two cells alloc_layout hands out overlap while both live, and each value is aligned as
\* its layout asks.
THEOREM CellsAreApart == AllocSpec => []CellsApart
<1>1. AllocInv => CellsApart
  <2> SUFFICES ASSUME AllocInv PROVE CellsApart
    OBVIOUS
  <2>1. ASSUME NEW i \in 1..Len(live), NEW j \in 1..Len(live), i < j
        PROVE  \/ live[i].at + live[i].size <= live[j].at
               \/ live[j].at + live[j].size <= live[i].at
    <3>1. PICK m \in 1..Len(blocks) : InBlock(live[i], blocks[m])
      BY DEF AllocInv, CellsPlaced
    <3>2. PICK n \in 1..Len(blocks) : InBlock(live[j], blocks[n])
      BY DEF AllocInv, CellsPlaced
    <3>3. m <= n /\ (m = n => live[j].at + live[j].size <= live[i].at)
      BY <2>1, <3>1, <3>2 DEF AllocInv, CellsGoDown
    <3> SUFFICES ASSUME m # n
                 PROVE  \/ live[i].at + live[i].size <= live[j].at
                        \/ live[j].at + live[j].size <= live[i].at
      BY <3>3
    <3>4. m < n
      BY <3>3, CellFacts
    <3>5. last(blocks[m]) <= blocks[n].base \/ last(blocks[n]) <= blocks[m].base
      BY <3>4 DEF AllocInv, BlocksSound
    <3> QED
      BY <3>1, <3>2, <3>5, CellFacts, OtherBlock
  <2> QED
    BY <2>1 DEF CellsApart, AllocInv, CellsPlaced
<1> QED
  BY <1>1, AllocInvariant, PTL

\* top is the cell allocated last, and an older cell is never in a newer block: what
\* pop_dealloc relies on when it frees the block behind the head.
THEOREM CellsDoFollowBlocks == AllocSpec => []CellsFollowBlocks
<1>1. AllocInv => CellsFollowBlocks
  <2> SUFFICES ASSUME AllocInv PROVE CellsFollowBlocks
    OBVIOUS
  <2>1. top = IF live = <<>> THEN NoPtr ELSE Last(live).at
    BY DEF AllocInv, TopIsLast
  <2>2. ASSUME NEW i \in 1..Len(live), NEW j \in 1..Len(live),
               NEW m \in 1..Len(blocks), NEW n \in 1..Len(blocks),
               i < j, InBlock(live[i], blocks[m]), InBlock(live[j], blocks[n])
        PROVE  m <= n
    BY <2>2 DEF AllocInv, CellsGoDown
  <2> QED
    BY <2>1, <2>2 DEF CellsFollowBlocks
<1> QED
  BY <1>1, AllocInvariant, PTL

\* The blocks the heap has handed out are those of the chain: pop_dealloc and drop free each
\* block once and leak none.
THEOREM HeapIsTheChain == AllocSpec => []HeapIsChain
BY AllocInvariant, PTL DEF AllocInv
=============================================================================
