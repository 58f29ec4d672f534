--------------------------- MODULE StackAllocator ---------------------------
(***************************************************************************)
(* The stack allocator of src/allocator.rs: a chain of heap blocks, filled *)
(* from the high end down; a cell is a back pointer to the cell allocated  *)
(* before it, followed by the value.  Only the head of the chain is        *)
(* allocated from; pop_dealloc frees blocks behind the head.               *)
(*                                                                         *)
(* Addresses are numbers.  A usize is Word bytes: the alignment of a block *)
(* and the size of a back pointer.  The heap places a block anywhere it    *)
(* does not overlap another.                                               *)
(***************************************************************************)
EXTENDS Integers, Sequences, SequencesExt

CONSTANTS
  Word,      \* MINIMUM_ALIGN and BACK_POINTER_SIZE
  Layouts,   \* layouts of the values, records of size and align
  Bases,     \* addresses at which the heap may place a block
  Powers,    \* the powers of two that are sizes of blocks
  NoPtr,     \* None as an Option<Owned<u8>>
  MaxCells   \* bound: cells alive at once

\* Word, alignments and sizes of blocks are powers of two: the smaller of two divides
\* the larger.
ASSUME AllocatorAssumption ==
  /\ Word \in Nat \ {0}
  /\ \A l \in Layouts :
       /\ l.size \in Nat /\ l.align \in Nat \ {0} /\ l.size % l.align = 0
       /\ l.align % Word = 0 \/ Word % l.align = 0
  /\ \A b \in Bases : b \in Nat \ {0} /\ b % Word = 0
  /\ \A p \in Powers :
       /\ p \in Nat \ {0} /\ \E k \in 0..p : p = 2 ^ k
       /\ p % Word = 0 \/ Word % p = 0
  /\ NoPtr \notin Int
  /\ MaxCells \in Nat

VARIABLES
  blocks,  \* the chain of blocks, its head last
  top,     \* StackAllocator::top
  back,    \* back pointers in memory: cell -> cell below
  heap,    \* the blocks the heap has handed out (external)
  live     \* the cells in use, in the order they were allocated

allocVars == <<blocks, top, back, heap, live>>

Blocks == [base : Bases, size : Powers]
Cells == [at : Nat, size : Nat, align : Nat]

AllocTypeOK ==
  /\ blocks \in Seq(Blocks)
  /\ top \in Nat \cup {NoPtr}
  /\ DOMAIN back \subseteq Nat
  /\ \A a \in DOMAIN back : back[a] \in Nat \cup {NoPtr}
  /\ heap \in SUBSET Blocks
  /\ live \in Seq(Cells)

AllocInit ==
  /\ blocks = <<>>
  /\ top = NoPtr
  /\ back = <<>>
  /\ heap = {}
  /\ live = <<>>

-----------------------------------------------------------------------------
(***************************************************************************)
(* Blocks.                                                                 *)
(***************************************************************************)

\* Two words: the previous block and the end of this one.
HeaderSize == 2 * Word

last(b) == b.base + b.size

within_block(b, addr) == b.base <= addr /\ addr <= b.base + b.size

next_power_of_two(n) == CHOOSE p \in Powers : p >= n /\ \A q \in Powers : q >= n => p <= q

saturating_sub(m, n) == IF m >= n THEN m - n ELSE 0

alloc_size(l) == l.size + saturating_sub(l.align, Word) + Word

\* The cells in the head block are forgotten.
AllocFrom_Last(block) == last(block)

\* The end of the free part of the head block: its lowest cell if it has one.
AllocFrom(block) ==
  IF top # NoPtr /\ within_block(block, top) THEN top ELSE last(block)

\* The space lost to alignment is left out.
Exhausted_NoPadding(l, block, from) == from - (l.size + Word) - block.base < HeaderSize

\* The end of the block is not looked at.
Exhausted_Never(l, block, from) == FALSE

\* Is there no room for l below address from?
Exhausted(l, block, from) ==
  saturating_sub(saturating_sub(from, alloc_size(l)), block.base) < HeaderSize

\* alloc_new_block: the heap can place block b beside those in use.
alloc_new_block(b, used) ==
  \A c \in used : last(b) <= c.base \/ last(c) <= b.base

grow_initial(l, base) ==
  [base |-> base, size |-> next_power_of_two(alloc_size(l) + HeaderSize)]

grow_alloc_new_top(l, old, base) ==
  [base |-> base, size |-> next_power_of_two(old.size + alloc_size(l))]

\* res & !(align - 1)
AlignDown(addr, align) == addr - (addr % align)

-----------------------------------------------------------------------------
(***************************************************************************)
(* Operations.  first and next are where the heap places the block of      *)
(* grow_initial and of grow_alloc_new_top, if there is one.                *)
(***************************************************************************)
alloc_layout(l, first, next) ==
  LET chain1 == IF blocks = <<>> THEN <<grow_initial(l, first)>> ELSE blocks
      head == Last(chain1)
      grows == Exhausted(l, head, AllocFrom(head))
      chain2 == IF grows THEN Append(chain1, grow_alloc_new_top(l, head, next)) ELSE chain1
      from == IF grows THEN last(Last(chain2)) ELSE AllocFrom(head)
      res == AlignDown(from - l.size, IF l.align > Word THEN l.align ELSE Word)
      new == ToSet(chain2) \ ToSet(blocks)
  IN  /\ blocks # <<>> => first = next
      /\ Len(live) < MaxCells
      /\ \E p \in Powers : p >= (IF blocks = <<>> THEN HeaderSize ELSE Last(blocks).size)
                                 + alloc_size(l)
      /\ \A b \in new : alloc_new_block(b, heap \cup (new \ {b}))
      /\ blocks' = chain2
      /\ heap' = heap \cup new
      /\ top' = res - Word
      /\ back' = [a \in DOMAIN back \cup {res - Word} |-> IF a = res - Word THEN top ELSE back[a]]
      /\ live' = Append(live, [at |-> res - Word, size |-> Word + l.size, align |-> l.align])

\* The freed block is left in the chain.
pop_dealloc_Linked ==
  /\ top # NoPtr
  /\ LET old == blocks[Len(blocks) - 1]
         frees == /\ ~within_block(Last(blocks), top)
                  /\ back[top] = NoPtr \/ ~within_block(old, back[top])
     IN  heap' = IF frees THEN heap \ {old} ELSE heap
  /\ top' = back[top]
  /\ back' = [a \in DOMAIN back \ {top} |-> back[a]]
  /\ live' = Front(live)
  /\ UNCHANGED blocks

\* The block behind the head is taken for the one the cell was in, and freed when
\* the cell below is not in it.
pop_dealloc ==
  /\ top # NoPtr
  /\ LET old == blocks[Len(blocks) - 1]
         frees == /\ ~within_block(Last(blocks), top)
                  /\ back[top] = NoPtr \/ ~within_block(old, back[top])
     IN  /\ blocks' = IF frees THEN RemoveAt(blocks, Len(blocks) - 1) ELSE blocks
         /\ heap' = IF frees THEN heap \ {old} ELSE heap
  /\ top' = back[top]
  /\ back' = [a \in DOMAIN back \ {top} |-> back[a]]
  /\ live' = Front(live)

\* StackAllocator::drop, after Stack::drop has popped everything; a new allocator
\* takes its place.
drop ==
  /\ live = <<>>
  /\ blocks # <<>>
  /\ heap' = heap \ ToSet(blocks)
  /\ blocks' = <<>>
  /\ top' = NoPtr
  /\ UNCHANGED <<back, live>>

AllocNext ==
  \/ \E l \in Layouts, first, next \in Bases : alloc_layout(l, first, next)
  \/ pop_dealloc
  \/ drop

AllocSpec == AllocInit /\ [][AllocNext]_allocVars

-----------------------------------------------------------------------------
(***************************************************************************)
(* Properties.                                                             *)
(***************************************************************************)
InBlock(c, b) == b.base + HeaderSize <= c.at /\ c.at + c.size <= last(b)

\* A live cell lies within a block of the chain and above its header: alloc_size
\* asks for enough whatever the alignment, and pop_dealloc never frees a block
\* with a live cell in it.
CellsInBlocks == \A i \in 1..Len(live) : \E b \in ToSet(blocks) : InBlock(live[i], b)

\* No two live cells overlap, back pointers included, and every value is aligned
\* as its layout asks.
CellsApart ==
  /\ \A i, j \in 1..Len(live) : i < j =>
       \/ live[i].at + live[i].size <= live[j].at
       \/ live[j].at + live[j].size <= live[i].at
  /\ \A i \in 1..Len(live) : live[i].at % Word = 0 /\ (live[i].at + Word) % live[i].align = 0

\* Cells are popped in the opposite order they were allocated in, and an older
\* cell is never in a newer block: so the block pop_dealloc frees is empty, though
\* it need not be the one the popped cell was in.
CellsFollowBlocks ==
  /\ top = IF live = <<>> THEN NoPtr ELSE Last(live).at
  /\ \A i, j \in 1..Len(live), m, n \in 1..Len(blocks) :
       i < j /\ InBlock(live[i], blocks[m]) /\ InBlock(live[j], blocks[n]) => m <= n

\* Every block the heap has handed out is in the chain and the other way round:
\* none is leaked or freed twice, and drop frees them all.
HeapIsChain == heap = ToSet(blocks)
=============================================================================
