---------------------------- MODULE LinkedBlocks ----------------------------
(***************************************************************************)
(* The doubly linked lists that MemoryPool (include/cmo_mempool.h) and     *)
(* MultiQueue (include/cmo_queue.h) keep in an int array.  A block is a    *)
(* word with the addresses of its neighbours followed by an element; a     *)
(* list is a word of metadata with the addresses of its first and last     *)
(* block.  The address 0 stands for none.                                  *)
(*                                                                         *)
(* Each operator maps the array before a piece of code to the array after  *)
(* it.                                                                     *)
(***************************************************************************)
EXTENDS PackedWords, Sequences, FiniteSets

CONSTANT Capacity

ASSUME BlocksAssumption == Capacity \in Nat \ {0}

BlockSize == 1 + ElementSize

begin_addr(m, list)      == m[list].hi
end_addr(m, list)        == m[list].lo
get_block_prev_addr(m, a) == m[a].hi
get_block_next_addr(m, a) == m[a].lo

set_addr(m, a, hi, lo)  == [m EXCEPT ![a] = Word(hi, lo)]
set_hi(m, a, hi)        == set_addr(m, a, hi, m[a].lo)
set_lo(m, a, lo)        == set_addr(m, a, m[a].hi, lo)

\* Take the first block off a list.
TakeFirst(m, list) ==
  LET next == get_block_next_addr(m, begin_addr(m, list)) IN
  IF next = 0 THEN set_addr(m, list, 0, 0)
  ELSE set_hi(set_hi(m, next, 0), list, next)

\* Take the last block off a list.
TakeLast(m, list) ==
  LET prev == get_block_prev_addr(m, end_addr(m, list)) IN
  IF prev = 0 THEN set_addr(m, list, 0, 0)
  ELSE set_lo(set_lo(m, prev, 0), list, prev)

\* Put the block a before the first block of a list.
PutFirst(m, list, a) ==
  LET begin == begin_addr(m, list) IN
  IF begin = 0 THEN set_addr(set_addr(m, a, 0, 0), list, a, a)
  ELSE set_hi(set_addr(set_hi(m, begin, a), a, 0, begin), list, a)

\* Fault to seed: the block that was last keeps its end of list.
PutLastUnlinked(m, list, a) ==
  LET end == end_addr(m, list) IN
  IF end = 0 THEN set_addr(set_addr(m, a, 0, 0), list, a, a)
  ELSE set_lo(set_addr(m, a, end, 0), list, a)

\* Put the block a behind the last block of a list.
PutLast(m, list, a) ==
  LET end == end_addr(m, list) IN
  IF end = 0 THEN set_addr(set_addr(m, a, 0, 0), list, a, a)
  ELSE set_lo(set_addr(set_lo(m, end, a), a, end, 0), list, a)

\* The addresses of the blocks, the first of which is at first.
BlocksFrom(first) == {first + k * BlockSize : k \in 0 .. Capacity - 1}

\* What the constructors make of the blocks: all of them linked in order.
\* The test for the last block is an else of the test for the first one, so a
\* single block is left with a neighbour behind the array.
Linked(first, a) ==
  Word(IF a = first THEN 0 ELSE a - BlockSize,
       IF a # first /\ a = first + (Capacity - 1) * BlockSize THEN 0
       ELSE a + BlockSize)

-----------------------------------------------------------------------------
(* What the lists mean *)

\* The blocks of a list in order, as the code enumerates them.
Chain(m, list) ==
  LET at[k \in 1 .. Capacity + 1] ==
        IF k = 1 THEN begin_addr(m, list)
        ELSE IF at[k - 1] = 0 THEN 0 ELSE get_block_next_addr(m, at[k - 1])
  IN  [k \in 1 .. Cardinality({j \in 1 .. Capacity + 1 : at[j] # 0}) |-> at[k]]

\* The blocks B are linked to and fro between the ends of a list.
ListOf(m, list, B) ==
  /\ begin_addr(m, list) \in B \cup {0}
  /\ end_addr(m, list) \in B \cup {0}
  /\ B = {} <=> begin_addr(m, list) = 0
  /\ B = {} <=> end_addr(m, list) = 0
  /\ \A b \in B :
       /\ get_block_next_addr(m, b) \in B \cup {0}
       /\ get_block_prev_addr(m, b) \in B \cup {0}
       /\ get_block_next_addr(m, b) = 0 <=> b = end_addr(m, list)
       /\ get_block_prev_addr(m, b) = 0 <=> b = begin_addr(m, list)
       /\ get_block_next_addr(m, b) # 0 =>
            get_block_prev_addr(m, get_block_next_addr(m, b)) = b
       /\ get_block_prev_addr(m, b) # 0 =>
            get_block_next_addr(m, get_block_prev_addr(m, b)) = b

=============================================================================
