----------------------------- MODULE MemoryPool -----------------------------
(***************************************************************************)
(* MemoryPool of include/cmo_mempool.h: a list of free blocks and a list   *)
(* of used ones in the int array of a NobArray.  The client is AVLTree,    *)
(* which allocates only when the pool is not full and frees only blocks it *)
(* holds.                                                                  *)
(***************************************************************************)
EXTENDS LinkedBlocks

CONSTANT
  ResetAfterFree  \* whether the client resets a pool it has freed blocks of;
                  \* the one caller of the repository, element_count, does not

ASSUME ResetAssumption == ResetAfterFree \in BOOLEAN

VARIABLES
  data,     \* the array the pool lives in, as the section sees it
  nob_len,  \* the length of the NobArray over it
  held,     \* the blocks the client has allocated and not freed
  freed     \* whether the client has freed a block

pvars == <<data, nob_len, held, freed>>

\* Where the two lists are.
FREE_BLOCK_META_ADDR == 1
USED_BLOCK_META_ADDR == 2

DataLen == 3 + Capacity * BlockSize
Blocks  == BlocksFrom(3)

\* The addresses must fit their fields, and nothing is above the array but
\* the word a pool of one block writes to.
ASSUME PoolAssumption == DataLen \in 1 .. Half - 1

Addresses == 0 .. DataLen

empty(m) == begin_addr(m, USED_BLOCK_META_ADDR) = 0
full(m)  == begin_addr(m, FREE_BLOCK_META_ADDR) = 0

\* The constructor.  The elements are not initialised.
Constructed(junk) ==
  [x \in Addresses |->
     CASE x = 0 -> Word(DataLen, Capacity)
       [] x = FREE_BLOCK_META_ADDR -> Word(3, DataLen - BlockSize)
       [] x = USED_BLOCK_META_ADDR -> Word(0, 0)
       [] x \in Blocks -> Linked(3, x)
       [] OTHER -> junk]

Init ==
  /\ \E junk \in {e[0] : e \in Element} : data = Constructed(junk)
  /\ nob_len = DataLen
  /\ held = {}
  /\ freed = FALSE

\* The model goes no further once a section does not hold the whole pool.
InSection == nob_len = DataLen

reset_nob ==
  /\ InSection
  /\ freed => ResetAfterFree
  /\ nob_len' = data[0].hi
  /\ UNCHANGED <<data, held, freed>>

alloc_block ==
  /\ InSection /\ ~full(data)
  /\ LET addr == begin_addr(data, FREE_BLOCK_META_ADDR) IN
     /\ data' = PutLast(TakeFirst(data, FREE_BLOCK_META_ADDR),
                        USED_BLOCK_META_ADDR, addr)
     /\ held' = held \cup {addr}
  /\ UNCHANGED <<nob_len, freed>>

\* Fault to seed: the block before the freed one is not linked past it.
UnlinkForward(m, addr) ==
  LET prev == get_block_prev_addr(m, addr)
      next == get_block_next_addr(m, addr)
  IN  IF prev = 0 /\ next = 0 THEN set_addr(m, USED_BLOCK_META_ADDR, 0, 0)
      ELSE LET n == IF prev = 0
                    THEN set_hi(set_hi(m, USED_BLOCK_META_ADDR, next), next, 0)
                    ELSE set_hi(m, next, prev)
           IN  IF next = 0
               THEN set_lo(set_lo(n, USED_BLOCK_META_ADDR, prev), prev, 0)
               ELSE n

\* Take the block addr out of the list of used ones.  When it is the first or
\* the last of several, the neighbour it does not have is address 0, and the
\* word of the pool's own sizes is written over.
Unlink(m, addr) ==
  LET prev == get_block_prev_addr(m, addr)
      next == get_block_next_addr(m, addr)
  IN  IF prev = 0 /\ next = 0 THEN set_addr(m, USED_BLOCK_META_ADDR, 0, 0)
      ELSE LET n == IF prev = 0
                    THEN set_hi(set_hi(m, USED_BLOCK_META_ADDR, next), next, 0)
                    ELSE set_hi(m, next, prev)
           IN  IF next = 0
               THEN set_lo(set_lo(n, USED_BLOCK_META_ADDR, prev), prev, 0)
               ELSE set_lo(n, prev, next)

free_block(addr) ==
  /\ InSection /\ addr \in held
  /\ data' = PutFirst(Unlink(data, addr), FREE_BLOCK_META_ADDR, addr)
  /\ held' = held \ {addr}
  /\ freed' = TRUE
  /\ UNCHANGED nob_len

write_block(addr, e) ==
  /\ InSection /\ addr \in held
  /\ data' = write_element(data, addr + 1, e)
  /\ UNCHANGED <<nob_len, held, freed>>

Next ==
  \/ alloc_block \/ reset_nob
  \/ \E addr \in held :
       free_block(addr) \/ \E e \in Element : write_block(addr, e)

Spec == Init /\ [][Next]_pvars

-----------------------------------------------------------------------------
(* Properties *)

\* Every block is linked into one of the two lists: into that of the used
\* blocks if the client holds it, into that of the free ones if not.
PoolOK ==
  /\ data \in [Addresses -> Words]
  /\ held \subseteq Blocks
  /\ ListOf(data, USED_BLOCK_META_ADDR, held)
  /\ ListOf(data, FREE_BLOCK_META_ADDR, Blocks \ held)

\* The pool as its client sees it.
Used    == Chain(data, USED_BLOCK_META_ADDR)
Content == [b \in held |-> read_element(data, b + 1)]

Pool == INSTANCE BlockPool WITH
  Elements <- Element,
  used <- Used, content <- Content

\* The two lists are a pool of blocks: begin_address and next_address walk the
\* allocated blocks in the order of their allocation, a block is never handed
\* out twice, and it keeps its element while others come and go.
ImplementsBlockPool == Pool!Spec

\* The layout comment calls the first half word "data array length", and
\* reset_nob takes it for that: every section covers the whole pool.
SectionCoversPool == nob_len = DataLen

=============================================================================
