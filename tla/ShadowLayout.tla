---------------------------- MODULE ShadowLayout ----------------------------
(***************************************************************************)
(* The geometry of the shadow memory: how begin_leaky_sec divides the sets *)
(* of the L1 data cache between the objects of a runtime, and how the four *)
(* cal_* functions turn an offset inside a region into an index of         *)
(* g_shadow_mem.  There is no state here; CMORuntime supplies it.          *)
(*                                                                         *)
(* The unit is the 32-bit int, as in the code: a cache line is LineSize    *)
(* ints, and two indices that differ by PageInts fall into the same L1     *)
(* set.  A region is a range of L1 sets; an offset in it walks through the *)
(* sets of the range and then goes on in the next page.                    *)
(***************************************************************************)
EXTENDS Integers

CONSTANTS
  LineSize,     \* LINE_SIZE: ints in a cache line (16)
  L1Sets,       \* L1_SETS: sets of the L1 data cache (64)
  L1Ways,       \* L1_WAYS: lines of one set (8)
  ActiveWays,   \* lines of a set that a region may fill (5)
  ReadNobWays,  \* lines of a set that read-only arrays may fill (1536)
  LLCSize,      \* LLC_SIZE: ints in the last-level cache (1048576)
  ShadowPages,  \* pages of shadow_mem (2048)
  AllocPage     \* page whose first line holds the ALLOC record (6)

ASSUME GeometryAssumption ==
  /\ LineSize \in Nat \ {0}
  /\ L1Sets \in Nat \ {0}
  /\ L1Ways \in Nat
  /\ ActiveWays \in Nat \ {0}
  /\ ReadNobWays \in Nat \ {0}
  /\ LLCSize \in Nat
  /\ ShadowPages \in Nat
  /\ AllocPage \in Nat

\* What the numbers of the code satisfy and its comments never say: a full
\* region and the metadata fit the associativity of the cache, and the shadow
\* memory is long enough for the deepest region, the read-only arrays, whose
\* offsets start where those of the other random-access arrays end.
ASSUME CapacityAssumption ==
  /\ ActiveWays <= L1Ways
  /\ AllocPage < L1Ways
  /\ AllocPage < ShadowPages
  /\ ActiveWays <= ShadowPages
  /\ (L1Sets - 2) * ActiveWays + ReadNobWays <= ShadowPages

PageInts      == L1Sets * LineSize
ActiveSetSize == ActiveWays * LineSize
ReadNobSize   == ReadNobWays * LineSize
ShadowInts    == ShadowPages * PageInts

Addr == 0 .. ShadowInts - 1

-----------------------------------------------------------------------------
(* Addresses *)

\* The shape the four cal_* functions share: the offset wraps every `sets`
\* cache sets into the next page, and the region starts at set `base`.
Wrap(offset, sets, base) ==
  (offset \div (sets * LineSize)) * PageInts
    + (offset % (sets * LineSize)) + base * LineSize

cal_ob(offset, alloc) == Wrap(offset, alloc.ob_r, alloc.meta)

\* Fault to seed: the region of the writers starts where that of the readers does.
cal_ob_rw_over_ob(offset, alloc) == Wrap(offset, alloc.ob_w, alloc.meta)

cal_ob_rw(offset, alloc) == Wrap(offset, alloc.ob_w, alloc.meta + alloc.ob_r)

\* Fault to seed: the region of the arrays starts where that of the writers does.
cal_nob_over_ob_rw(offset, alloc) == Wrap(offset, alloc.nob_w, alloc.meta + alloc.ob_r)

cal_nob(offset, alloc) ==
  Wrap(offset, alloc.nob_w, alloc.meta + alloc.ob_r + alloc.ob_w)

cal_read_nob(offset, alloc) ==
  Wrap(offset, alloc.nob_r, alloc.meta + alloc.ob_r + alloc.ob_w + alloc.nob_w)

\* The L1 set and the page of an index: its line is the pair of the two.
SetOf(a)  == (a % PageInts) \div LineSize
PageOf(a) == a \div PageInts

-----------------------------------------------------------------------------
(* Division of the sets *)

\* The ALLOC record at page AllocPage.
Alloc == [meta : Nat, ob_r : Nat, ob_w : Nat, nob_r : Nat, nob_w : Nat]

NobSets(n)     == n \div ActiveSetSize + 1
ReadNobSets(n) == n \div ReadNobSize + 1

\* The two checks of begin_leaky_sec that end in abort_message.  One set is
\* kept for the metadata.
NobFits(n) == n <= LLCSize /\ NobSets(n) <= L1Sets - 1

ReadNobFits(n, rn) ==
  rn <= LLCSize - n /\ ReadNobSets(rn) <= L1Sets - 1 - NobSets(n)

\* Fault to seed: the set of the metadata is taken off twice, down to 0.
SetsLeftButOne(n, rn) ==
  LET left == L1Sets - 2 - NobSets(n) - ReadNobSets(rn) IN IF left < 0 THEN 0 ELSE left

\* Sets left to the iterators once the arrays are placed.
SetsLeft(n, rn) == L1Sets - 1 - NobSets(n) - ReadNobSets(rn)

\* The ALLOC record begin_leaky_sec leaves for n ints of arrays, rn ints of
\* read-only arrays and iterators over r ints read and w ints written.  With
\* nothing to iterate over, ob_r and ob_w keep their old value.
Divide(n, rn, r, w, old) ==
  LET left == SetsLeft(n, rn)
      ob_w == (left * w) \div (w + r)
  IN  IF w = 0 /\ r = 0
      THEN [old EXCEPT !.meta = 1, !.nob_w = NobSets(n), !.nob_r = ReadNobSets(rn)]
      ELSE [meta |-> 1, ob_w |-> ob_w, ob_r |-> left - ob_w,
            nob_w |-> NobSets(n), nob_r |-> ReadNobSets(rn)]

\* A division that gives every region sets of its own, next to the metadata.
Partition(alloc) ==
  /\ alloc \in Alloc
  /\ alloc.meta = 1
  /\ alloc.nob_w # 0 /\ alloc.nob_r # 0
  /\ alloc.meta + alloc.ob_r + alloc.ob_w + alloc.nob_w + alloc.nob_r <= L1Sets

\* Fault to seed: every iterator gets the whole region.
SlotSizeUndivided(sets, count) == sets * ActiveSetSize

\* Ints of the slot one of `count` iterators gets in a region of `sets` sets.
SlotSize(sets, count) == (sets * ActiveSetSize) \div count

=============================================================================
