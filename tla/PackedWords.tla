---------------------------- MODULE PackedWords ----------------------------
(***************************************************************************)
(* The words of the data structures that live in a NobArray.  Their        *)
(* metadata packs two 16-bit fields in one int, (hi << 16) | lo, and their *)
(* elements take ElementSize whole ints (include/cmo_mem.h).               *)
(*                                                                         *)
(* A word is the pair of its halves.  The code reads the upper half with   *)
(* an arithmetic shift, so it would come back negative from 2^15 on; the   *)
(* fields here count ints of one leaky section, which holds fewer than     *)
(* 80 * 63 of them (begin_leaky_sec), and so stay below that.              *)
(***************************************************************************)
EXTENDS Integers

CONSTANTS
  ElementSize,  \* calc_element_block_size<T>(), the ints of one element
  Element       \* the elements the client stores, each a function of its ints

Half == 32768  \* 2^15, the bound of a signed field
Full == 65536  \* 2^16, the bound of an unsigned one

Word(hi, lo) == [hi |-> hi, lo |-> lo]
Words == [hi : -Half .. Half - 1, lo : 0 .. Full - 1]

ASSUME ElementAssumption ==
  /\ ElementSize \in Nat \ {0}
  /\ Element \subseteq [0 .. ElementSize - 1 -> Words]

read_element(m, addr) == [k \in 0 .. ElementSize - 1 |-> m[addr + k]]

\* Fault to seed: an element is stored without its last int.
write_element_short(m, addr, e) ==
  [x \in DOMAIN m |->
     IF x \in addr .. addr + ElementSize - 2 THEN e[x - addr] ELSE m[x]]

write_element(m, addr, e) ==
  [x \in DOMAIN m |->
     IF x \in addr .. addr + ElementSize - 1 THEN e[x - addr] ELSE m[x]]

=============================================================================
