------------------------------ MODULE CMOArray ------------------------------
(***************************************************************************)
(* Array and ROArray of cmo_array.h, as the ints that every section        *)
(* registers again: a length, a size, and the elements' blocks one after   *)
(* the other.  A block is a sequence; each field of an element takes one   *)
(* place in it here, however many ints it has.                             *)
(***************************************************************************)
EXTENDS Integers, Sequences

(* The ints of a new array; the elements' are whatever the memory held.      *)
NewArray(size, block_size, garbage) ==
  [x \in 0 .. size * block_size + 1 |->
     CASE x = 0 -> size * block_size + 2
       [] x = 1 -> size
       [] OTHER -> garbage]

(* What a section covers, from the length the array itself keeps.            *)
reset_nob(data) == 0 .. data[0] - 1

size(data) == data[1]

(* Fault to seed: blocks begin right after the first word.                  *)
addr_off_by_one(idx, block_size) == idx * block_size + 1

addr(idx, block_size) == idx * block_size + 2

read(data, idx, block_size) ==
  [k \in 1 .. block_size |-> data[addr(idx, block_size) + k - 1]]

write(data, idx, element) ==
  LET first == addr(idx, Len(element))
  IN [x \in DOMAIN data |->
        IF x \in first .. first + Len(element) - 1 THEN element[x - first + 1] ELSE data[x]]
=============================================================================
