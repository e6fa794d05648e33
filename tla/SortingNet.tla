----------------------------- MODULE SortingNet -----------------------------
(***************************************************************************)
(* The sorting network of sorting_net.cpp on an array of keys and values   *)
(* that starts at index 0.  An entry is a key with its block of values.    *)
(***************************************************************************)
EXTENDS Integers, Sequences, SequencesExt

Upto(n) == [k \in 1 .. n |-> k - 1]

(* Fault to seed: the values stay where they are.                           *)
KeysOnly(array, i, j) ==
  IF array[i].key > array[j].key
  THEN [array EXCEPT ![i].key = array[j].key, ![j].key = array[i].key]
  ELSE array

(* Compares two entries and puts the smaller one first.                      *)
cas_v2m(array, i, j) ==
  IF array[i].key > array[j].key
  THEN [array EXCEPT ![i] = array[j], ![j] = array[i]]
  ELSE array

(* Sorts a bitonic part of length n.                                         *)
RECURSIVE bitonicSort(_, _, _)
bitonicSort(n, start, array) ==
  IF n = 2 THEN cas_v2m(array, start, start + 1)
  ELSE LET half  == n \div 2
           split == FoldLeft(LAMBDA a, i : cas_v2m(a, start + i, start + half + i), array, Upto(half))
       IN bitonicSort(half, start + half, bitonicSort(half, start, split))

(* Sorts a part of length n: either half, then both against each other, the *)
(* second one read backwards.                                                *)
RECURSIVE merger(_, _, _)
merger(n, start, array) ==
  IF n = 2 THEN cas_v2m(array, start, start + 1)
  ELSE LET half   == n \div 2
           halves == merger(half, start + half, merger(half, start, array))
           split  == FoldLeft(LAMBDA a, i : cas_v2m(a, start + i, start + n - 1 - i), halves, Upto(half))
       IN bitonicSort(half, start + half, bitonicSort(half, start, split))
=============================================================================
