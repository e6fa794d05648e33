------------------------------ MODULE MergeSort ------------------------------
(***************************************************************************)
(* merge_sort: merges through two queues that are filled one element of    *)
(* either side at a time while up to two are written out, so that the      *)
(* order in which the sides are read does not depend on the data.  A queue *)
(* holds what was read of its side and not written: lhs[a + 1 .. read].    *)
(***************************************************************************)
EXTENDS Integers, Sequences, SequencesExt, FiniteSetsExt

LOCAL SqrtFloor(n) == Max({r \in 0 .. n : r * r <= n})

(* A merge of two sorted sides: a and b elements of them are written, i of   *)
(* each have been read, as far as there are so many.                         *)
StartMerge(lhs, rhs, blow_up_factor) ==
  [lhs |-> lhs, rhs |-> rhs, a |-> 0, b |-> 0, i |-> 0, out |-> << >>, status |-> "merging",
   s |-> blow_up_factor * SqrtFloor(Len(lhs) + Len(rhs))]

LhsQueued(m) == Min({m.i, Len(m.lhs)}) - m.a

RhsQueued(m) == Min({m.i, Len(m.rhs)}) - m.b

(* Reads the next element of either side, where there is one.                *)
ReadBoth(m) ==
  IF m.status # "merging" THEN m
  ELSE IF \/ m.i < Len(m.lhs) /\ LhsQueued(m) >= m.s
          \/ m.i < Len(m.rhs) /\ RhsQueued(m) >= m.s
  THEN [m EXCEPT !.status = "queue is full"]
  ELSE [m EXCEPT !.i = @ + 1]

TakeLhs(m) == [m EXCEPT !.a = @ + 1, !.out = Append(@, m.lhs[m.a + 1])]

TakeRhs(m) == [m EXCEPT !.b = @ + 1, !.out = Append(@, m.rhs[m.b + 1])]

(* Writes the smaller front; of two equal ones, that of the longer queue.    *)
(* The loop's i is one less than what has been read.                         *)
WriteOne(m) ==
  IF m.status # "merging" THEN m
  ELSE IF LhsQueued(m) > 0 /\ RhsQueued(m) > 0
  THEN LET l == m.lhs[m.a + 1]
           r == m.rhs[m.b + 1]
       IN IF l < r \/ (l = r /\ LhsQueued(m) > RhsQueued(m)) THEN TakeLhs(m) ELSE TakeRhs(m)
  ELSE IF m.i - 1 < Len(m.lhs) \/ m.i - 1 < Len(m.rhs)
  THEN [m EXCEPT !.status = "queue is empty"]
  ELSE [m EXCEPT !.status = "done"]

(* Fault to seed: writing starts with the first element that is read.        *)
NothingFetched(m) == 0

(* So many elements of each side are read before the first is written.       *)
Prefetched(m) == m.s \div 2

(* Fault to seed: only the left queue is written out at the end.            *)
DrainLhs(m) ==
  IF m.status \in {"merging", "done"}
  THEN [m EXCEPT !.status = "sorted",
                 !.out = @ \o SubSeq(m.lhs, m.a + 1, Min({m.i, Len(m.lhs)}))]
  ELSE m

(* What is left in a queue follows when the other side is written.           *)
Drain(m) ==
  IF m.status = "merging" /\ LhsQueued(m) > 0 /\ RhsQueued(m) > 0
  THEN [m EXCEPT !.status = "unprocessed data"]
  ELSE IF m.status \in {"merging", "done"}
  THEN [m EXCEPT !.status = "sorted",
                 !.out = @ \o SubSeq(m.lhs, m.a + 1, Min({m.i, Len(m.lhs)}))
                           \o SubSeq(m.rhs, m.b + 1, Min({m.i, Len(m.rhs)}))]
  ELSE m

Merge(lhs, rhs, blow_up_factor) ==
  LET start == StartMerge(lhs, rhs, blow_up_factor)
      half  == Prefetched(start)
      full  == FoldLeft(LAMBDA m, k : ReadBoth(m), start, [k \in 1 .. half |-> k])
      all   == FoldLeft(LAMBDA m, k : WriteOne(WriteOne(ReadBoth(m))), full, rhs)
  IN Drain(all)

(* The sorted array, and what stopped the program if anything did.           *)
RECURSIVE _merge_sort(_, _)
_merge_sort(arr_in, blow_up_factor) ==
  IF Len(arr_in) = 1 THEN [status |-> "sorted", out |-> arr_in]
  ELSE LET half == Len(arr_in) \div 2
           lhs  == _merge_sort(SubSeq(arr_in, 1, half), blow_up_factor)
           rhs  == _merge_sort(SubSeq(arr_in, half + 1, Len(arr_in)), blow_up_factor)
           m    == Merge(lhs.out, rhs.out, blow_up_factor)
       IN IF lhs.status # "sorted" THEN lhs
          ELSE IF rhs.status # "sorted" THEN rhs
          ELSE [status |-> m.status, out |-> m.out]

-----------------------------------------------------------------------------
(* Of the elements up to any x, the left side has no more than d above what  *)
(* the right side has, nor the right side above the left.                     *)
Balanced(lhs, rhs, d) ==
  LET Below(side, x) == Cardinality({k \in DOMAIN side : side[k] <= x})
  IN \A x \in ToSet(lhs \o rhs) : Below(lhs, x) - Below(rhs, x) \in -d .. d

(* Every merge of the sort is fetched whole before it writes, or is balanced  *)
(* enough for what is fetched.                                                *)
RECURSIVE BalancedSort(_, _)
BalancedSort(arr, blow_up_factor) ==
  \/ Len(arr) = 1
  \/ LET half    == Len(arr) \div 2
         lhs     == SubSeq(arr, 1, half)
         rhs     == SubSeq(arr, half + 1, Len(arr))
         fetched == StartMerge(lhs, rhs, blow_up_factor).s \div 2
     IN /\ Len(rhs) <= fetched \/ Balanced(lhs, rhs, 2 * (fetched - 1))
        /\ BalancedSort(lhs, blow_up_factor) /\ BalancedSort(rhs, blow_up_factor)
=============================================================================
