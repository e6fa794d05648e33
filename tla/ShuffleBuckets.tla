--------------------------- MODULE ShuffleBuckets ---------------------------
(***************************************************************************)
(* Buckets of the two bucket shuffles (shuffle_bucket.cpp): a range of     *)
(* positions of the output, and slots for the elements bound for it.  An   *)
(* element is known by its index in the input, its value.                  *)
(***************************************************************************)
EXTENDS Integers, Sequences, FiniteSets, FiniteSetsExt, Functions

CONSTANT MaxArranged  \* up to so many slots, all arrangements of a bucket

-----------------------------------------------------------------------------
(* How a range of positions is divided: how many buckets, the positions of    *)
(* each, and the bucket of a position.  Buckets count from 1; offsets from   *)
(* the beginning of the range that is divided.                                *)

CeilDiv(a, b) == (a + b - 1) \div b

RoundDiv(a, b) == (2 * a + b) \div (2 * b)

(* Fault to seed: the number that was asked for.                             *)
PartitionsAsked(len, partition) == partition

find_suitable_partitions(len, partition) ==
  LET enough == CeilDiv(len, CeilDiv(len, partition))
  IN IF partition < enough THEN partition ELSE enough

BeginOf(b, idx_len) == (b - 1) * idx_len

(* The last bucket has what is left of the range.                            *)
EndOf(b, num_of_bucket, idx_len, len) == IF b = num_of_bucket THEN len ELSE b * idx_len

(* Fault to seed: positions past the last bucket's share have no bucket.    *)
BucketUnclamped(offset, idx_len, num_of_bucket) == (offset \div idx_len) + 1

BucketOf(offset, idx_len, num_of_bucket) ==
  LET bucket_idx == offset \div idx_len
  IN IF bucket_idx < num_of_bucket THEN bucket_idx + 1 ELSE num_of_bucket

(* The square root and the logarithm to base 2, rounded up, of n >= 1.       *)
CeilSqrt(n) == Cardinality({r \in 0 .. n : r * r < n})

CeilLog2(n) == Cardinality({k \in 0 .. n : 2 ^ k < n})

-----------------------------------------------------------------------------
(* The buckets.                                                               *)

Hole == [value |-> -1, perm |-> -1]

IsHole(e) == e.perm = -1

init_shuffle_bucket(perm) ==
  [begin_idx |-> 0, end_idx |-> Len(perm),
   data |-> [k \in 1 .. Len(perm) |-> [value |-> k - 1, perm |-> perm[k]]]]

init_empty_shuffle_buckets(num_of_bucket, bucket_len, begin_idx, end_idx, bucket_idx_len) ==
  [b \in 1 .. num_of_bucket |->
     [begin_idx |-> begin_idx + BeginOf(b, bucket_idx_len),
      end_idx   |-> begin_idx + EndOf(b, num_of_bucket, bucket_idx_len, end_idx - begin_idx),
      data      |-> [k \in 1 .. bucket_len |-> Hole]]]

IdxLen(bucket) == bucket.end_idx - bucket.begin_idx

(* The swaps reach every arrangement of n slots; more than MaxArranged stay,  *)
(* or turn by half, read either way.                                          *)
Orders(n) ==
  LET turns == {n - 1, n \div 2}
  IN IF n <= MaxArranged
     THEN Bijection(1 .. n, 1 .. n)
     ELSE {[k \in 1 .. n |-> 1 + ((k + r) % n)] : r \in turns} \cup
          {[k \in 1 .. n |-> 1 + ((n - k + r) % n)] : r \in turns}

(* The arrangements of a sequence that fisher_yates_shuffle may leave.        *)
fisher_yates_shuffle(arr) == {[k \in DOMAIN arr |-> arr[p[k]]] : p \in Orders(Len(arr))}

(* Fault to seed: the values are swapped and the positions are not.         *)
ValuesSwapped(bucket) ==
  {[bucket EXCEPT !.data = [k \in DOMAIN @ |-> [@[k] EXCEPT !.value = bucket.data[p[k]].value]]] :
     p \in Orders(Len(bucket.data))}

randomize_shuffle_bucket(bucket) ==
  {[bucket EXCEPT !.data = data] : data \in fisher_yates_shuffle(bucket.data)}

-----------------------------------------------------------------------------
(* The shuffles keep a queue of elements for each bucket: a multi-queue with  *)
(* a block for each element.                                                  *)

EmptyQueues(num_of_bucket) == [b \in 1 .. num_of_bucket |-> << >>]

Blocks(q) == UNION {{b} \X DOMAIN q[b] : b \in DOMAIN q}

QueueFull(q, capacity) == Cardinality(Blocks(q)) = capacity

PushBack(q, b, e) == [q EXCEPT ![b] = Append(@, e)]

(* The k-th element of a queue, and a hole when there is none.               *)
NthOrHole(queue, k) == IF k <= Len(queue) THEN queue[k] ELSE Hole

(* The last step of both shuffles: a bucket's elements go to their places.   *)
CleanUp(arr_out, bucket) ==
  [j \in DOMAIN arr_out |->
     LET slots == {k \in DOMAIN bucket.data : bucket.data[k].perm = j}
     IN IF slots = {} THEN arr_out[j] ELSE bucket.data[Max(slots)].value]
=============================================================================
