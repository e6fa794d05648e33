-------------------------- MODULE MelbourneShuffle --------------------------
(***************************************************************************)
(* melbourne_shuffle: the input is read in batches, a batch is sorted into *)
(* queues by bucket, and each bucket gets the same number of slots for it, *)
(* whatever its queue holds.  A step is a turn of a loop or a leaky        *)
(* section.                                                                *)
(***************************************************************************)
EXTENDS ShuffleState

CONSTANT MelbourneJobs  \* the calls: a permutation and a blow_up_factor

num_of_bucket == find_suitable_partitions(len, CeilSqrt(len))

p_log_len == job.blow_up_factor * CeilLog2(len)

bucket_idx_len == len \div num_of_bucket

MelbourneInit ==
  /\ job \in MelbourneJobs
  /\ pc = "read" /\ read_idx = 0 /\ i = 0 /\ write_idx = 0 /\ bucket_idx = 1
  /\ q = EmptyQueues(num_of_bucket)
  /\ buckets = init_empty_shuffle_buckets(num_of_bucket, p_log_len * CeilDiv(len, num_of_bucket),
                                          0, len, bucket_idx_len)
  /\ arr_out = UnwrittenOutput

(* An element of the batch goes to its bucket's queue.                        *)
Distribute ==
  LET e == init_shuffle_bucket(job.perm).data[read_idx + 1]
      b == BucketOf(e.perm, bucket_idx_len, num_of_bucket)
  IN /\ pc = "read"
     /\ IF QueueFull(q, num_of_bucket)
        THEN pc' = "aborted" /\ UNCHANGED <<read_idx, i, q>>
        ELSE /\ q' = PushBack(q, b, e)
             /\ read_idx' = read_idx + 1 /\ i' = i + 1
             /\ pc' = IF i' < num_of_bucket /\ read_idx' < len THEN "read" ELSE "write"
     /\ UNCHANGED <<job, write_idx, buckets, bucket_idx, arr_out>>

(* The slots before those of batch number n, counted from 0.                  *)
SlotsBefore(n) == n * p_log_len

(* Every bucket gets p_log_len slots of elements and holes, and the program   *)
(* aborts when a queue still has elements.  The next batch has new queues.    *)
WriteOutput ==
  LET before == SlotsBefore(write_idx)
  IN /\ pc = "write"
     /\ IF \E b \in DOMAIN q : Len(q[b]) > p_log_len
        THEN pc' = "aborted" /\ UNCHANGED <<i, write_idx, q, buckets>>
        ELSE /\ buckets' = [b \in DOMAIN buckets |->
                  [buckets[b] EXCEPT !.data = [k \in DOMAIN @ |->
                     IF k \in before + 1 .. before + p_log_len
                     THEN NthOrHole(q[b], k - before) ELSE @[k]]]]
             /\ q' = EmptyQueues(num_of_bucket)
             /\ write_idx' = write_idx + 1 /\ i' = 0
             /\ pc' = IF read_idx < len THEN "read" ELSE "clean"
     /\ UNCHANGED <<job, read_idx, bucket_idx, arr_out>>

MelbourneCleanup ==
  /\ pc = "clean" /\ bucket_idx <= num_of_bucket
  /\ arr_out' = CleanUp(arr_out, buckets[bucket_idx])
  /\ bucket_idx' = bucket_idx + 1
  /\ UNCHANGED <<job, pc, read_idx, i, write_idx, q, buckets>>

MelbourneReturn ==
  /\ pc = "clean" /\ bucket_idx > num_of_bucket
  /\ pc' = "done"
  /\ UNCHANGED <<job, read_idx, i, write_idx, q, buckets, bucket_idx, arr_out>>

MelbourneNext == Distribute \/ WriteOutput \/ MelbourneCleanup \/ MelbourneReturn

=============================================================================
