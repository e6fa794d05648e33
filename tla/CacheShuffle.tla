---------------------------- MODULE CacheShuffle ----------------------------
(***************************************************************************)
(* cache_shuffle: sprays a bucket over several, S elements at a time, one   *)
(* slot of every bucket for each S read; what the slots did not take stays *)
(* in the queues and fills the holes afterwards.  Buckets whose range is   *)
(* longer than mem_cap are sprayed again.  A step is a turn of a loop or a *)
(* leaky section.                                                          *)
(***************************************************************************)
EXTENDS ShuffleState

CONSTANT CacheJobs  \* the calls: a permutation, epsilon in quarters, mem_cap

VARIABLES
  temp,        \* the buckets of this round, those before cur already sprayed
  cur,         \* the bucket this round, or the clean-up, has come to
  new_temp,    \* the buckets of the next round
  spray        \* the spray's S and bucket_idx_len, and as history whether any
               \* spray so far had a bucket with fewer slots than positions

S == Min({len, job.mem_cap \div 2})

Q == CeilDiv((4 + job.epsilon) * S, 4)

CacheInit ==
  /\ job \in CacheJobs
  /\ pc = IF len = 1 THEN "copy" ELSE "first"
  /\ read_idx = 0 /\ i = 0 /\ write_idx = 0 /\ bucket_idx = 1
  /\ q = << >> /\ buckets = << >>
  /\ arr_out = UnwrittenOutput
  /\ temp = <<init_shuffle_bucket(job.perm)>> /\ cur = 1 /\ new_temp = << >>
  /\ spray = [s |-> S, idx_len |-> 0, tight |-> FALSE]

CopyOne ==
  /\ pc = "copy"
  /\ arr_out' = [arr_out EXCEPT ![0] = 0] /\ pc' = "done"
  /\ UNCHANGED <<job, read_idx, i, write_idx, q, buckets, bucket_idx, temp, cur, new_temp, spray>>

BucketLen(n, s, num_of_bucket) == Max({CeilDiv(n, s), CeilDiv(n, num_of_bucket)})

(* A spray of a bucket: s elements in a pass, into num_of_bucket buckets.    *)
StartSpray(bucket, s, num_of_bucket) ==
  LET idx_len == RoundDiv(IdxLen(bucket), num_of_bucket)
  IN /\ temp' = [temp EXCEPT ![cur] = bucket]
     /\ buckets' = init_empty_shuffle_buckets(num_of_bucket,
                     BucketLen(Len(bucket.data), s, num_of_bucket),
                     bucket.begin_idx, bucket.end_idx, idx_len)
     /\ spray' = [s |-> s, idx_len |-> idx_len,
                  tight |-> spray.tight \/ \E b \in 1 .. num_of_bucket :
                                             IdxLen(buckets'[b]) > Len(buckets'[b].data)]
     /\ q' = EmptyQueues(num_of_bucket)
     /\ pc' = "read" /\ read_idx' = 0 /\ i' = 0 /\ write_idx' = 0 /\ bucket_idx' = 1
     /\ UNCHANGED <<job, arr_out, cur, new_temp>>

FirstSpray ==
  /\ pc = "first"
  /\ StartSpray(temp[1], S, find_suitable_partitions(len, Min({Q, len})))

(* A bucket with a long range is sprayed again, in a random order.            *)
Respray ==
  /\ pc = "round" /\ cur <= Len(temp) /\ IdxLen(temp[cur]) > job.mem_cap
  /\ LET n == find_suitable_partitions(IdxLen(temp[cur]), Min({S, IdxLen(temp[cur])}))
     IN \E b \in randomize_shuffle_bucket(temp[cur]) : StartSpray(b, n, n)

(* A bucket with a short range goes to the next round as it is.               *)
Keep ==
  /\ pc = "round" /\ cur <= Len(temp) /\ IdxLen(temp[cur]) <= job.mem_cap
  /\ new_temp' = Append(new_temp, temp[cur]) /\ cur' = cur + 1
  /\ UNCHANGED <<job, pc, read_idx, i, write_idx, q, buckets, bucket_idx, arr_out, temp, spray>>

(* Fault to seed: room for one pass only.                                   *)
CapacityOfOnePass(s) == s

(* The elements the queues of a spray have room for.                          *)
Capacity(s) == 2 * s

(* An element of the pass goes to its bucket's queue; holes are read over.    *)
SprayRead ==
  LET data  == temp[cur].data
      e     == data[read_idx + 1]
      b     == BucketOf(e.perm - temp[cur].begin_idx, spray.idx_len, Len(q))
  IN /\ pc = "read"
     /\ IF ~IsHole(e) /\ QueueFull(q, Capacity(spray.s))
        THEN pc' = "aborted" /\ UNCHANGED <<read_idx, i, q>>
        ELSE /\ q' = IF IsHole(e) THEN q ELSE PushBack(q, b, e)
             /\ read_idx' = read_idx + 1 /\ i' = i + 1
             /\ pc' = IF i' < spray.s /\ read_idx' < Len(data) THEN "read" ELSE "write"
     /\ UNCHANGED <<job, write_idx, buckets, bucket_idx, arr_out, temp, cur, new_temp, spray>>

(* Each bucket gets the next element of its queue, or a hole.                 *)
WritePass ==
  /\ pc = "write"
  /\ buckets' = [b \in DOMAIN buckets |->
                   [buckets[b] EXCEPT !.data[write_idx + 1] = NthOrHole(q[b], 1)]]
  /\ q' = [b \in DOMAIN q |-> IF q[b] = << >> THEN q[b] ELSE Tail(q[b])]
  /\ i' = 0
  /\ IF read_idx < Len(temp[cur].data)
     THEN pc' = "read" /\ write_idx' = write_idx + 1
     ELSE pc' = "refill" /\ write_idx' = 0
  /\ UNCHANGED <<job, read_idx, bucket_idx, arr_out, temp, cur, new_temp, spray>>

(* A slot of a bucket's refill: a hole takes the next element of the queue.    *)
(* There are as many passes over a bucket as it has slots.                    *)
Refill ==
  LET b     == bucket_idx
      slots == Len(buckets[b].data)
  IN /\ pc = "refill" /\ b <= Len(buckets)
     /\ IF IsHole(buckets[b].data[i + 1]) /\ q[b] # << >>
        THEN /\ buckets' = [buckets EXCEPT ![b].data[i + 1] = Head(q[b])]
             /\ q' = [q EXCEPT ![b] = Tail(@)]
        ELSE UNCHANGED <<buckets, q>>
     /\ i' = IF i + 1 < slots THEN i + 1 ELSE 0
     /\ write_idx' = IF i + 1 < slots THEN write_idx
                     ELSE IF write_idx + 1 < slots THEN write_idx + 1 ELSE 0
     /\ bucket_idx' = IF i + 1 = slots /\ write_idx + 1 = slots THEN b + 1 ELSE b
     /\ UNCHANGED <<job, pc, read_idx, arr_out, temp, cur, new_temp, spray>>

(* The queues go with the spray, and whatever they still hold.               *)
EndSpray ==
  /\ pc = "refill" /\ bucket_idx > Len(buckets)
  /\ new_temp' = new_temp \o buckets /\ cur' = cur + 1
  /\ pc' = "round" /\ read_idx' = 0 /\ q' = << >> /\ buckets' = << >>
  /\ UNCHANGED <<job, i, write_idx, bucket_idx, arr_out, temp, spray>>

(* Fault to seed: the buckets of the old round stay.                        *)
EndRoundOfOld ==
  /\ pc = "round" /\ cur > Len(temp)
  /\ temp' = temp /\ new_temp' = << >> /\ cur' = 1
  /\ pc' = IF \A b \in DOMAIN new_temp : IdxLen(new_temp[b]) <= job.mem_cap
           THEN "clean" ELSE "round"
  /\ UNCHANGED <<job, read_idx, i, write_idx, q, buckets, bucket_idx, arr_out, spray>>

EndRound ==
  /\ pc = "round" /\ cur > Len(temp)
  /\ temp' = new_temp /\ new_temp' = << >> /\ cur' = 1
  /\ pc' = IF \A b \in DOMAIN new_temp : IdxLen(new_temp[b]) <= job.mem_cap
           THEN "clean" ELSE "round"
  /\ UNCHANGED <<job, read_idx, i, write_idx, q, buckets, bucket_idx, arr_out, spray>>

CacheCleanup ==
  /\ pc = "clean" /\ cur <= Len(temp)
  /\ arr_out' = CleanUp(arr_out, temp[cur])
  /\ cur' = cur + 1
  /\ UNCHANGED <<job, pc, read_idx, i, write_idx, q, buckets, bucket_idx, temp, new_temp, spray>>

CacheReturn ==
  /\ pc = "clean" /\ cur > Len(temp)
  /\ pc' = "done"
  /\ UNCHANGED <<job, read_idx, i, write_idx, q, buckets, bucket_idx, arr_out, temp, cur, new_temp, spray>>

CacheNext ==
  \/ CopyOne \/ FirstSpray \/ Respray \/ Keep \/ SprayRead \/ WritePass
  \/ Refill \/ EndSpray \/ EndRound \/ CacheCleanup \/ CacheReturn

=============================================================================
