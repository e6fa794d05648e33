--------------------------- MODULE BucketShuffles ---------------------------
(***************************************************************************)
(* A caller of the two bucket shuffles, and what both must do: take every  *)
(* element of the input to the place its permutation names.                *)
(***************************************************************************)
EXTENDS MelbourneShuffle, CacheShuffle

IsPermutation(perm) ==
  /\ Len(perm) > 0
  /\ perm \in Bijection(1 .. Len(perm), 0 .. Len(perm) - 1)

(* The callers pass a permutation of the places of an array that is not empty. *)
ASSUME MelbourneAssumption ==
  \A j \in MelbourneJobs :
    j \in [perm : Seq(Nat), blow_up_factor : Nat] /\ IsPermutation(j.perm)

(* With a mem_cap below 2 the cache shuffle would read no element in a pass.  *)
ASSUME CacheAssumption ==
  \A j \in CacheJobs :
    j \in [perm : Seq(Nat), epsilon : Nat, mem_cap : Nat \ {0, 1}] /\ IsPermutation(j.perm)

cacheOnly == <<temp, cur, new_temp, spray>>

vars == <<job, pc, read_idx, i, write_idx, q, buckets, bucket_idx, arr_out, cacheOnly>>

IsMelbourne == "blow_up_factor" \in DOMAIN job

Init ==
  \/ MelbourneInit /\ temp = << >> /\ cur = 1 /\ new_temp = << >> /\ spray = << >>
  \/ CacheInit

Melbourne == IsMelbourne /\ MelbourneNext /\ UNCHANGED cacheOnly

Cache == ~IsMelbourne /\ CacheNext

Terminating == pc \in {"done", "aborted"} /\ UNCHANGED vars

Next == Melbourne \/ Cache \/ Terminating

Spec == Init /\ [][Next]_vars /\ WF_vars(Next)

-----------------------------------------------------------------------------
(* The buckets that are read: the Melbourne shuffle has only the input.       *)
Sources == IF IsMelbourne THEN <<init_shuffle_bucket(job.perm)>> ELSE temp

Datas(bs) == [b \in DOMAIN bs |-> bs[b].data]

(* Where an element may be that is not in the output yet, and the places      *)
(* there: a store, a bucket and a slot.                                       *)
Stores == [source |-> Datas(Sources), queue |-> q, bucket |-> Datas(buckets),
           next |-> Datas(new_temp)]

Slots == UNION {UNION {{<<store, b, k>> : k \in DOMAIN Stores[store][b]} :
                         b \in DOMAIN Stores[store]} : store \in DOMAIN Stores}

At(x) == Stores[x[1]][x[2]][x[3]]

(* What has been read or cleaned up stays in memory, but does not count.      *)
Passed(x) ==
  \/ x[1] = "source" /\ (x[2] < cur \/ (x[2] = cur /\ x[3] <= read_idx))
  \/ x[1] = "bucket" /\ IsMelbourne /\ x[2] < bucket_idx
  \/ pc = "done"

Places == {x \in Slots : ~Passed(x) /\ ~IsHole(At(x))}

Placed == {j \in DOMAIN arr_out : arr_out[j] # -1}

(* A bucket had fewer slots than positions, and not every element may fit.    *)
Tight == ~IsMelbourne /\ spray.tight

(* Sprays, batches and refills neither lose nor double an element: it is in *)
(* one queue, bucket or place of the output at any time.  The cache shuffle   *)
(* may drop what is left in its queues after the refill, when its numbers     *)
(* gave a bucket fewer slots than positions.                                  *)
Conserved ==
  LET places == Places
      values == {At(x).value : x \in places} \cup {arr_out[j] : j \in Placed}
  IN /\ Cardinality(values) = Cardinality(places) + Cardinality(Placed)
     /\ Tight \/ values = 0 .. len - 1

(* The ranges of buckets follow each other from one position to another, none *)
(* is empty, and each holds the positions of the bucket's elements.           *)
Split(bs, from, to) ==
  /\ \A b \in DOMAIN bs :
       /\ bs[b].begin_idx = IF b = 1 THEN from ELSE bs[b - 1].end_idx
       /\ bs[b].begin_idx < bs[b].end_idx
       /\ \A k \in DOMAIN bs[b].data :
            IsHole(bs[b].data[k]) \/ bs[b].data[k].perm \in bs[b].begin_idx .. bs[b].end_idx - 1
  /\ bs # << >> => bs[Len(bs)].end_idx = to

(* However a range is divided and rounded, its buckets divide it, so that no  *)
(* clean-up writes outside its part of the output: those of a spray divide    *)
(* the range of the bucket that is sprayed, and those of the next round what  *)
(* this one has come through.                                                 *)
RangesSplit ==
  IF IsMelbourne THEN Split(buckets, 0, len)
  ELSE /\ Split(temp, 0, len)
       /\ buckets # << >> => Split(buckets, temp[cur].begin_idx, temp[cur].end_idx)
       /\ Split(new_temp, 0, IF cur <= Len(temp) THEN temp[cur].begin_idx ELSE len)

(* A shuffle that returns has put each element where the permutation says.   *)
(* After a tight spray a place may be left as it was, but never gets          *)
(* another's element.                                                         *)
Delivered ==
  pc = "done" =>
    \A v \in 0 .. len - 1 :
      LET at == arr_out[job.perm[v + 1]]
      IN at = v \/ (Tight /\ at = -1)

(* The programs abort for unlucky permutations only where they can be        *)
(* unlucky: the Melbourne shuffle when a batch is larger than its share of a  *)
(* bucket; the cache shuffle past the second pass of a spray, over a range    *)
(* of more positions than its queues hold.                                    *)
AbortsOnlyWhenTight ==
  pc = "aborted" =>
    IF IsMelbourne THEN p_log_len < num_of_bucket
    ELSE read_idx >= 2 * spray.s /\ IdxLen(temp[cur]) > 2 * spray.s

(* Sprays shorten the ranges, so that the shuffles end, with a pass of at     *)
(* least two elements.                                                        *)
ShufflesEnd == (IsMelbourne \/ S >= 2) => <>(pc \in {"done", "aborted"})
=============================================================================
