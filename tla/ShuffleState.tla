---------------------------- MODULE ShuffleState ----------------------------
(***************************************************************************)
(* The locals that the two bucket shuffles have in common.  A call starts  *)
(* with its arguments in job, and is a permutation with the parameters of  *)
(* either program.                                                         *)
(***************************************************************************)
EXTENDS ShuffleBuckets

VARIABLES
  job,         \* the call that is served
  pc,          \* what comes next
  read_idx,    \* elements of the input, or of the bucket that is sprayed, read
  i,           \* turns of the inner loop
  write_idx,   \* turns of the outer loop: batches, passes of a spray or refill
  q,           \* the queues
  buckets,     \* the buckets that are filled
  bucket_idx,  \* the bucket that the loop over the buckets has come to
  arr_out

len == Len(job.perm)

(* The position that no element has been written to yet holds -1.             *)
UnwrittenOutput == [j \in 0 .. len - 1 |-> -1]
=============================================================================
