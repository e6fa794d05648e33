------------------------ MODULE BucketShufflesProofs ------------------------
(***************************************************************************)
(* The two bucket shuffles for every set of jobs: the ranges of buckets    *)
(* always split what is shuffled, elements are conserved, a shuffle that   *)
(* returns has delivered, and a program aborts only where the permutation  *)
(* can be unlucky.                                                         *)
(*                                                                         *)
(* None of these is inductive.  ShuffleInv, the invariant of the proof,    *)
(* adds what each phase knows of its counters, queues and holes            *)
(* (MelbourneOK, SprayOK, CacheOK), that every position of a range has a   *)
(* bucket which was given it (Divided), and where elements are             *)
(* (Placement).  Placement stands for the counts of Conserved: an element  *)
(* is at one place, its place of the output is not written before it       *)
(* leaves that, and unless a spray was tight it is somewhere.  Each step   *)
(* moves elements to places of their own, which lemmas Moves to TakesOne   *)
(* turn into Placement of the next state.                                  *)
(***************************************************************************)
EXTENDS BucketShuffles, IntegerDivision, FunctionTheorems, FiniteSetTheorems,
        SequenceTheorems, TLAPS

-----------------------------------------------------------------------------
(* The ranges of buckets *)

\* The quotient rounded up is the least that takes b times it to a.
LEMMA CeilDivLeast ==
  ASSUME NEW a \in Nat \ {0}, NEW b \in Nat \ {0}
  PROVE  /\ CeilDiv(a, b) \in Nat \ {0}
         /\ a <= CeilDiv(a, b) * b
         /\ (CeilDiv(a, b) - 1) * b < a
<1> DEFINE n == a + b - 1
           quot == n \div b
<1>1. n \in Nat
  OBVIOUS
<1>2. /\ quot \in Nat
      /\ n % b \in Nat
      /\ n % b < b
      /\ n = quot * b + (n % b)
  BY <1>1, Division
<1>3. CeilDiv(a, b) = quot
  BY DEF CeilDiv
<1> HIDE DEF quot
<1>4. quot # 0
  <2> SUFFICES ASSUME quot = 0 PROVE FALSE
    OBVIOUS
  <2>1. quot * b = 0
    OBVIOUS
  <2> QED BY <1>2, <2>1
<1>5. (quot - 1) * b = quot * b - b /\ quot * b \in Nat
  BY <1>2
<1> QED BY <1>2, <1>3, <1>4, <1>5

\* A range of total positions is divided into n buckets, no more than were asked
\* for, and there is a length c with n * c >= total > (n - 1) * c.
LEMMA SuitablePartitions ==
  ASSUME NEW total \in Nat \ {0}, NEW partition \in 1 .. total
  PROVE  LET n == find_suitable_partitions(total, partition)
             c == CeilDiv(total, partition)
         IN /\ n \in 1 .. partition /\ c \in Nat \ {0}
            /\ total <= n * c
            /\ (n - 1) * c < total
<1> DEFINE c == CeilDiv(total, partition)
           enough == CeilDiv(total, c)
           n == find_suitable_partitions(total, partition)
<1>1. c \in Nat \ {0} /\ total <= c * partition
  BY CeilDivLeast
<1> HIDE DEF c
<1>2. enough \in Nat \ {0} /\ total <= enough * c /\ (enough - 1) * c < total
  BY <1>1, CeilDivLeast
<1>3. n = IF partition < enough THEN partition ELSE enough
  BY DEF find_suitable_partitions, c
<1> HIDE DEF enough, n
<1>4. n \in 1 .. partition /\ n <= enough
  BY <1>2, <1>3
<1>5. total <= n * c
  BY <1>1, <1>2, <1>3
<1>6. (n - 1) * c <= (enough - 1) * c
  BY <1>1, <1>2, <1>4, ProductMonotone
<1>7. (n - 1) * c < total
  BY <1>1, <1>2, <1>4, <1>6
<1> QED BY <1>1, <1>4, <1>5, <1>7 DEF c, n

\* Both ways of dividing the range, rounding (cache_shuffle) and rounding down
\* (melbourne_shuffle), give a bucket a length from 1 to that c.
LEMMA IdxLenBounds ==
  ASSUME NEW total \in Nat, NEW n \in 1 .. total, NEW c \in Nat \ {0}, total <= n * c,
         NEW idx_len \in {RoundDiv(total, n), total \div n}
  PROVE  idx_len \in 1 .. c
<1>1. n * c \in Nat /\ 2 * n \in Nat \ {0}
  BY ProductNat
<1>2. CASE idx_len = total \div n
  <2>1. idx_len \in Nat
    BY <1>2, Division
  <2>2. total < (c + 1) * n
    <3>1. (c + 1) * n = n * c + n
      OBVIOUS
    <3> QED BY <1>1, <3>1
  <2>3. idx_len < c + 1
    BY <1>2, <2>2, QuotientBound
  <2>4. idx_len # 0
    <3> SUFFICES ASSUME idx_len = 0 PROVE FALSE
      OBVIOUS
    <3>1. total < 1 * n
      BY <1>2, ProductBound
    <3> QED BY <3>1
  <2> QED BY <2>1, <2>3, <2>4
<1>3. CASE idx_len = RoundDiv(total, n)
  <2> DEFINE a == 2 * total + n
             k == 2 * n
  <2>1. a \in Nat /\ k \in Nat \ {0}
    BY <1>1
  <2>2. idx_len = a \div k
    BY <1>3 DEF RoundDiv
  <2>3. idx_len \in Nat
    BY <2>1, <2>2, Division
  <2>4. a < (c + 1) * k
    <3>1. (c + 1) * k = 2 * (n * c) + 2 * n
      OBVIOUS
    <3> QED BY <1>1, <3>1
  <2>5. 1 * k <= a
    OBVIOUS
  <2> HIDE DEF a, k
  <2>6. idx_len < c + 1
    BY <2>1, <2>2, <2>4, QuotientBound
  <2>7. idx_len # 0
    <3> SUFFICES ASSUME idx_len = 0 PROVE FALSE
      OBVIOUS
    <3>1. a < 1 * k
      BY <2>1, <2>2, ProductBound
    <3> QED BY <2>1, <2>5, <3>1
  <2> QED BY <2>3, <2>6, <2>7
<1> QED BY <1>2, <1>3

\* The buckets of a range are not empty and follow one another to its end, for
\* every length and every number of buckets asked for, under either rounding.
THEOREM RangesNotEmpty ==
  ASSUME NEW total \in Nat \ {0}, NEW partition \in 1 .. total,
         NEW idx_len \in {RoundDiv(total, find_suitable_partitions(total, partition)),
                          total \div find_suitable_partitions(total, partition)}
  PROVE  LET n == find_suitable_partitions(total, partition)
         IN /\ BeginOf(1, idx_len) = 0 /\ EndOf(n, n, idx_len, total) = total
            /\ \A b \in 1 .. n :
                 /\ BeginOf(b, idx_len) \in Nat
                 /\ BeginOf(b, idx_len) < EndOf(b, n, idx_len, total)
                 /\ b < n => EndOf(b, n, idx_len, total) = BeginOf(b + 1, idx_len)
<1> DEFINE n == find_suitable_partitions(total, partition)
           c == CeilDiv(total, partition)
<1>1. n \in 1 .. partition /\ c \in Nat \ {0} /\ total <= n * c /\ (n - 1) * c < total
  BY SuitablePartitions
<1> HIDE DEF n, c
<1>2. idx_len \in 1 .. c
  <2>1. total \in Nat /\ n \in 1 .. total /\ idx_len \in {RoundDiv(total, n), total \div n}
    BY <1>1 DEF n
  <2> QED BY ONLY <1>1, <2>1, IdxLenBounds
<1>3. (n - 1) * idx_len <= (n - 1) * c
  <2>1. idx_len * (n - 1) <= c * (n - 1)
    BY <1>1, <1>2, ProductMonotone
  <2> QED BY <1>1, <1>2, <2>1
<1>4. (n - 1) * idx_len < total
  BY <1>1, <1>2, <1>3
<1>5. ASSUME NEW b \in 1 .. n
      PROVE  /\ BeginOf(b, idx_len) \in Nat
             /\ BeginOf(b, idx_len) < EndOf(b, n, idx_len, total)
             /\ b < n => EndOf(b, n, idx_len, total) = BeginOf(b + 1, idx_len)
  <2>1. b - 1 \in Nat /\ (b - 1) * idx_len \in Nat
    BY <1>1, <1>2, ProductNat
  <2>2. b * idx_len = (b - 1) * idx_len + idx_len
    BY <1>1, <1>2
  <2>3. (b + 1) - 1 = b
    BY <1>1
  <2> QED BY <1>1, <1>2, <1>4, <2>1, <2>2, <2>3 DEF BeginOf, EndOf
<1>6. BeginOf(1, idx_len) = 0 /\ EndOf(n, n, idx_len, total) = total
  BY <1>2 DEF BeginOf, EndOf
<1> QED BY <1>5, <1>6 DEF n

\* Every position of the range is between the ends of the bucket that the
\* shuffles put its element into, so that no clean-up writes outside its part
\* of the output.
THEOREM PositionsInRange ==
  ASSUME NEW total \in Nat \ {0}, NEW partition \in 1 .. total,
         NEW idx_len \in {RoundDiv(total, find_suitable_partitions(total, partition)),
                          total \div find_suitable_partitions(total, partition)},
         NEW offset \in 0 .. total - 1
  PROVE  LET n == find_suitable_partitions(total, partition)
             b == BucketOf(offset, idx_len, n)
         IN /\ b \in 1 .. n
            /\ BeginOf(b, idx_len) <= offset
            /\ offset < EndOf(b, n, idx_len, total)
<1> DEFINE n == find_suitable_partitions(total, partition)
           c == CeilDiv(total, partition)
           quot == offset \div idx_len
           b == BucketOf(offset, idx_len, n)
<1>1. n \in 1 .. partition /\ c \in Nat \ {0} /\ total <= n * c /\ (n - 1) * c < total
  BY SuitablePartitions
<1> HIDE DEF n, c
<1>2. idx_len \in 1 .. c
  <2>1. total \in Nat /\ n \in 1 .. total /\ idx_len \in {RoundDiv(total, n), total \div n}
    BY <1>1 DEF n
  <2> QED BY ONLY <1>1, <2>1, IdxLenBounds
<1>3. /\ quot \in Nat
      /\ offset % idx_len \in Nat
      /\ offset % idx_len < idx_len
      /\ offset = quot * idx_len + (offset % idx_len)
  BY <1>2, Division
<1>4. b = IF quot < n THEN quot + 1 ELSE n
  BY DEF BucketOf
<1> HIDE DEF quot, b
<1>5. CASE quot < n
  <2>1. b = quot + 1 /\ b \in 1 .. n /\ b - 1 = quot
    BY <1>1, <1>3, <1>4, <1>5
  <2>2. b * idx_len = quot * idx_len + idx_len /\ quot * idx_len \in Nat
    BY <1>2, <1>3, <2>1, ProductNat
  <2> QED BY <1>1, <1>2, <1>3, <2>1, <2>2 DEF BeginOf, EndOf, b, n
<1>6. CASE ~(quot < n)
  <2>1. b = n /\ n - 1 <= quot
    BY <1>1, <1>3, <1>4, <1>6
  <2>2. (n - 1) * idx_len <= quot * idx_len
    BY <1>1, <1>2, <1>3, <2>1, ProductMonotone
  <2>3. quot * idx_len \in Nat /\ (n - 1) * idx_len \in Nat
    BY <1>1, <1>2, <1>3, ProductNat
  <2> QED BY <1>1, <1>2, <1>3, <2>1, <2>2, <2>3 DEF BeginOf, EndOf, b, n
<1> QED BY <1>5, <1>6

-----------------------------------------------------------------------------
(* The invariant of the proof *)

\* The positions of the output.
Positions == 0 .. len - 1

\* The elements of the input, and what a slot may hold.
Elements == {[value |-> k - 1, perm |-> job.perm[k]] : k \in DOMAIN job.perm}

Cells == Elements \cup {Hole}

Bucket == [begin_idx : Nat, end_idx : Nat, data : Seq(Cells)]

\* The call is one of the jobs.
JobOK == IF IsMelbourne THEN job \in MelbourneJobs ELSE job \in CacheJobs

\* The types of both programs' state; that queues hold finitely many blocks lets
\* the blocks be counted.
TypeOK ==
  /\ JobOK
  /\ read_idx \in Nat /\ i \in Nat /\ write_idx \in Nat /\ bucket_idx \in Nat \ {0}
  /\ cur \in Nat \ {0}
  /\ buckets \in Seq(Bucket) /\ temp \in Seq(Bucket) /\ new_temp \in Seq(Bucket)
  /\ q \in [1 .. Len(buckets) -> Seq(Elements)] /\ IsFiniteSet(Blocks(q))
  /\ DOMAIN arr_out = Positions

\* The slots have no hole left.
Full(data) == \A k \in DOMAIN data : ~IsHole(data[k])

\* Each of the total positions after from has its bucket, BucketOf it,
\* whose range holds it.
Divided(bs, from, total, idx_len) ==
  \A x \in 0 .. total - 1 :
    LET b == BucketOf(x, idx_len, Len(bs))
    IN b \in DOMAIN bs /\ from + x \in bs[b].begin_idx .. bs[b].end_idx - 1

\* Queues hold elements of their bucket's range.
QueuesInRange ==
  \A b \in DOMAIN q : \A k \in DOMAIN q[b] :
    q[b][k].perm \in buckets[b].begin_idx .. buckets[b].end_idx - 1

\* The Melbourne shuffle is at most one batch ahead of its buckets: the slots of the
\* passes to come are holes, and a batch gives each queue at most num_of_bucket
\* elements, which the p_log_len slots of a pass hold unless they are fewer.
MelbourneOK ==
  LET n == num_of_bucket  p == p_log_len
  IN /\ pc \in {"read", "write", "clean", "done", "aborted"}
     /\ temp = << >> /\ cur = 1 /\ new_temp = << >>
     /\ Len(buckets) = n
     /\ \A b \in 1 .. n : Len(buckets[b].data) = p * CeilDiv(len, n)
     /\ Divided(buckets, 0, len, bucket_idx_len)
     /\ read_idx <= len /\ i <= n
     /\ Cardinality(Blocks(q)) = i
     /\ pc = "read" => read_idx < len /\ i < n
     /\ pc = "write" => i > 0 /\ (i = n \/ read_idx = len)
     /\ pc \in {"read", "write"} => 
          /\ read_idx = write_idx * n + i
          /\ \A b \in 1 .. n : \A k \in DOMAIN buckets[b].data :
               k > write_idx * p => IsHole(buckets[b].data[k])
          /\ bucket_idx = 1
     /\ pc \in {"clean", "done"} => read_idx = len /\ q = EmptyQueues(n)
     /\ pc = "done" => bucket_idx > n
     /\ pc = "aborted" => p < n

\* The phases of a spray; an abort is inside one.
Spraying == pc \in {"read", "write", "refill", "aborted"}

\* A spray: buckets have a slot for each pass over the source, the slots of passes
\* to come are holes, the queues never hold more than was read, and the refill has
\* emptied the queues, or filled the buckets, before the one it is at.
SprayOK ==
  LET data == temp[cur].data
  IN /\ cur <= Len(temp) /\ Len(buckets) > 0
     /\ spray.s \in Nat \ {0}
     /\ Divided(buckets, temp[cur].begin_idx, IdxLen(temp[cur]), spray.idx_len)
     /\ \A b \in DOMAIN q : \A k \in DOMAIN q[b] :
          q[b][k].perm \in temp[cur].begin_idx .. temp[cur].end_idx - 1
     /\ read_idx <= Len(data)
     /\ \A b \in DOMAIN buckets : Len(data) <= Len(buckets[b].data) * spray.s
     /\ pc \in {"read", "write"} =>
          /\ bucket_idx = 1
          /\ Cardinality(Blocks(q)) <= read_idx
          /\ read_idx = write_idx * spray.s + i
          /\ \A b \in DOMAIN buckets : \A k \in DOMAIN buckets[b].data :
               k > write_idx => IsHole(buckets[b].data[k])
     /\ pc = "read" => read_idx < Len(data) /\ i < spray.s
     /\ pc = "write" => i > 0 /\ (i = spray.s \/ read_idx = Len(data))
     /\ pc = "refill" =>
          /\ read_idx = Len(data) /\ bucket_idx <= Len(buckets) + 1
          /\ bucket_idx <= Len(buckets) =>
               /\ i < Len(buckets[bucket_idx].data)
               /\ \/ q[bucket_idx] = << >>
                  \/ \A k \in 1 .. i : ~IsHole(buckets[bucket_idx].data[k])
          /\ \A b \in 1 .. Len(buckets) :
               b < bucket_idx => q[b] = << >> \/ Full(buckets[b].data)
     /\ pc = "aborted" => read_idx >= 2 * spray.s /\ IdxLen(temp[cur]) > 2 * spray.s
     /\ ~spray.tight => \A b \in DOMAIN buckets : IdxLen(buckets[b]) <= Len(buckets[b].data)

\* The rounds: what was read is not empty, and between sprays no queue and no
\* bucket holds anything.
CacheOK ==
  /\ pc \in {"copy", "first", "round", "read", "write", "refill", "clean", "done", "aborted"}
  /\ Len(temp) > 0 /\ cur <= Len(temp) + 1
  /\ spray \in [s : Nat, idx_len : Nat, tight : BOOLEAN]
  /\ \A b \in DOMAIN temp : Len(temp[b].data) > 0
  /\ \A b \in DOMAIN new_temp : Len(new_temp[b].data) > 0
  /\ \A b \in DOMAIN buckets : Len(buckets[b].data) > 0
  /\ IF Spraying THEN SprayOK ELSE q = << >> /\ buckets = << >> /\ read_idx = 0
  /\ pc \in {"copy", "first"} => temp = <<init_shuffle_bucket(job.perm)>> /\ cur = 1
  /\ pc = "copy" <=> len = 1 /\ pc # "done"
  /\ pc \in {"copy", "first", "clean", "done"} => new_temp = << >>
  /\ cur > Len(temp) /\ pc = "round" => new_temp # << >>
  /\ cur > 1 /\ (pc = "round" \/ Spraying) => new_temp # << >>

\* No two elements that are still to be placed want the same position.
Alone == \A x, y \in Places : At(x).perm = At(y).perm => x = y

\* The positions they want are not written.
NotPlaced == \A x \in Places : arr_out[At(x).perm] = -1

\* A position that is written has the value that belongs there.
PlacedRight ==
  \A j \in Positions :
    arr_out[j] = -1 \/ (arr_out[j] \in Positions /\ job.perm[arr_out[j] + 1] = j)

\* Every element is placed or still to be, unless a spray was tight.
Present ==
  \A k \in DOMAIN job.perm :
    Tight \/ arr_out[job.perm[k]] = k - 1 \/ \E x \in Places : At(x).perm = job.perm[k]

\* Where the elements are.
Placement == Alone /\ NotPlaced /\ PlacedRight /\ Present

\* The inductive invariant.
ShuffleInv ==
  /\ TypeOK
  /\ IF IsMelbourne THEN MelbourneOK ELSE CacheOK
  /\ RangesSplit /\ QueuesInRange
  /\ Placement

-----------------------------------------------------------------------------
(* Where the elements are *)

\* Elements may be in the source, the queues, the buckets and the next round's
\* buckets, at these places and no others.
PlacesHeld ==
  /\ \A b, k : <<"source", b, k>> \in Places <=>
       /\ pc # "done" /\ b \in DOMAIN Sources /\ k \in DOMAIN Sources[b].data
       /\ ~(b < cur \/ (b = cur /\ k <= read_idx)) /\ ~IsHole(Sources[b].data[k])
  /\ \A b, k : <<"queue", b, k>> \in Places <=>
       pc # "done" /\ b \in DOMAIN q /\ k \in DOMAIN q[b] /\ ~IsHole(q[b][k])
  /\ \A b, k : <<"bucket", b, k>> \in Places <=>
       /\ pc # "done" /\ b \in DOMAIN buckets /\ k \in DOMAIN buckets[b].data
       /\ ~(IsMelbourne /\ b < bucket_idx) /\ ~IsHole(buckets[b].data[k])
  /\ \A b, k : <<"next", b, k>> \in Places <=>
       /\ pc # "done" /\ b \in DOMAIN new_temp /\ k \in DOMAIN new_temp[b].data
       /\ ~IsHole(new_temp[b].data[k])
  /\ \A x \in Places : \E b, k : x \in {<<"source", b, k>>, <<"queue", b, k>>,
                                        <<"bucket", b, k>>, <<"next", b, k>>}
  /\ \A b, k : b \in DOMAIN Sources => At(<<"source", b, k>>) = Sources[b].data[k]
  /\ \A b, k : At(<<"queue", b, k>>) = q[b][k]
  /\ \A b, k : b \in DOMAIN buckets => At(<<"bucket", b, k>>) = buckets[b].data[k]
  /\ \A b, k : b \in DOMAIN new_temp => At(<<"next", b, k>>) = new_temp[b].data[k]

\* That is where they are, before a step and after it.
LEMMA PlacesAre == PlacesHeld
<1> DEFINE st == Stores
<1>1. /\ DOMAIN st = {"source", "queue", "bucket", "next"}
      /\ st["source"] = Datas(Sources) /\ st["queue"] = q
      /\ st["bucket"] = Datas(buckets) /\ st["next"] = Datas(new_temp)
  BY DEF Stores
<1>2. \A x : x \in Slots <=> \E s \in DOMAIN st : \E b \in DOMAIN st[s] :
                               \E k \in DOMAIN st[s][b] : x = <<s, b, k>>
  BY DEF Slots
<1>3. \A s, b, k : At(<<s, b, k>>) = st[s][b][k]
  BY DEF At
<1> HIDE DEF st
<1>4. \A s, b, k : <<s, b, k>> \in Slots <=> s \in DOMAIN st /\ b \in DOMAIN st[s] /\ k \in DOMAIN st[s][b]
  BY <1>2
<1>5. \A bs : /\ DOMAIN Datas(bs) = DOMAIN bs
              /\ \A b \in DOMAIN bs : Datas(bs)[b] = bs[b].data
  BY DEF Datas
<1>6. \A s, b, k : <<s, b, k>> \in Places <=>
        <<s, b, k>> \in Slots /\ ~Passed(<<s, b, k>>) /\ ~IsHole(st[s][b][k])
  <2> TAKE s, b, k
  <2> DEFINE x == <<s, b, k>>
  <2>1. At(x) = st[s][b][k]
    BY <1>3
  <2> HIDE DEF x
  <2>2. x \in Places <=> x \in Slots /\ ~Passed(x) /\ ~IsHole(At(x))
    BY DEF Places
  <2>3. x \in Places <=> x \in Slots /\ ~Passed(x) /\ ~IsHole(st[s][b][k])
    BY <2>1, <2>2
  <2> QED BY <2>3 DEF x
<1>7. \A s, b, k : Passed(<<s, b, k>>) <=>
        \/ s = "source" /\ (b < cur \/ (b = cur /\ k <= read_idx))
        \/ s = "bucket" /\ IsMelbourne /\ b < bucket_idx
        \/ pc = "done"
  BY DEF Passed
<1>8. \A x \in Places : \E b, k : x \in {<<"source", b, k>>, <<"queue", b, k>>,
                                         <<"bucket", b, k>>, <<"next", b, k>>}
  BY <1>1, <1>2 DEF Places
<1>9. ASSUME NEW b, NEW k
      PROVE  /\ <<"source", b, k>> \in Places <=>
                  /\ pc # "done" /\ b \in DOMAIN Sources /\ k \in DOMAIN Sources[b].data
                  /\ ~(b < cur \/ (b = cur /\ k <= read_idx)) /\ ~IsHole(Sources[b].data[k])
             /\ <<"queue", b, k>> \in Places <=>
                  pc # "done" /\ b \in DOMAIN q /\ k \in DOMAIN q[b] /\ ~IsHole(q[b][k])
             /\ <<"bucket", b, k>> \in Places <=>
                  /\ pc # "done" /\ b \in DOMAIN buckets /\ k \in DOMAIN buckets[b].data
                  /\ ~(IsMelbourne /\ b < bucket_idx) /\ ~IsHole(buckets[b].data[k])
             /\ <<"next", b, k>> \in Places <=>
                  /\ pc # "done" /\ b \in DOMAIN new_temp /\ k \in DOMAIN new_temp[b].data
                  /\ ~IsHole(new_temp[b].data[k])
             /\ b \in DOMAIN Sources => At(<<"source", b, k>>) = Sources[b].data[k]
             /\ At(<<"queue", b, k>>) = q[b][k]
             /\ b \in DOMAIN buckets => At(<<"bucket", b, k>>) = buckets[b].data[k]
             /\ b \in DOMAIN new_temp => At(<<"next", b, k>>) = new_temp[b].data[k]
  <2>1. /\ <<"source", b, k>> \in Places <=>
             /\ pc # "done" /\ b \in DOMAIN Sources /\ k \in DOMAIN Sources[b].data
             /\ ~(b < cur \/ (b = cur /\ k <= read_idx)) /\ ~IsHole(Sources[b].data[k])
        /\ b \in DOMAIN Sources => At(<<"source", b, k>>) = Sources[b].data[k]
    BY <1>1, <1>3, <1>4, <1>5, <1>6, <1>7
  <2>2. /\ <<"queue", b, k>> \in Places <=>
             pc # "done" /\ b \in DOMAIN q /\ k \in DOMAIN q[b] /\ ~IsHole(q[b][k])
        /\ At(<<"queue", b, k>>) = q[b][k]
    BY <1>1, <1>3, <1>4, <1>6, <1>7
  <2>3. /\ <<"bucket", b, k>> \in Places <=>
             /\ pc # "done" /\ b \in DOMAIN buckets /\ k \in DOMAIN buckets[b].data
             /\ ~(IsMelbourne /\ b < bucket_idx) /\ ~IsHole(buckets[b].data[k])
        /\ b \in DOMAIN buckets => At(<<"bucket", b, k>>) = buckets[b].data[k]
    BY <1>1, <1>3, <1>4, <1>5, <1>6, <1>7
  <2>4. /\ <<"next", b, k>> \in Places <=>
             /\ pc # "done" /\ b \in DOMAIN new_temp /\ k \in DOMAIN new_temp[b].data
             /\ ~IsHole(new_temp[b].data[k])
        /\ b \in DOMAIN new_temp => At(<<"next", b, k>>) = new_temp[b].data[k]
    BY <1>1, <1>3, <1>4, <1>5, <1>6, <1>7
  <2> QED BY <2>1, <2>2, <2>3, <2>4
<1> QED BY <1>8, <1>9 DEF PlacesHeld

\* The same after a step.
LEMMA PlacesNext == PlacesHeld'
  BY PlacesAre, PTL

\* The job of either program is a permutation of at least one position.
LEMMA JobFacts ==
  ASSUME JobOK
  PROVE  /\ len \in Nat \ {0} /\ DOMAIN job.perm = 1 .. len
         /\ job.perm \in [1 .. len -> Positions]
         /\ \A k, m \in 1 .. len : job.perm[k] = job.perm[m] => k = m
         /\ \A j \in Positions : \E k \in 1 .. len : job.perm[k] = j
<1>1. job.perm \in Seq(Nat) /\ IsPermutation(job.perm)
  BY MelbourneAssumption, CacheAssumption DEF JobOK
<1>2. len \in Nat /\ len > 0 /\ DOMAIN job.perm = 1 .. len
  BY <1>1 DEF IsPermutation, len
<1>3. job.perm \in Bijection(1 .. len, Positions)
  BY <1>1 DEF IsPermutation, len, Positions
<1>4. /\ job.perm \in [1 .. len -> Positions]
      /\ \A k, m \in 1 .. len : job.perm[k] = job.perm[m] => k = m
      /\ \A j \in Positions : \E k \in 1 .. len : job.perm[k] = j
  BY <1>3 DEF Bijection, Injection, Surjection, IsInjective
<1> QED BY <1>2, <1>4

\* An element of the input carries its index and the position it is bound for,
\* which no other element is bound for.
LEMMA ElementFacts ==
  ASSUME JobOK
  PROVE  /\ \A e \in Elements : /\ e \in [value : Positions, perm : Positions]
                                /\ job.perm[e.value + 1] = e.perm
                                /\ ~IsHole(e) /\ e # Hole
         /\ \A e, f \in Elements : e.perm = f.perm => e = f
         /\ \A k \in 1 .. len : \E e \in Elements : e.value = k - 1 /\ e.perm = job.perm[k]
         /\ \A c \in Cells : IsHole(c) <=> c \notin Elements
         /\ IsHole(Hole) /\ Hole \in Cells
<1>1. /\ len \in Nat \ {0} /\ DOMAIN job.perm = 1 .. len
      /\ job.perm \in [1 .. len -> Positions]
      /\ \A k, m \in 1 .. len : job.perm[k] = job.perm[m] => k = m
  BY JobFacts
<1>2. \A e : e \in Elements <=> \E k \in 1 .. len : e = [value |-> k - 1, perm |-> job.perm[k]]
  BY <1>1 DEF Elements
<1>3. ASSUME NEW e \in Elements
      PROVE  /\ e \in [value : Positions, perm : Positions]
             /\ job.perm[e.value + 1] = e.perm
             /\ ~IsHole(e) /\ e # Hole
  <2>1. PICK k \in 1 .. len : e = [value |-> k - 1, perm |-> job.perm[k]]
    BY <1>2
  <2>2. job.perm[k] \in Positions /\ k - 1 \in Positions /\ (k - 1) + 1 = k
    BY <1>1 DEF Positions
  <2>3. e.value = k - 1 /\ e.perm = job.perm[k]
    BY <2>1
  <2>4. e \in [value : Positions, perm : Positions]
    BY <2>1, <2>2
  <2>5. job.perm[e.value + 1] = e.perm
    BY <2>2, <2>3
  <2>6. e.perm # -1
    BY <2>2, <2>3 DEF Positions
  <2> QED BY <2>4, <2>5, <2>6 DEF IsHole, Hole
<1>4. ASSUME NEW e \in Elements, NEW f \in Elements, e.perm = f.perm
      PROVE  e = f
  <2>1. PICK k \in 1 .. len : e = [value |-> k - 1, perm |-> job.perm[k]]
    BY <1>2
  <2>2. PICK m \in 1 .. len : f = [value |-> m - 1, perm |-> job.perm[m]]
    BY <1>2
  <2>3. job.perm[k] = job.perm[m]
    BY <1>4, <2>1, <2>2
  <2> QED BY <1>1, <2>1, <2>2, <2>3
<1>5. ASSUME NEW k \in 1 .. len
      PROVE  \E e \in Elements : e.value = k - 1 /\ e.perm = job.perm[k]
  <2>1. [value |-> k - 1, perm |-> job.perm[k]] \in Elements
    BY <1>2
  <2> QED BY <2>1
<1>6. IsHole(Hole) /\ Hole \in Cells
  BY DEF IsHole, Hole, Cells
<1>7. \A c \in Cells : IsHole(c) <=> c \notin Elements
  BY <1>3, <1>6 DEF Cells
<1> QED BY <1>3, <1>4, <1>5, <1>6, <1>7

\* The input as a bucket: the whole range, and all elements.
LEMMA InputFacts ==
  ASSUME JobOK
  PROVE  LET b == init_shuffle_bucket(job.perm)
         IN /\ b \in Bucket /\ b.begin_idx = 0 /\ b.end_idx = len
            /\ Len(b.data) = len /\ DOMAIN b.data = 1 .. len
            /\ \A k \in 1 .. len : b.data[k] \in Elements /\ b.data[k].perm = job.perm[k]
<1> DEFINE d == [k \in 1 .. len |-> [value |-> k - 1, perm |-> job.perm[k]]]
           b == init_shuffle_bucket(job.perm)
<1>1. len \in Nat /\ DOMAIN job.perm = 1 .. len
  BY JobFacts
<1>2. \A k \in 1 .. len : d[k] \in Elements /\ d[k].perm = job.perm[k]
  BY <1>1 DEF Elements
<1>3. d \in [1 .. len -> Cells] /\ DOMAIN d = 1 .. len
  BY <1>2 DEF Cells
<1>4. b = [begin_idx |-> 0, end_idx |-> len, data |-> d]
  BY DEF init_shuffle_bucket, len
<1> HIDE DEF d, b
<1>5. d \in Seq(Cells) /\ Len(d) = len
  BY <1>1, <1>3
<1> QED BY <1>1, <1>2, <1>3, <1>4, <1>5 DEF Bucket, b

\* The buckets that are read have the type of buckets.
LEMMA SourcesType == ASSUME TypeOK PROVE Sources \in Seq(Bucket)
<1> JobOK
  BY DEF TypeOK
<1>1. init_shuffle_bucket(job.perm) \in Bucket
  BY InputFacts
<1> QED BY <1>1 DEF Sources, TypeOK

\* What an occupied place holds is an element of the input.
LEMMA PlacesHold ==
  ASSUME TypeOK
  PROVE  \A x \in Places : At(x) \in Elements
<1> JobOK
  BY DEF TypeOK
<1>1. \A c \in Cells : IsHole(c) <=> c \notin Elements
  BY ElementFacts
<1>2. ASSUME NEW bs \in Seq(Bucket), NEW b \in DOMAIN bs
      PROVE  bs[b].data \in Seq(Cells)
  <2>1. bs[b] \in Bucket
    OBVIOUS
  <2> QED BY <2>1 DEF Bucket
<1>3. ASSUME NEW bs \in Seq(Bucket), NEW b \in DOMAIN bs, NEW k \in DOMAIN bs[b].data
      PROVE  bs[b].data[k] \in Cells
  BY <1>2
<1>4. /\ Sources \in Seq(Bucket) /\ buckets \in Seq(Bucket) /\ new_temp \in Seq(Bucket)
      /\ \A b \in DOMAIN q : q[b] \in Seq(Elements)
  BY SourcesType DEF TypeOK
<1>5. \A b \in DOMAIN q : \A k \in DOMAIN q[b] : q[b][k] \in Elements
  BY <1>4
<1>6. ASSUME NEW x \in Places PROVE At(x) \in Elements
  <2>1. PICK b, k : x \in {<<"source", b, k>>, <<"queue", b, k>>, <<"bucket", b, k>>, <<"next", b, k>>}
    BY PlacesAre DEF PlacesHeld
  <2>2. CASE x = <<"source", b, k>>
    <3>1. /\ b \in DOMAIN Sources /\ k \in DOMAIN Sources[b].data
          /\ ~IsHole(Sources[b].data[k]) /\ At(x) = Sources[b].data[k]
      BY <2>2, PlacesAre DEF PlacesHeld
    <3> QED BY <1>1, <1>3, <1>4, <3>1
  <2>3. CASE x = <<"queue", b, k>>
    <3>1. b \in DOMAIN q /\ k \in DOMAIN q[b] /\ At(x) = q[b][k]
      BY <2>3, PlacesAre DEF PlacesHeld
    <3> QED BY <1>5, <3>1
  <2>4. CASE x = <<"bucket", b, k>>
    <3>1. /\ b \in DOMAIN buckets /\ k \in DOMAIN buckets[b].data
          /\ ~IsHole(buckets[b].data[k]) /\ At(x) = buckets[b].data[k]
      BY <2>4, PlacesAre DEF PlacesHeld
    <3> QED BY <1>1, <1>3, <1>4, <3>1
  <2>5. CASE x = <<"next", b, k>>
    <3>1. /\ b \in DOMAIN new_temp /\ k \in DOMAIN new_temp[b].data
          /\ ~IsHole(new_temp[b].data[k]) /\ At(x) = new_temp[b].data[k]
      BY <2>5, PlacesAre DEF PlacesHeld
    <3> QED BY <1>1, <1>3, <1>4, <3>1
  <2> QED BY <2>1, <2>2, <2>3, <2>4, <2>5
<1> QED BY <1>6

\* A step that takes elements from one place to another, each from a place of its
\* own, leaves them apart and the output as it should be.
LEMMA Moved ==
  ASSUME Placement, UNCHANGED <<job, arr_out>>, NEW f,
         \A x \in Places' : f[x] \in Places /\ At(x)' = At(f[x]),
         \A x, y \in Places' : f[x] = f[y] => x = y
  PROVE  Alone' /\ NotPlaced' /\ PlacedRight'
<1>1. Alone /\ NotPlaced /\ PlacedRight
  BY DEF Placement
<1>2. Alone'
  BY <1>1 DEF Alone
<1>3. NotPlaced'
  BY <1>1 DEF NotPlaced
<1>4. PlacedRight'
  BY <1>1 DEF PlacedRight, Positions, len
<1> QED BY <1>2, <1>3, <1>4

\* None is lost when each is at some place after the step, or the step drops it
\* after a tight spray.
LEMMA NoneLost ==
  ASSUME Present, UNCHANGED <<job, arr_out>>, Tight => Tight',
         \A x \in Places : Tight' \/ \E y \in Places' : At(y)' = At(x)
  PROVE  Present'
  BY DEF Present

\* A step that writes elements to their positions of the output.
LEMMA Put ==
  ASSUME TypeOK, Placement, UNCHANGED job, Tight' = Tight,
         \A x \in Places' : x \in Places /\ At(x)' = At(x),
         \A j \in Positions :
           \/ /\ arr_out'[j] = arr_out[j]
              /\ \A x \in Places : At(x).perm = j => x \in Places'
           \/ \E x \in Places : /\ At(x).perm = j /\ x \notin Places'
                                /\ arr_out'[j] = At(x).value
  PROVE  Placement'
<1> JobOK
  BY DEF TypeOK
<1>1. Alone /\ NotPlaced /\ PlacedRight /\ Present
  BY DEF Placement
<1>2. \A x \in Places : At(x) \in Elements
  BY PlacesHold
<1>3. /\ \A e \in Elements : /\ e.perm \in Positions /\ e.value \in Positions
                             /\ job.perm[e.value + 1] = e.perm
      /\ DOMAIN job.perm = 1 .. len /\ len \in Nat
      /\ \A k, m \in 1 .. len : job.perm[k] = job.perm[m] => k = m
      /\ job.perm \in [1 .. len -> Positions]
  BY ElementFacts, JobFacts
<1>4. /\ Positions' = Positions /\ len' = len
  BY DEF Positions, len
<1>5. Alone'
  BY <1>1 DEF Alone
<1>6. NotPlaced'
  <2> SUFFICES ASSUME NEW x \in Places' PROVE arr_out'[At(x)'.perm] = -1
    BY DEF NotPlaced
  <2>1. x \in Places /\ At(x)' = At(x) /\ At(x).perm \in Positions
    BY <1>2, <1>3
  <2>2. arr_out[At(x).perm] = -1
    BY <1>1, <2>1 DEF NotPlaced
  <2>3. \A y \in Places : At(y).perm = At(x).perm => y = x
    BY <1>1, <2>1 DEF Alone
  <2> QED BY <2>1, <2>2, <2>3
<1>7. PlacedRight'
  <2> SUFFICES ASSUME NEW j \in Positions
               PROVE  arr_out'[j] = -1 \/ (arr_out'[j] \in Positions /\ job.perm[arr_out'[j] + 1] = j)
    BY <1>4 DEF PlacedRight
  <2>1. CASE arr_out'[j] = arr_out[j]
    BY <1>1, <2>1 DEF PlacedRight
  <2>2. CASE \E x \in Places : At(x).perm = j /\ arr_out'[j] = At(x).value
    BY <1>2, <1>3, <2>2
  <2> QED BY <2>1, <2>2
<1>8. Present'
  <2> SUFFICES ASSUME NEW k \in 1 .. len
               PROVE  \/ Tight \/ arr_out'[job.perm[k]] = k - 1
                      \/ \E x \in Places' : At(x)'.perm = job.perm[k]
    BY <1>3, <1>4 DEF Present
  <2> DEFINE j == job.perm[k]
  <2>1. j \in Positions
    BY <1>3
  <2>2. Tight \/ arr_out[j] = k - 1 \/ \E x \in Places : At(x).perm = j
    BY <1>1, <1>3 DEF Present
  <2> HIDE DEF j
  <2>3. CASE \E x \in Places : At(x).perm = j /\ x \notin Places' /\ arr_out'[j] = At(x).value
    <3>1. PICK x \in Places : At(x).perm = j /\ arr_out'[j] = At(x).value
      BY <2>3
    <3>2. At(x).value + 1 \in 1 .. len /\ job.perm[At(x).value + 1] = j
      BY <1>2, <1>3, <3>1 DEF Positions
    <3>3. At(x).value + 1 = k
      BY <1>3, <3>2 DEF j
    <3>4. At(x).value \in Nat
      BY <1>2, <1>3 DEF Positions
    <3> QED BY <3>1, <3>3, <3>4 DEF j
  <2>4. CASE arr_out'[j] = arr_out[j] /\ \A x \in Places : At(x).perm = j => x \in Places'
    BY <2>2, <2>4 DEF j
  <2> QED BY <2>1, <2>3, <2>4
<1> QED BY <1>5, <1>6, <1>7, <1>8 DEF Placement

-----------------------------------------------------------------------------
(* The numbers of the two programs *)

\* The square root, rounded up, of n >= 1 is from 1 to n.
LEMMA CeilSqrtRange ==
  ASSUME NEW n \in Nat \ {0}
  PROVE  CeilSqrt(n) \in 1 .. n
<1> DEFINE R == {r \in 0 .. n : r * r < n}
           m == n - 1
<1>1. m \in Nat /\ 0 \in Int /\ n = m + 1
  OBVIOUS
<1>2. R \subseteq 0 .. m
  <2> SUFFICES ASSUME NEW r \in 0 .. n, r * r < n PROVE r \in 0 .. m
    OBVIOUS
  <2>1. r # n
    <3> SUFFICES ASSUME r = n PROVE FALSE
      OBVIOUS
    <3>1. 1 * n <= n * n
      BY ProductMonotone
    <3> QED BY <3>1
  <2> QED BY <2>1
<1>3. 0 \in R
  OBVIOUS
<1> HIDE DEF m
<1>4. IsFiniteSet(0 .. m) /\ Cardinality(0 .. m) = m + 1
  BY <1>1, FS_Interval
<1>5. IsFiniteSet(R) /\ Cardinality(R) <= n
  BY <1>1, <1>2, <1>4, FS_Subset
<1>6. Cardinality(R) # 0 /\ Cardinality(R) \in Nat
  BY <1>3, <1>5, FS_EmptySet, FS_CardinalityType
<1>7. CeilSqrt(n) = Cardinality(R)
  BY DEF CeilSqrt
<1> QED BY <1>5, <1>6, <1>7

\* The logarithm, rounded up, is a natural.
LEMMA CeilLog2Nat ==
  ASSUME NEW n \in Nat
  PROVE  CeilLog2(n) \in Nat
<1> DEFINE R == {k \in 0 .. n : 2 ^ k < n}
<1>1. IsFiniteSet(0 .. n)
  BY FS_Interval
<1>2. IsFiniteSet(R)
  BY <1>1, FS_Subset
<1> QED BY <1>2, FS_CardinalityType DEF CeilLog2

\* The lesser and the greater of two numbers.
LEMMA MinMaxOfTwo ==
  ASSUME NEW a \in Int, NEW b \in Int
  PROVE  /\ Min({a, b}) = IF a <= b THEN a ELSE b
         /\ Max({a, b}) = IF a >= b THEN a ELSE b
  BY DEF Min, Max

\* The Melbourne shuffle has from one bucket to as many as there are elements,
\* and enough slots for all of them wherever the batches fill their shares.
LEMMA MelbourneNumbers ==
  ASSUME JobOK, IsMelbourne
  PROVE  /\ num_of_bucket \in 1 .. len /\ p_log_len \in Nat
         /\ CeilDiv(len, num_of_bucket) \in Nat \ {0}
         /\ len <= CeilDiv(len, num_of_bucket) * num_of_bucket
<1>1. len \in Nat \ {0}
  BY JobFacts
<1>2. CeilSqrt(len) \in 1 .. len /\ CeilLog2(len) \in Nat
  BY <1>1, CeilSqrtRange, CeilLog2Nat
<1>3. num_of_bucket \in 1 .. CeilSqrt(len)
  BY <1>1, <1>2, SuitablePartitions DEF num_of_bucket
<1>4. num_of_bucket \in 1 .. len
  BY <1>1, <1>2, <1>3
<1>5. job.blow_up_factor \in Nat
  BY MelbourneAssumption DEF JobOK
<1>6. p_log_len \in Nat
  BY <1>2, <1>5, ProductNat DEF p_log_len
<1>7. num_of_bucket \in Nat \ {0}
  BY <1>4
<1> QED BY <1>1, <1>4, <1>6, <1>7, CeilDivLeast

\* The cache shuffle reads from one to as many elements in a pass as there are,
\* and a first spray asks for from one to as many buckets.
LEMMA CacheNumbers ==
  ASSUME JobOK, ~IsMelbourne
  PROVE  S \in 1 .. len /\ Min({Q, len}) \in 1 .. len /\ job.mem_cap \in Nat
<1>1. len \in Nat \ {0}
  BY JobFacts
<1>2. job.mem_cap \in Nat \ {0, 1} /\ job.epsilon \in Nat
  BY CacheAssumption DEF JobOK
<1>3. job.mem_cap \div 2 \in Nat \ {0}
  BY <1>2
<1>4. S \in 1 .. len
  BY <1>1, <1>3, MinMaxOfTwo DEF S
<1>5. (4 + job.epsilon) * S \in Nat \ {0}
  BY <1>2, <1>4, ProductPos
<1> DEFINE a == (4 + job.epsilon) * S
<1>6. a \in Nat \ {0} /\ Q = CeilDiv(a, 4) /\ 4 \in Nat \ {0}
  BY <1>5 DEF Q
<1> HIDE DEF a
<1>7. Q \in Nat \ {0}
  BY <1>6, CeilDivLeast
<1>8. Min({Q, len}) \in 1 .. len
  BY <1>1, <1>7, MinMaxOfTwo
<1> QED BY <1>2, <1>4, <1>8

\* The slots of a sprayed bucket: in passes of s elements there is one for each
\* pass.
LEMMA BucketLenEnough ==
  ASSUME NEW n \in Nat \ {0}, NEW s \in Nat \ {0}, NEW m \in Nat \ {0}
  PROVE  BucketLen(n, s, m) \in Nat \ {0} /\ n <= BucketLen(n, s, m) * s
<1> DEFINE a == CeilDiv(n, s)
           b == CeilDiv(n, m)
<1>1. b \in Nat \ {0}
  BY CeilDivLeast
<1>2. a \in Nat \ {0} /\ n <= a * s /\ b \in Nat \ {0}
  BY CeilDivLeast
<1>3. BucketLen(n, s, m) = Max({a, b})
  BY DEF BucketLen
<1> HIDE DEF a, b
<1>4. Max({a, b}) = IF a >= b THEN a ELSE b
  BY <1>2, MinMaxOfTwo
<1>5. BucketLen(n, s, m) \in Nat \ {0} /\ a <= BucketLen(n, s, m)
  BY <1>2, <1>3, <1>4
<1>6. a * s <= BucketLen(n, s, m) * s
  BY <1>2, <1>5, ProductMonotone
<1>7. a * s \in Nat /\ BucketLen(n, s, m) * s \in Nat
  BY <1>2, <1>5, ProductNat
<1> QED BY <1>2, <1>5, <1>6, <1>7

-----------------------------------------------------------------------------
(* Fresh buckets and mixed ones *)

\* The buckets that a range is divided into, as either program asks for them.
DividesInto(bs, n, slots, from, to, idx_len) ==
  /\ from \in Nat /\ to \in Nat /\ from < to /\ slots \in Nat
  /\ \E partition \in 1 .. to - from : n = find_suitable_partitions(to - from, partition)
  /\ idx_len \in {RoundDiv(to - from, n), (to - from) \div n}
  /\ bs = init_empty_shuffle_buckets(n, slots, from, to, idx_len)

\* These buckets are typed and empty, their ranges follow one another to the
\* end, and every position has its bucket.
LEMMA NewBuckets ==
  ASSUME NEW bs, NEW n, NEW slots, NEW from, NEW to, NEW idx_len,
         DividesInto(bs, n, slots, from, to, idx_len)
  PROVE  /\ n \in 1 .. to - from /\ idx_len \in Nat
         /\ bs \in Seq(Bucket) /\ Len(bs) = n /\ DOMAIN bs = 1 .. n
         /\ \A b \in 1 .. n : /\ Len(bs[b].data) = slots /\ DOMAIN bs[b].data = 1 .. slots
                              /\ \A k \in 1 .. slots : bs[b].data[k] = Hole
         /\ Split(bs, from, to)
         /\ Divided(bs, from, to - from, idx_len)
<1> DEFINE total == to - from
<1>1. /\ from \in Nat /\ total \in Nat \ {0} /\ to = from + total /\ slots \in Nat
      /\ idx_len \in {RoundDiv(total, n), total \div n}
      /\ bs = init_empty_shuffle_buckets(n, slots, from, to, idx_len)
  BY DEF DividesInto
<1>2. PICK partition \in 1 .. total : n = find_suitable_partitions(total, partition)
  BY DEF DividesInto
<1> HIDE DEF total
<1>3. n \in 1 .. partition /\ n \in Nat
  BY <1>1, <1>2, SuitablePartitions
<1>4. /\ BeginOf(1, idx_len) = 0 /\ EndOf(n, n, idx_len, total) = total
      /\ \A b \in 1 .. n :
           /\ BeginOf(b, idx_len) \in Nat
           /\ BeginOf(b, idx_len) < EndOf(b, n, idx_len, total)
           /\ b < n => EndOf(b, n, idx_len, total) = BeginOf(b + 1, idx_len)
  BY <1>1, <1>2, RangesNotEmpty
<1>5. \A x \in 0 .. total - 1 :
        /\ BucketOf(x, idx_len, n) \in 1 .. n
        /\ BeginOf(BucketOf(x, idx_len, n), idx_len) <= x
        /\ x < EndOf(BucketOf(x, idx_len, n), n, idx_len, total)
  BY <1>1, <1>2, PositionsInRange
<1>6. idx_len \in Nat
  <2>1. CeilDiv(total, partition) \in Nat \ {0} /\ total <= n * CeilDiv(total, partition)
    BY <1>1, <1>2, SuitablePartitions
  <2>2. n \in 1 .. total
    BY <1>1, <1>3, <1>2
  <2> QED BY <1>1, <2>1, <2>2, IdxLenBounds
<1>7. \A b \in 1 .. n : EndOf(b, n, idx_len, total) \in Nat
  <2> SUFFICES ASSUME NEW b \in 1 .. n PROVE EndOf(b, n, idx_len, total) \in Nat
    OBVIOUS
  <2>1. b * idx_len \in Nat
    BY <1>3, <1>6, ProductNat
  <2> QED BY <1>1, <2>1 DEF EndOf
<1> DEFINE holes == [k \in 1 .. slots |-> Hole]
<1>8. holes \in Seq(Cells) /\ DOMAIN holes = 1 .. slots /\ Len(holes) = slots
  <2>1. Hole \in Cells
    BY DEF Cells
  <2>2. holes \in [1 .. slots -> Cells]
    BY <2>1
  <2> QED BY <1>1, <2>2
<1>9. \A k \in 1 .. slots : holes[k] = Hole
  OBVIOUS
<1> HIDE DEF holes
<1>10. bs = [b \in 1 .. n |->
              [begin_idx |-> from + BeginOf(b, idx_len),
               end_idx   |-> from + EndOf(b, n, idx_len, total),
               data      |-> holes]]
  <2>1. to - from = total
    BY <1>1
  <2> QED BY <1>1, <2>1 DEF init_empty_shuffle_buckets, holes
<1>11. DOMAIN bs = 1 .. n
  BY <1>10
<1>12. \A b \in 1 .. n : /\ bs[b].begin_idx = from + BeginOf(b, idx_len)
                         /\ bs[b].end_idx = from + EndOf(b, n, idx_len, total)
                         /\ bs[b].data = holes
                         /\ bs[b] \in Bucket
  <2> SUFFICES ASSUME NEW b \in 1 .. n
               PROVE  /\ bs[b].begin_idx = from + BeginOf(b, idx_len)
                      /\ bs[b].end_idx = from + EndOf(b, n, idx_len, total)
                      /\ bs[b].data = holes
                      /\ bs[b] \in Bucket
    OBVIOUS
  <2> DEFINE begin == BeginOf(b, idx_len)
             end == EndOf(b, n, idx_len, total)
  <2>1. bs[b] = [begin_idx |-> from + begin, end_idx |-> from + end, data |-> holes]
    BY <1>10
  <2>2. begin \in Nat /\ end \in Nat
    BY <1>4, <1>7
  <2> HIDE DEF begin, end
  <2>3. from + begin \in Nat /\ from + end \in Nat
    BY <1>1, <2>2
  <2>4. bs[b] \in Bucket
    BY <1>8, <2>1, <2>3 DEF Bucket
  <2> QED BY <2>1, <2>4 DEF begin, end
<1>13. bs \in [1 .. n -> Bucket]
  BY <1>10, <1>11, <1>12
<1>14. bs \in Seq(Bucket) /\ Len(bs) = n
  BY <1>3, <1>13
<1>15. Split(bs, from, to)
  <2>1. ASSUME NEW b \in DOMAIN bs
        PROVE  /\ bs[b].begin_idx = IF b = 1 THEN from ELSE bs[b - 1].end_idx
               /\ bs[b].begin_idx < bs[b].end_idx
               /\ \A k \in DOMAIN bs[b].data : IsHole(bs[b].data[k])
    <3> DEFINE begin == BeginOf(b, idx_len)
               end == EndOf(b, n, idx_len, total)
    <3>1. b \in 1 .. n
      BY <1>11
    <3>2. /\ bs[b].begin_idx = from + begin /\ bs[b].end_idx = from + end
          /\ bs[b].data = holes
      BY <1>12, <3>1
    <3>3. begin \in Nat /\ end \in Nat /\ begin < end
      BY <1>4, <1>7, <3>1
    <3>4. b = 1 => begin = 0
      BY <1>4
    <3>5. b # 1 => bs[b - 1].end_idx = from + begin
      <4> SUFFICES ASSUME b # 1 PROVE bs[b - 1].end_idx = from + begin
        OBVIOUS
      <4>1. b - 1 \in 1 .. n /\ b - 1 < n /\ (b - 1) + 1 = b
        BY <1>3, <3>1
      <4> DEFINE a == b - 1
      <4> HIDE DEF a
      <4>2. a \in 1 .. n /\ a < n /\ a + 1 = b
        BY <4>1 DEF a
      <4>3. EndOf(a, n, idx_len, total) = begin
        BY <1>4, <4>2
      <4> QED BY <1>12, <4>2, <4>3 DEF a
    <3> HIDE DEF begin, end
    <3>6. bs[b].begin_idx < bs[b].end_idx
      BY <1>1, <3>2, <3>3
    <3>7. \A k \in DOMAIN holes : IsHole(holes[k])
      BY <1>8, <1>9 DEF IsHole, Hole
    <3>8. bs[b].begin_idx = IF b = 1 THEN from ELSE bs[b - 1].end_idx
      BY <1>1, <3>2, <3>3, <3>4, <3>5
    <3> QED BY <3>2, <3>6, <3>7, <3>8
  <2>2. bs[Len(bs)].end_idx = to
    BY <1>1, <1>3, <1>4, <1>12, <1>14
  <2> QED BY <2>1, <2>2 DEF Split
<1>16. Divided(bs, from, total, idx_len)
  <2> SUFFICES ASSUME NEW x \in 0 .. total - 1
               PROVE  /\ BucketOf(x, idx_len, Len(bs)) \in DOMAIN bs
                      /\ from + x \in bs[BucketOf(x, idx_len, Len(bs))].begin_idx ..
                                      bs[BucketOf(x, idx_len, Len(bs))].end_idx - 1
    BY DEF Divided
  <2> DEFINE b == BucketOf(x, idx_len, n)
  <2>1. b \in 1 .. n /\ BeginOf(b, idx_len) <= x /\ x < EndOf(b, n, idx_len, total)
    BY <1>5
  <2>2. Len(bs) = n
    BY <1>14
  <2> HIDE DEF b
  <2>3. from + x \in bs[b].begin_idx .. bs[b].end_idx - 1
    BY <1>1, <1>4, <1>7, <1>12, <2>1
  <2>4. b \in DOMAIN bs
    BY <1>11, <2>1
  <2> QED BY <2>2, <2>3, <2>4 DEF b
<1>17. n \in 1 .. total
  BY <1>1, <1>3, <1>2
<1> QED BY <1>6, <1>8, <1>9, <1>11, <1>12, <1>14, <1>15, <1>16, <1>17 DEF total

\* The arrangements a bucket may be left in are permutations of its slots.
LEMMA OrdersPermute ==
  ASSUME NEW n \in Nat, NEW p \in Orders(n)
  PROVE  /\ p \in [1 .. n -> 1 .. n]
         /\ \A k, m \in 1 .. n : p[k] = p[m] => k = m
         /\ \A m \in 1 .. n : \E k \in 1 .. n : p[k] = m
<1>1. CASE n <= MaxArranged
  BY <1>1 DEF Orders, Bijection, Injection, Surjection, IsInjective
<1>2. CASE ~(n <= MaxArranged)
  <2> DEFINE forth(r) == [k \in 1 .. n |-> 1 + ((k + r) % n)]
             back(r) == [k \in 1 .. n |-> 1 + ((n - k + r) % n)]
  <2>1. PICK r \in {n - 1, n \div 2} : p = forth(r) \/ p = back(r)
    BY <1>2 DEF Orders
  <2>2. CASE n = 0
    <3>1. 1 .. n = {}
      BY <2>2
    <3>2. p = [k \in 1 .. n |-> p[k]]
      BY <2>1
    <3> QED BY <3>1, <3>2
  <2>3. CASE n # 0
    <3>1. n \in Nat \ {0} /\ r \in 0 .. n - 1
      BY <2>3
    <3>2. ASSUME NEW a \in Nat, a < 2 * n
          PROVE  a % n = IF a < n THEN a ELSE a - n
      BY <3>1, <3>2, RingPlace
    <3>3. CASE p = forth(r)
      <4>1. \A k \in 1 .. n : p[k] = 1 + IF k + r < n THEN k + r ELSE k + r - n
        <5> SUFFICES ASSUME NEW k \in 1 .. n
                     PROVE  p[k] = 1 + IF k + r < n THEN k + r ELSE k + r - n
          OBVIOUS
        <5>1. (k + r) % n = IF k + r < n THEN k + r ELSE k + r - n
          BY <3>1, <3>2
        <5> QED BY <3>3, <5>1
      <4>2. \A k \in 1 .. n : p[k] \in 1 .. n
        BY <3>1, <4>1
      <4>3. p \in [1 .. n -> 1 .. n]
        BY <3>3, <4>2
      <4>4. \A k, m \in 1 .. n : p[k] = p[m] => k = m
        BY <3>1, <4>1
      <4>5. ASSUME NEW m \in 1 .. n
            PROVE  \E k \in 1 .. n : p[k] = m
        <5> DEFINE k == IF m - 1 - r <= 0 THEN m - 1 - r + n ELSE m - 1 - r
        <5>1. k \in 1 .. n
          BY <3>1
        <5> QED BY <3>1, <4>1, <5>1
      <4> QED BY <4>3, <4>4, <4>5
    <3>4. CASE p = back(r)
      <4>1. \A k \in 1 .. n : p[k] = 1 + IF n - k + r < n THEN n - k + r ELSE r - k
        <5> SUFFICES ASSUME NEW k \in 1 .. n
                     PROVE  p[k] = 1 + IF n - k + r < n THEN n - k + r ELSE r - k
          OBVIOUS
        <5>1. (n - k + r) % n = IF n - k + r < n THEN n - k + r ELSE r - k
          BY <3>1, <3>2
        <5> QED BY <3>4, <5>1
      <4>2. \A k \in 1 .. n : p[k] \in 1 .. n
        BY <3>1, <4>1
      <4>3. p \in [1 .. n -> 1 .. n]
        BY <3>4, <4>2
      <4>4. \A k, m \in 1 .. n : p[k] = p[m] => k = m
        BY <3>1, <4>1
      <4>5. ASSUME NEW m \in 1 .. n
            PROVE  \E k \in 1 .. n : p[k] = m
        <5> DEFINE k == IF m - 1 - r > 0 THEN r - m + 1 + n ELSE r - m + 1
        <5> DEFINE k2 == IF k = 0 THEN n ELSE k
        <5>1. k2 \in 1 .. n
          BY <3>1
        <5> QED BY <3>1, <4>1, <5>1
      <4> QED BY <4>3, <4>4, <4>5
    <3> QED BY <2>1, <3>3, <3>4
  <2> QED BY <2>2, <2>3
<1> QED BY <1>1, <1>2

\* A bucket in random order has the same range and the same cells, each in a
\* slot of its own.
LEMMA Randomized ==
  ASSUME NEW bucket \in Bucket, NEW r \in randomize_shuffle_bucket(bucket)
  PROVE  /\ r \in Bucket /\ r.begin_idx = bucket.begin_idx /\ r.end_idx = bucket.end_idx
         /\ Len(r.data) = Len(bucket.data)
         /\ \E p \in [DOMAIN bucket.data -> DOMAIN bucket.data] :
              /\ \A k \in DOMAIN bucket.data : r.data[k] = bucket.data[p[k]]
              /\ \A k, m \in DOMAIN bucket.data : p[k] = p[m] => k = m
              /\ \A m \in DOMAIN bucket.data : \E k \in DOMAIN bucket.data : p[k] = m
<1> DEFINE d == bucket.data
           n == Len(bucket.data)
<1>1. d \in Seq(Cells) /\ n \in Nat /\ DOMAIN d = 1 .. n
  BY DEF Bucket
<1>2. PICK p \in Orders(n) : r = [bucket EXCEPT !.data = [k \in DOMAIN d |-> d[p[k]]]]
  BY DEF randomize_shuffle_bucket, fisher_yates_shuffle
<1> DEFINE e == [k \in 1 .. n |-> d[p[k]]]
<1>3. /\ p \in [1 .. n -> 1 .. n]
      /\ \A k, m \in 1 .. n : p[k] = p[m] => k = m
      /\ \A m \in 1 .. n : \E k \in 1 .. n : p[k] = m
  <2> HIDE DEF n
  <2> QED BY <1>1, <1>2, OrdersPermute
<1>4. e = [k \in DOMAIN d |-> d[p[k]]]
  BY <1>1
<1>5. \A k \in 1 .. n : e[k] = d[p[k]] /\ e[k] \in Cells
  <2>1. \A k \in 1 .. n : d[k] \in Cells
    BY <1>1
  <2> QED BY <1>3, <2>1
<1>6. DOMAIN e = 1 .. n
  OBVIOUS
<1> HIDE DEF e
<1>7. r.data = e /\ r.begin_idx = bucket.begin_idx /\ r.end_idx = bucket.end_idx
  BY <1>2, <1>4 DEF Bucket
<1>8. e \in [1 .. n -> Cells]
  <2> HIDE DEF n, d
  <2>1. e = [k \in 1 .. n |-> d[p[k]]]
    BY DEF e
  <2> QED BY <1>5, <1>6, <2>1
<1>9. e \in Seq(Cells) /\ Len(e) = n
  <2> HIDE DEF n, d
  <2> QED BY <1>1, <1>6, <1>8
<1>10. r \in Bucket
  <2>1. r = [begin_idx |-> bucket.begin_idx, end_idx |-> bucket.end_idx, data |-> e]
    BY <1>2, <1>4 DEF Bucket
  <2> QED BY <1>9, <2>1 DEF Bucket
<1>11. p \in [DOMAIN d -> DOMAIN d]
  BY <1>1, <1>3
<1>12. /\ \A k \in DOMAIN d : r.data[k] = d[p[k]]
       /\ \A k, m \in DOMAIN d : p[k] = p[m] => k = m
       /\ \A m \in DOMAIN d : \E k \in DOMAIN d : p[k] = m
  BY <1>1, <1>3, <1>5, <1>7
<1> HIDE DEF d, n
<1>13. Len(r.data) = n
  BY <1>7, <1>9
<1> QED BY <1>7, <1>10, <1>11, <1>12, <1>13 DEF d, n

-----------------------------------------------------------------------------
(* Sequences, queues and ranges *)

\* A sequence, its length and its domain.
LEMMA SeqFacts ==
  ASSUME NEW T, NEW s \in Seq(T)
  PROVE  /\ Len(s) \in Nat /\ DOMAIN s = 1 .. Len(s) /\ s \in [1 .. Len(s) -> T]
         /\ s = << >> <=> Len(s) = 0
         /\ \A k \in 1 .. Len(s) : s[k] \in T
  BY LenProperties, EmptySeq

\* What the queues are when one has taken an element at its end.
Pushed(rs, qs, n, b, e) ==
  /\ \A c \in 1 .. n : c # b => rs[c] = qs[c]
  /\ Len(rs[b]) = Len(qs[b]) + 1 /\ DOMAIN rs[b] = 1 .. Len(qs[b]) + 1
  /\ \A k \in 1 .. Len(qs[b]) : rs[b][k] = qs[b][k]
  /\ rs[b][Len(qs[b]) + 1] = e

\* A queue takes an element at its end, and the queues hold one element more.
LEMMA PushBackFacts ==
  ASSUME NEW n, NEW E, NEW qs \in [1 .. n -> Seq(E)], IsFiniteSet(Blocks(qs)),
         NEW b \in 1 .. n, NEW e \in E, NEW rs, rs = PushBack(qs, b, e)
  PROVE  /\ rs \in [1 .. n -> Seq(E)] /\ Pushed(rs, qs, n, b, e)
         /\ IsFiniteSet(Blocks(rs)) /\ Cardinality(Blocks(rs)) = Cardinality(Blocks(qs)) + 1
<1> DEFINE old == qs[b]
           new == Append(old, e)
           m == Len(old)
<1>1. old \in Seq(E) /\ m \in Nat /\ DOMAIN old = 1 .. m
  OBVIOUS
<1>2. /\ new \in Seq(E) /\ Len(new) = m + 1 /\ DOMAIN new = 1 .. m + 1
      /\ \A k \in 1 .. m : new[k] = old[k]
      /\ new[m + 1] = e
  OBVIOUS
<1> HIDE DEF new
<1>3. rs = [qs EXCEPT ![b] = new]
  BY DEF PushBack, new
<1>4. rs \in [1 .. n -> Seq(E)] /\ rs[b] = new /\ \A c \in 1 .. n : c # b => rs[c] = qs[c]
  BY <1>2, <1>3
<1> HIDE DEF m
<1>5. \A c, k : <<c, k>> \in Blocks(qs) <=> c \in 1 .. n /\ k \in DOMAIN qs[c]
  BY DEF Blocks
<1>6. \A c, k : <<c, k>> \in Blocks(rs) <=> c \in 1 .. n /\ k \in DOMAIN rs[c]
  BY <1>4 DEF Blocks
<1>7. \A x \in Blocks(qs) \cup Blocks(rs) : \E c, k : x = <<c, k>>
  BY DEF Blocks
<1>8. DOMAIN new = DOMAIN old \cup {m + 1} /\ m + 1 \notin DOMAIN old
  BY <1>1, <1>2
<1>9. Blocks(rs) = Blocks(qs) \cup {<<b, m + 1>>}
  <2>1. \A c, k : <<c, k>> \in Blocks(rs) <=> <<c, k>> \in Blocks(qs) \cup {<<b, m + 1>>}
    BY <1>4, <1>5, <1>6, <1>8
  <2> QED BY <1>7, <2>1
<1>10. <<b, m + 1>> \notin Blocks(qs)
  BY <1>5, <1>8
<1>11. IsFiniteSet(Blocks(rs)) /\ Cardinality(Blocks(rs)) = Cardinality(Blocks(qs)) + 1
  BY <1>9, <1>10, FS_AddElement
<1>12. Pushed(rs, qs, n, b, e)
  BY <1>2, <1>4 DEF Pushed, m
<1> QED BY <1>4, <1>11, <1>12

\* There are no elements in empty queues.
LEMMA NoBlocks ==
  ASSUME NEW n
  PROVE  /\ \A E : EmptyQueues(n) \in [1 .. n -> Seq(E)]
         /\ \A b \in 1 .. n : EmptyQueues(n)[b] = << >>
         /\ IsFiniteSet(Blocks(EmptyQueues(n))) /\ Cardinality(Blocks(EmptyQueues(n))) = 0
<1> DEFINE qs == EmptyQueues(n)
<1>1. DOMAIN qs = 1 .. n /\ \A b \in 1 .. n : qs[b] = << >>
  BY DEF EmptyQueues
<1>2. \A E : qs \in [1 .. n -> Seq(E)]
  BY DEF EmptyQueues
<1>3. Blocks(qs) = {}
  <2> HIDE DEF qs
  <2> QED BY <1>1 DEF Blocks
<1> QED BY <1>1, <1>2, <1>3, FS_EmptySet

\* A queue holds no more elements than all queues do.
LEMMA QueueWithin ==
  ASSUME NEW n, NEW E, NEW qs \in [1 .. n -> Seq(E)], IsFiniteSet(Blocks(qs)), NEW b \in 1 .. n
  PROVE  Len(qs[b]) <= Cardinality(Blocks(qs)) /\ Cardinality(Blocks(qs)) \in Nat
<1> DEFINE m == Len(qs[b])
           f == [k \in 1 .. m |-> <<b, k>>]
<1>1. m \in Nat /\ DOMAIN qs[b] = 1 .. m
  OBVIOUS
<1> HIDE DEF m
<1>2. f \in [1 .. m -> Blocks(qs)]
  BY <1>1 DEF Blocks
<1>3. \A j, k \in 1 .. m : f[j] = f[k] => j = k
  OBVIOUS
<1> HIDE DEF f
<1>4. f \in Injection(1 .. m, Blocks(qs))
  BY <1>2, <1>3 DEF Injection, IsInjective
<1>5. Cardinality(1 .. m) <= Cardinality(Blocks(qs))
  BY <1>4, FS_Injection
<1>6. Cardinality(1 .. m) = m
  BY <1>1, FS_Interval
<1>7. Cardinality(Blocks(qs)) \in Nat
  BY FS_CardinalityType
<1> QED BY <1>5, <1>6, <1>7 DEF m

\* When each queue loses elements from its end, or keeps them, no more are held.
LEMMA FewerBlocks ==
  ASSUME NEW n, NEW E, NEW qs \in [1 .. n -> Seq(E)], IsFiniteSet(Blocks(qs)),
         NEW rs \in [1 .. n -> Seq(E)],
         \A b \in 1 .. n : Len(rs[b]) <= Len(qs[b])
  PROVE  IsFiniteSet(Blocks(rs)) /\ Cardinality(Blocks(rs)) <= Cardinality(Blocks(qs))
<1>1. ASSUME NEW b \in 1 .. n PROVE DOMAIN rs[b] \subseteq DOMAIN qs[b]
  <2>1. DOMAIN rs[b] = 1 .. Len(rs[b]) /\ DOMAIN qs[b] = 1 .. Len(qs[b])
    OBVIOUS
  <2>2. Len(rs[b]) \in Nat /\ Len(qs[b]) \in Nat /\ Len(rs[b]) <= Len(qs[b])
    OBVIOUS
  <2> QED BY <2>1, <2>2
<1>2. Blocks(rs) \subseteq Blocks(qs)
  BY <1>1 DEF Blocks
<1> QED BY <1>2, FS_Subset

\* When the buckets' ranges stay, and what a slot holds is of its bucket's range,
\* the buckets still divide the range that they divided.
LEMMA SplitStays ==
  ASSUME NEW as \in Seq(Bucket), NEW bs \in Seq(Bucket), NEW from, NEW to,
         Split(as, from, to), Len(bs) = Len(as),
         \A b \in 1 .. Len(as) :
           /\ bs[b].begin_idx = as[b].begin_idx /\ bs[b].end_idx = as[b].end_idx
           /\ \A k \in DOMAIN bs[b].data :
                \/ IsHole(bs[b].data[k])
                \/ bs[b].data[k].perm \in as[b].begin_idx .. as[b].end_idx - 1
  PROVE  Split(bs, from, to)
<1> DEFINE n == Len(as)
<1>1. /\ n \in Nat /\ DOMAIN as = 1 .. n /\ DOMAIN bs = 1 .. n /\ Len(bs) = n
      /\ (as = << >> <=> n = 0) /\ (bs = << >> <=> n = 0)
  BY SeqFacts
<1>2. \A b \in 1 .. n :
        /\ bs[b].begin_idx = as[b].begin_idx /\ bs[b].end_idx = as[b].end_idx
        /\ \A k \in DOMAIN bs[b].data :
             \/ IsHole(bs[b].data[k])
             \/ bs[b].data[k].perm \in as[b].begin_idx .. as[b].end_idx - 1
  OBVIOUS
<1> HIDE DEF n
<1>3. ASSUME NEW b \in 1 .. n
      PROVE  /\ bs[b].begin_idx = IF b = 1 THEN from ELSE bs[b - 1].end_idx
             /\ bs[b].begin_idx < bs[b].end_idx
             /\ \A k \in DOMAIN bs[b].data :
                  IsHole(bs[b].data[k]) \/ bs[b].data[k].perm \in bs[b].begin_idx .. bs[b].end_idx - 1
  <2>1. /\ as[b].begin_idx = IF b = 1 THEN from ELSE as[b - 1].end_idx
        /\ as[b].begin_idx < as[b].end_idx
    BY <1>1 DEF Split
  <2>2. CASE b = 1
    BY <1>2, <2>1, <2>2
  <2>3. CASE b # 1
    <3> DEFINE a == b - 1
    <3>1. a \in 1 .. n
      BY <1>1, <2>3
    <3>2. as[b].begin_idx = as[a].end_idx
      BY <2>1, <2>3
    <3> HIDE DEF a
    <3>3. bs[a].end_idx = as[a].end_idx
      BY <1>2, <3>1
    <3>4. bs[b].begin_idx = bs[b - 1].end_idx
      BY <1>2, <3>2, <3>3 DEF a
    <3> QED BY <1>2, <2>1, <2>3, <3>4
  <2> QED BY <2>2, <2>3
<1>4. bs # << >> => bs[Len(bs)].end_idx = to
  <2> SUFFICES ASSUME bs # << >> PROVE bs[n].end_idx = to
    BY <1>1
  <2>1. as[n].end_idx = to
    BY <1>1 DEF Split, n
  <2>2. n \in 1 .. n
    BY <1>1
  <2> QED BY <1>2, <2>1, <2>2
<1> QED BY <1>1, <1>3, <1>4 DEF Split

\* Buckets that divide a range up to m and buckets that divide one from m on
\* divide the whole.
LEMMA SplitJoins ==
  ASSUME NEW as \in Seq(Bucket), NEW bs \in Seq(Bucket), NEW from, NEW m, NEW to,
         Split(as, from, m), Split(bs, m, to), as = << >> => from = m, bs # << >>
  PROVE  Split(as \o bs, from, to)
<1> DEFINE a == Len(as)
           c == Len(bs)
           cs == as \o bs
           OK(b) == /\ cs[b].begin_idx = IF b = 1 THEN from ELSE cs[b - 1].end_idx
                    /\ cs[b].begin_idx < cs[b].end_idx
                    /\ \A k \in DOMAIN cs[b].data :
                         \/ IsHole(cs[b].data[k])
                         \/ cs[b].data[k].perm \in cs[b].begin_idx .. cs[b].end_idx - 1
<1>1. /\ a \in Nat /\ c \in Nat \ {0} /\ (a = 0 <=> as = << >>)
      /\ DOMAIN as = 1 .. a /\ DOMAIN bs = 1 .. c
      /\ Len(cs) = a + c /\ DOMAIN cs = 1 .. a + c
  <2>1. a \in Nat /\ (a = 0 <=> as = << >>) /\ DOMAIN as = 1 .. a
    BY SeqFacts
  <2>2. c \in Nat /\ (bs = << >> <=> c = 0) /\ DOMAIN bs = 1 .. c
    BY SeqFacts
  <2>3. cs \in Seq(Bucket) /\ Len(cs) = a + c
    BY ConcatProperties
  <2>4. DOMAIN cs = 1 .. Len(cs)
    BY <2>3, SeqFacts
  <2> HIDE DEF a, c, cs
  <2> QED BY <2>1, <2>3, <2>2, <2>4
<1>2. \A b \in 1 .. a + c : cs[b] = IF b <= a THEN as[b] ELSE bs[b - a]
  BY ConcatProperties
<1>3. /\ a # 0 => as[a].end_idx = m
      /\ bs[c].end_idx = to
  BY <1>1 DEF Split
<1>4. \A b \in 1 .. a :
        /\ as[b].begin_idx = IF b = 1 THEN from ELSE as[b - 1].end_idx
        /\ as[b].begin_idx < as[b].end_idx
        /\ \A k \in DOMAIN as[b].data :
             IsHole(as[b].data[k]) \/ as[b].data[k].perm \in as[b].begin_idx .. as[b].end_idx - 1
  BY <1>1 DEF Split
<1>5. \A b \in 1 .. c :
        /\ bs[b].begin_idx = IF b = 1 THEN m ELSE bs[b - 1].end_idx
        /\ bs[b].begin_idx < bs[b].end_idx
        /\ \A k \in DOMAIN bs[b].data :
             IsHole(bs[b].data[k]) \/ bs[b].data[k].perm \in bs[b].begin_idx .. bs[b].end_idx - 1
  BY <1>1 DEF Split
<1> HIDE DEF a, c, cs
<1>6. ASSUME NEW b \in 1 .. a + c PROVE OK(b)
  <2>1. CASE b <= a
    <3>1. b \in 1 .. a
      BY <1>1, <2>1
    <3>2. b \in 1 .. a /\ cs[b] = as[b]
      BY <1>2, <2>1, <3>1
    <3>3. CASE b = 1
      BY <1>4, <3>2, <3>3
    <3>4. CASE b # 1
      <4>1. b - 1 \in 1 .. a + c /\ b - 1 <= a
        BY <1>1, <2>1, <3>4
      <4>2. cs[b - 1] = as[b - 1]
        BY <1>2, <4>1
      <4> QED BY <1>4, <3>2, <3>4, <4>2
    <3> QED BY <3>3, <3>4
  <2>2. CASE ~(b <= a)
    <3> DEFINE d == b - a
    <3>1. d \in 1 .. c
      BY <1>1, <2>2
    <3>2. d \in 1 .. c /\ cs[b] = bs[d]
      BY <1>2, <2>2, <3>1
    <3>3. CASE d = 1 /\ a = 0
      <4>1. b = 1 /\ from = m
        BY <1>1, <3>3
      <4> HIDE DEF d
      <4> QED BY <1>5, <3>2, <3>3, <4>1
    <3>4. CASE d = 1 /\ a # 0
      <4>1. a \in 1 .. a + c /\ a <= a /\ b - 1 = a /\ b # 1
        BY <1>1, <3>4
      <4>2. cs[a] = as[a]
        BY <1>2, <4>1
      <4>3. cs[b - 1].end_idx = m
        BY <1>3, <3>4, <4>1, <4>2
      <4> HIDE DEF d
      <4> QED BY <1>5, <3>2, <3>4, <4>1, <4>3
    <3>5. CASE d # 1
      <4> DEFINE e == b - 1
      <4>1. e \in 1 .. a + c /\ ~(e <= a) /\ e - a = d - 1 /\ b # 1
        BY <1>1, <3>2, <3>5
      <4> HIDE DEF e
      <4>2. cs[e] = bs[d - 1]
        BY <1>2, <4>1
      <4>3. cs[b - 1] = bs[d - 1]
        BY <4>2 DEF e
      <4> HIDE DEF d
      <4> QED BY <1>5, <3>2, <3>5, <4>1, <4>3
    <3> QED BY <3>3, <3>4, <3>5
  <2> QED BY <2>1, <2>2
<1>7. cs[Len(cs)].end_idx = to
  <2>1. a + c \in 1 .. a + c /\ ~(a + c <= a) /\ (a + c) - a = c
    BY <1>1
  <2>2. cs[a + c] = bs[c]
    BY <1>2, <2>1
  <2> QED BY <1>1, <1>3, <2>2
<1> QED BY <1>1, <1>6, <1>7 DEF Split, cs

-----------------------------------------------------------------------------
(* The first state *)

\* At first every element is at its place of the input and nowhere else.
LEMMA FreshPlacement ==
  ASSUME JobOK, pc # "done", Sources = <<init_shuffle_bucket(job.perm)>>,
         cur = 1, read_idx = 0, \A b \in DOMAIN q : q[b] = << >>,
         \A b \in DOMAIN buckets : \A k \in DOMAIN buckets[b].data : IsHole(buckets[b].data[k]),
         new_temp = << >>, arr_out = UnwrittenOutput
  PROVE  Placement
<1> DEFINE in == init_shuffle_bucket(job.perm)
<1>1. /\ len \in Nat \ {0} /\ DOMAIN job.perm = 1 .. len
      /\ job.perm \in [1 .. len -> Positions]
      /\ \A k, m \in 1 .. len : job.perm[k] = job.perm[m] => k = m
  BY JobFacts
<1>2. /\ DOMAIN in.data = 1 .. len
      /\ \A k \in 1 .. len : /\ in.data[k] \in Elements /\ in.data[k].perm = job.perm[k]
                             /\ ~IsHole(in.data[k])
  BY InputFacts, ElementFacts
<1> HIDE DEF in
<1>3. DOMAIN Sources = {1} /\ Sources[1] = in
  <2>1. Sources = <<in>>
    BY DEF in
  <2> QED BY <2>1
<1>4. ASSUME NEW x \in Places
      PROVE  \E k \in 1 .. len : x = <<"source", 1, k>> /\ At(x).perm = job.perm[k]
  <2>1. PICK b, k : x \in {<<"source", b, k>>, <<"queue", b, k>>, <<"bucket", b, k>>, <<"next", b, k>>}
    BY PlacesAre DEF PlacesHeld
  <2>2. CASE x = <<"source", b, k>>
    <3>1. b \in DOMAIN Sources /\ k \in DOMAIN Sources[b].data /\ At(x) = Sources[b].data[k]
      BY <2>2, PlacesAre DEF PlacesHeld
    <3>2. b = 1 /\ k \in 1 .. len /\ At(x) = in.data[k]
      BY <1>2, <1>3, <3>1
    <3> QED BY <1>2, <2>2, <3>2
  <2>3. CASE x = <<"queue", b, k>>
    <3>1. b \in DOMAIN q /\ k \in DOMAIN q[b]
      BY <2>3, PlacesAre DEF PlacesHeld
    <3> QED BY <3>1
  <2>4. CASE x = <<"bucket", b, k>>
    <3>1. b \in DOMAIN buckets /\ k \in DOMAIN buckets[b].data /\ ~IsHole(buckets[b].data[k])
      BY <2>4, PlacesAre DEF PlacesHeld
    <3> QED BY <3>1
  <2>5. CASE x = <<"next", b, k>>
    <3>1. b \in DOMAIN new_temp
      BY <2>5, PlacesAre DEF PlacesHeld
    <3> QED BY <3>1
  <2> QED BY <2>1, <2>2, <2>3, <2>4, <2>5
<1>5. ASSUME NEW k \in 1 .. len
      PROVE  <<"source", 1, k>> \in Places /\ At(<<"source", 1, k>>).perm = job.perm[k]
  <2>1. 1 \in DOMAIN Sources /\ k \in DOMAIN Sources[1].data /\ ~IsHole(Sources[1].data[k])
    BY <1>2, <1>3
  <2>2. ~(1 < cur \/ (1 = cur /\ k <= read_idx))
    OBVIOUS
  <2>3. <<"source", 1, k>> \in Places /\ At(<<"source", 1, k>>) = Sources[1].data[k]
    BY <2>1, <2>2, PlacesAre DEF PlacesHeld
  <2> QED BY <1>2, <1>3, <2>3
<1>6. Alone
  <2> SUFFICES ASSUME NEW x \in Places, NEW y \in Places, At(x).perm = At(y).perm PROVE x = y
    BY DEF Alone
  <2>1. PICK k \in 1 .. len : x = <<"source", 1, k>> /\ At(x).perm = job.perm[k]
    BY <1>4
  <2>2. PICK m \in 1 .. len : y = <<"source", 1, m>> /\ At(y).perm = job.perm[m]
    BY <1>4
  <2>3. k = m
    BY <1>1, <2>1, <2>2
  <2> QED BY <2>1, <2>2, <2>3
<1>7. \A j \in Positions : arr_out[j] = -1
  BY DEF UnwrittenOutput, Positions
<1>8. NotPlaced
  BY <1>1, <1>4, <1>7 DEF NotPlaced
<1>9. PlacedRight
  BY <1>7 DEF PlacedRight
<1>10. Present
  BY <1>1, <1>5 DEF Present
<1> QED BY <1>6, <1>8, <1>9, <1>10 DEF Placement

\* A call of the Melbourne shuffle starts with empty queues and buckets that
\* divide the output.
LEMMA MelbourneStarts ==
  ASSUME MelbourneInit, temp = << >>, cur = 1, new_temp = << >>, spray = << >>
  PROVE  ShuffleInv /\ IsMelbourne
<1> DEFINE n == num_of_bucket
           slots == p_log_len * CeilDiv(len, num_of_bucket)
<1>1. job \in MelbourneJobs /\ IsMelbourne
  <2>1. job \in MelbourneJobs
    BY DEF MelbourneInit
  <2>2. DOMAIN job = {"perm", "blow_up_factor"}
    BY <2>1, MelbourneAssumption
  <2> QED BY <2>1, <2>2 DEF IsMelbourne
<1>2. JobOK
  BY <1>1 DEF JobOK
<1>3. /\ num_of_bucket \in 1 .. len /\ p_log_len \in Nat
      /\ CeilDiv(len, num_of_bucket) \in Nat \ {0}
  BY <1>1, <1>2, MelbourneNumbers
<1>4. len \in Nat \ {0} /\ CeilSqrt(len) \in 1 .. len
  BY <1>2, JobFacts, CeilSqrtRange
<1>5. slots \in Nat
  BY <1>3, ProductNat
<1>6. /\ read_idx = 0 /\ i = 0 /\ write_idx = 0 /\ bucket_idx = 1 /\ pc = "read"
      /\ q = EmptyQueues(n) /\ arr_out = UnwrittenOutput
  BY DEF MelbourneInit
<1>7. buckets = init_empty_shuffle_buckets(n, slots, 0, len, bucket_idx_len)
  BY DEF MelbourneInit
<1>8. n = find_suitable_partitions(len, CeilSqrt(len))
  BY DEF num_of_bucket
<1>9. bucket_idx_len \in {RoundDiv(len, n), len \div n}
  BY DEF bucket_idx_len
<1> HIDE DEF n, slots
<1>10. /\ buckets \in Seq(Bucket) /\ Len(buckets) = n /\ DOMAIN buckets = 1 .. n
       /\ \A b \in 1 .. n : /\ Len(buckets[b].data) = slots /\ DOMAIN buckets[b].data = 1 .. slots
                            /\ \A k \in 1 .. slots : buckets[b].data[k] = Hole
       /\ Split(buckets, 0, len)
       /\ Divided(buckets, 0, len, bucket_idx_len)
  <2>1. len - 0 = len /\ 0 < len
    BY <1>4
  <2>2. DividesInto(buckets, n, slots, 0, len, bucket_idx_len)
    BY <1>4, <1>5, <1>7, <1>8, <1>9, <2>1 DEF DividesInto
  <2> QED BY <2>1, <2>2, NewBuckets
<1>11. /\ q \in [1 .. n -> Seq(Elements)] /\ \A b \in 1 .. n : q[b] = << >>
       /\ IsFiniteSet(Blocks(q)) /\ Cardinality(Blocks(q)) = 0
  BY <1>6, NoBlocks
<1>12. DOMAIN q = 1 .. n
  BY <1>11
<1>13. \A b \in DOMAIN buckets : \A k \in DOMAIN buckets[b].data : IsHole(buckets[b].data[k])
  BY <1>10 DEF Hole, IsHole
<1>14. TypeOK
  <2>1. DOMAIN arr_out = Positions
    BY <1>6 DEF UnwrittenOutput, Positions
  <2>2. temp \in Seq(Bucket) /\ new_temp \in Seq(Bucket)
    OBVIOUS
  <2> QED BY <1>2, <1>6, <1>10, <1>11, <2>1, <2>2 DEF TypeOK
<1>15. MelbourneOK
  <2>1. n \in 1 .. len /\ num_of_bucket = n
    BY <1>3 DEF n
  <2>2. \A b \in 1 .. n : Len(buckets[b].data) = p_log_len * CeilDiv(len, n)
    BY <1>10 DEF slots, n
  <2>3. 0 * n + 0 = 0
    BY <2>1
  <2>4. /\ read_idx < len /\ read_idx <= len /\ i < n /\ i <= n
        /\ Cardinality(Blocks(q)) = i /\ read_idx = write_idx * n + i
    BY <1>4, <1>6, <1>11, <2>1, <2>3
  <2>5. \A b \in 1 .. n : \A k \in DOMAIN buckets[b].data :
          k > write_idx * p_log_len => IsHole(buckets[b].data[k])
    BY <1>10, <1>13
  <2> QED BY <1>6, <1>10, <2>1, <2>2, <2>4, <2>5 DEF MelbourneOK
<1>16. RangesSplit
  BY <1>1, <1>10 DEF RangesSplit
<1>17. QueuesInRange
  BY <1>11, <1>12 DEF QueuesInRange
<1>18. Placement
  <2>1. Sources = <<init_shuffle_bucket(job.perm)>>
    BY <1>1 DEF Sources
  <2>2. \A b \in DOMAIN q : q[b] = << >>
    BY <1>11, <1>12
  <2> QED BY <1>2, <1>6, <1>13, <2>1, <2>2, FreshPlacement
<1> QED BY <1>1, <1>14, <1>15, <1>16, <1>17, <1>18 DEF ShuffleInv

\* A call of the cache shuffle starts with the input as the only bucket.
LEMMA CacheStarts ==
  ASSUME CacheInit
  PROVE  ShuffleInv /\ ~IsMelbourne
<1> DEFINE in == init_shuffle_bucket(job.perm)
<1>1. job \in CacheJobs /\ ~IsMelbourne
  <2>1. job \in CacheJobs
    BY DEF CacheInit
  <2>2. DOMAIN job = {"perm", "epsilon", "mem_cap"}
    BY <2>1, CacheAssumption
  <2> QED BY <2>1, <2>2 DEF IsMelbourne
<1>2. JobOK
  BY <1>1 DEF JobOK
<1>3. len \in Nat \ {0} /\ S \in 1 .. len
  BY <1>1, <1>2, JobFacts, CacheNumbers
<1>4. /\ read_idx = 0 /\ i = 0 /\ write_idx = 0 /\ bucket_idx = 1
      /\ q = << >> /\ buckets = << >> /\ arr_out = UnwrittenOutput
      /\ temp = <<in>> /\ cur = 1 /\ new_temp = << >>
      /\ spray = [s |-> S, idx_len |-> 0, tight |-> FALSE]
      /\ pc = IF len = 1 THEN "copy" ELSE "first"
  BY DEF CacheInit
<1>5. /\ in \in Bucket /\ in.begin_idx = 0 /\ in.end_idx = len
      /\ Len(in.data) = len /\ DOMAIN in.data = 1 .. len
      /\ \A k \in 1 .. len : in.data[k] \in Elements /\ in.data[k].perm = job.perm[k]
  BY <1>2, InputFacts
<1>6. \A k \in 1 .. len : job.perm[k] \in Positions
  BY <1>2, JobFacts
<1>7. pc = "copy" => temp = <<init_shuffle_bucket(job.perm)>>
  BY <1>4
<1>8. pc = "first" => temp = <<init_shuffle_bucket(job.perm)>>
  BY <1>4
<1> HIDE DEF in
<1>9. /\ temp \in Seq(Bucket) /\ Len(temp) = 1 /\ DOMAIN temp = {1} /\ temp[1] = in
      /\ temp # << >>
  BY <1>4, <1>5
<1>10. TypeOK
  <2>1. DOMAIN arr_out = Positions
    BY <1>4 DEF UnwrittenOutput, Positions
  <2>2. new_temp \in Seq(Bucket) /\ buckets \in Seq(Bucket) /\ q \in [1 .. Len(buckets) -> Seq(Elements)]
    BY <1>4
  <2>3. Blocks(q) = {}
    BY <1>4 DEF Blocks
  <2>4. IsFiniteSet(Blocks(q))
    BY <2>3, FS_EmptySet
  <2> QED BY <1>2, <1>4, <1>9, <2>1, <2>2, <2>4 DEF TypeOK
<1>11. CacheOK
  <2>1. S \in Nat
    BY <1>3
  <2>2. spray \in [s : Nat, idx_len : Nat, tight : BOOLEAN]
    BY <1>4, <2>1
  <2>3. \A b \in DOMAIN temp : Len(temp[b].data) > 0
    BY <1>3, <1>5, <1>9
  <2>4. /\ pc \in {"copy", "first"} /\ ~Spraying /\ (pc = "copy" <=> len = 1 /\ pc # "done")
    BY <1>4 DEF Spraying
  <2>5. Len(temp) > 0 /\ cur <= Len(temp) + 1 /\ ~(cur > Len(temp)) /\ ~(cur > 1)
    BY <1>4, <1>9
  <2> QED BY <1>4, <1>7, <1>8, <2>2, <2>3, <2>4, <2>5 DEF CacheOK
<1>12. RangesSplit
  <2>1. Split(temp, 0, len)
    BY <1>3, <1>5, <1>6, <1>9 DEF Split, Positions
  <2>2. Split(new_temp, 0, IF cur <= Len(temp) THEN temp[cur].begin_idx ELSE len)
    BY <1>4 DEF Split
  <2> QED BY <1>1, <1>4, <2>1, <2>2 DEF RangesSplit
<1>13. QueuesInRange
  BY <1>4 DEF QueuesInRange
<1>14. Placement
  <2>1. Sources = <<init_shuffle_bucket(job.perm)>> /\ pc # "done"
    BY <1>1, <1>4 DEF Sources, in
  <2> QED BY <1>2, <1>4, <2>1, FreshPlacement
<1> QED BY <1>1, <1>10, <1>11, <1>12, <1>13, <1>14 DEF ShuffleInv

-----------------------------------------------------------------------------
(* Moving elements *)

\* A step that takes each element from a place of its own, and leaves none
\* unless a spray was tight.
LEMMA Moves ==
  ASSUME Placement, UNCHANGED <<job, arr_out>>, Tight => Tight', NEW f,
         \A x \in Places' : f[x] \in Places /\ At(x)' = At(f[x]),
         \A x, y \in Places' : f[x] = f[y] => x = y,
         \A x \in Places : Tight' \/ \E y \in Places' : f[y] = x
  PROVE  Placement'
<1>1. Alone' /\ NotPlaced' /\ PlacedRight'
  BY Moved
<1>2. \A x \in Places : Tight' \/ \E y \in Places' : At(y)' = At(x)
  OBVIOUS
<1>3. Present'
  <2>1. Present
    BY DEF Placement
  <2> QED BY <1>2, <2>1, NoneLost
<1> QED BY <1>1, <1>3 DEF Placement

\* A step that takes one element from one place to another.
LEMMA MovesOne ==
  ASSUME Placement, UNCHANGED <<job, arr_out>>, Tight => Tight',
         NEW src \in Places, NEW dst \in Places', src \notin Places', dst \notin Places,
         At(dst)' = At(src),
         \A x \in Places' : x # dst => x \in Places /\ At(x)' = At(x),
         \A x \in Places : x # src => x \in Places'
  PROVE  Placement'
<1> DEFINE f == [x \in Places' |-> IF x = dst THEN src ELSE x]
<1>1. \A x \in Places' : f[x] = IF x = dst THEN src ELSE x
  OBVIOUS
<1> HIDE DEF f
<1>2. \A x \in Places' : f[x] \in Places /\ At(x)' = At(f[x])
  BY <1>1
<1>3. \A x, y \in Places' : f[x] = f[y] => x = y
  BY <1>1
<1>4. \A x \in Places : Tight' \/ \E y \in Places' : f[y] = x
  BY <1>1
<1> QED BY <1>2, <1>3, <1>4, Moves

\* A step that leaves every element where it is.
LEMMA MovesNone ==
  ASSUME Placement, UNCHANGED <<job, arr_out>>, Tight => Tight',
         \A x \in Places' : x \in Places /\ At(x)' = At(x),
         \A x \in Places : x \in Places'
  PROVE  Placement'
<1> DEFINE f == [x \in Places' |-> x]
<1>1. \A x \in Places' : f[x] = x
  OBVIOUS
<1> HIDE DEF f
<1>2. \A x \in Places' : f[x] \in Places /\ At(x)' = At(f[x])
  BY <1>1
<1>3. \A x, y \in Places' : f[x] = f[y] => x = y
  BY <1>1
<1>4. \A x \in Places : Tight' \/ \E y \in Places' : f[y] = x
  BY <1>1
<1> QED BY <1>2, <1>3, <1>4, Moves

\* A step that changes none of the places, the sources, queues and buckets, or
\* passes over a hole of the source.
LEMMA StaysPut ==
  ASSUME Placement, UNCHANGED <<job, arr_out, q, buckets, bucket_idx, cur, new_temp>>,
         Sources' = Sources, Tight' = Tight,
         pc # "done", pc' # "done",
         \/ read_idx' = read_idx
         \/ /\ read_idx \in Nat /\ read_idx' = read_idx + 1
            /\ IsHole(Sources[cur].data[read_idx + 1])
            /\ \A b \in DOMAIN Sources : DOMAIN Sources[b].data \subseteq Nat
  PROVE  Placement'
<1>1. PlacesHeld /\ PlacesHeld'
  BY PlacesAre, PlacesNext
<1>2. IsMelbourne' = IsMelbourne
  BY DEF IsMelbourne
<1>3. \A b, k : <<"source", b, k>> \in Places' <=> <<"source", b, k>> \in Places
  <2> SUFFICES ASSUME NEW b, NEW k
               PROVE  <<"source", b, k>> \in Places' <=> <<"source", b, k>> \in Places
    OBVIOUS
  <2>1. CASE read_idx' = read_idx
    BY <1>1, <2>1 DEF PlacesHeld
  <2>2. CASE /\ read_idx \in Nat /\ read_idx' = read_idx + 1
             /\ IsHole(Sources[cur].data[read_idx + 1])
             /\ \A a \in DOMAIN Sources : DOMAIN Sources[a].data \subseteq Nat
    <3>1. CASE b = cur /\ k = read_idx + 1
      BY <1>1, <2>2, <3>1 DEF PlacesHeld
    <3>2. CASE b = cur /\ k # read_idx + 1 /\ b \in DOMAIN Sources /\ k \in DOMAIN Sources[b].data
      <4>1. k \in Nat
        BY <2>2, <3>2
      <4>2. k <= read_idx <=> k <= read_idx + 1
        BY <2>2, <3>2, <4>1
      <4> QED BY <1>1, <2>2, <3>2, <4>2 DEF PlacesHeld
    <3>3. CASE b # cur \/ ~(b \in DOMAIN Sources /\ k \in DOMAIN Sources[b].data)
      BY <1>1, <3>3 DEF PlacesHeld
    <3> QED BY <3>1, <3>2, <3>3
  <2> QED BY <2>1, <2>2
<1>4. \A b, k : /\ <<"queue", b, k>> \in Places' <=> <<"queue", b, k>> \in Places
                /\ <<"bucket", b, k>> \in Places' <=> <<"bucket", b, k>> \in Places
                /\ <<"next", b, k>> \in Places' <=> <<"next", b, k>> \in Places
  BY <1>1, <1>2 DEF PlacesHeld
<1>5. ASSUME NEW x \in Places' PROVE x \in Places
  <2>1. PICK b, k : x \in {<<"source", b, k>>, <<"queue", b, k>>, <<"bucket", b, k>>, <<"next", b, k>>}
    BY <1>1 DEF PlacesHeld
  <2> QED BY <1>3, <1>4, <2>1
<1>6. ASSUME NEW x \in Places PROVE x \in Places'
  <2>1. PICK b, k : x \in {<<"source", b, k>>, <<"queue", b, k>>, <<"bucket", b, k>>, <<"next", b, k>>}
    BY <1>1 DEF PlacesHeld
  <2> QED BY <1>3, <1>4, <2>1
<1>7. \A x : At(x)' = At(x)
  BY DEF At, Stores
<1> QED BY <1>5, <1>6, <1>7, MovesNone

\* A step that takes the next element of the source to the end of a queue.
LEMMA TakesOne ==
  ASSUME TypeOK, Placement, UNCHANGED <<job, arr_out, buckets, bucket_idx, cur, new_temp>>,
         Sources' = Sources, Tight' = Tight,
         cur \in DOMAIN Sources, read_idx + 1 \in DOMAIN Sources[cur].data,
         NEW e \in Elements, e = Sources[cur].data[read_idx + 1],
         NEW b \in DOMAIN q, q' = PushBack(q, b, e),
         read_idx' = read_idx + 1, pc # "done", pc' # "done"
  PROVE  Placement'
<1> DEFINE n == Len(buckets)
<1> PICK m : m = Len(q[b])
  OBVIOUS
<1> PICK src : src = <<"source", cur, read_idx + 1>>
  OBVIOUS
<1> DEFINE dst == <<"queue", b, m + 1>>
<1>1. PlacesHeld /\ PlacesHeld'
  BY PlacesAre, PlacesNext
<1>2. IsMelbourne' = IsMelbourne
  BY DEF IsMelbourne
<1>3. ~IsHole(e)
  <2>1. JobOK
    BY DEF TypeOK
  <2> QED BY <2>1, ElementFacts
<1>4. /\ q \in [1 .. n -> Seq(Elements)] /\ IsFiniteSet(Blocks(q)) /\ b \in 1 .. n
      /\ read_idx \in Nat /\ cur \in Nat
  BY DEF TypeOK
<1>5. m \in Nat /\ DOMAIN q[b] = 1 .. m
  BY <1>4, SeqFacts
<1> HIDE DEF n
<1>6. /\ q' \in [1 .. n -> Seq(Elements)]
      /\ \A c \in 1 .. n : c # b => q'[c] = q[c]
      /\ DOMAIN q'[b] = 1 .. m + 1
      /\ \A k \in 1 .. m : q'[b][k] = q[b][k]
      /\ q'[b][m + 1] = e
  <2>1. q' = PushBack(q, b, e) /\ e \in Elements
    OBVIOUS
  <2>2. q' \in [1 .. n -> Seq(Elements)] /\ Pushed(q', q, n, b, e)
    BY ONLY <1>4, <2>1, PushBackFacts
  <2> QED BY <2>2 DEF Pushed
<1>7. DOMAIN q = 1 .. n /\ DOMAIN q' = 1 .. n
  BY <1>4, <1>6
<1>8. src \in Places /\ At(src) = e
  <2>1. ~(read_idx + 1 <= read_idx) /\ ~(cur < cur)
    BY <1>4
  <2> QED BY <1>1, <1>3, <2>1 DEF PlacesHeld
<1>9. src \notin Places'
  <2>1. read_idx + 1 <= read_idx'
    BY <1>4
  <2> QED BY <1>1, <2>1 DEF PlacesHeld
<1>10. dst \notin Places
  <2>1. m + 1 \notin 1 .. m
    BY <1>5
  <2> QED BY <1>1, <1>5, <2>1 DEF PlacesHeld
<1>11. dst \in Places' /\ At(dst)' = e
  <2>1. m + 1 \in 1 .. m + 1 /\ b \in DOMAIN q'
    BY <1>4, <1>5, <1>7
  <2>2. m + 1 \in DOMAIN q'[b] /\ ~IsHole(q'[b][m + 1])
    BY <1>3, <1>6, <2>1
  <2>3. At(dst)' = q'[b][m + 1]
    BY <1>1 DEF PlacesHeld
  <2>4. dst \in Places'
    BY <1>1, <2>1, <2>2 DEF PlacesHeld
  <2> QED BY <1>6, <2>3, <2>4
<1>12. ASSUME NEW c, NEW k, <<"source", c, k>> # src
       PROVE  /\ <<"source", c, k>> \in Places' <=> <<"source", c, k>> \in Places
              /\ <<"source", c, k>> \in Places => At(<<"source", c, k>>)' = At(<<"source", c, k>>)
  <2>1. ASSUME c \in DOMAIN Sources, k \in DOMAIN Sources[c].data
        PROVE  (c = cur /\ k <= read_idx') <=> (c = cur /\ k <= read_idx)
    <3>1. Sources \in Seq(Bucket)
      BY SourcesType
    <3>2. Sources[c] \in Bucket
      BY <2>1, <3>1
    <3>3. Sources[c].data \in Seq(Cells)
      BY <3>2 DEF Bucket
    <3>4. k \in Nat
      BY <2>1, <3>3
    <3>5. c = cur => k # read_idx + 1
      BY <1>12
    <3> QED BY <1>4, <3>4, <3>5
  <2>2. <<"source", c, k>> \in Places' <=> <<"source", c, k>> \in Places
    BY <1>1, <2>1 DEF PlacesHeld
  <2>3. <<"source", c, k>> \in Places => At(<<"source", c, k>>)' = At(<<"source", c, k>>)
    BY <1>1 DEF PlacesHeld
  <2> QED BY <2>2, <2>3
<1>13. ASSUME NEW c, NEW k, <<"queue", c, k>> # dst
       PROVE  /\ <<"queue", c, k>> \in Places' <=> <<"queue", c, k>> \in Places
              /\ <<"queue", c, k>> \in Places => At(<<"queue", c, k>>)' = At(<<"queue", c, k>>)
  <2>1. CASE c = b
    <3>1. k # m + 1
      BY <1>13, <2>1
    <3>2. k \in 1 .. m + 1 <=> k \in 1 .. m
      BY <1>5, <3>1
    <3>3. k \in DOMAIN q'[c] <=> k \in DOMAIN q[c]
      BY <1>5, <1>6, <2>1, <3>2
    <3>4. k \in DOMAIN q[c] => q'[c][k] = q[c][k]
      BY <1>5, <1>6, <2>1
    <3> QED BY <1>1, <1>7, <3>3, <3>4 DEF PlacesHeld
  <2>2. CASE c # b
    <3>1. c \in 1 .. n => q'[c] = q[c]
      BY <1>6, <2>2
    <3> QED BY <1>1, <1>7, <3>1 DEF PlacesHeld
  <2> QED BY <2>1, <2>2
<1>14. ASSUME NEW c, NEW k
       PROVE  /\ <<"bucket", c, k>> \in Places' <=> <<"bucket", c, k>> \in Places
              /\ <<"bucket", c, k>> \in Places => At(<<"bucket", c, k>>)' = At(<<"bucket", c, k>>)
              /\ <<"next", c, k>> \in Places' <=> <<"next", c, k>> \in Places
              /\ <<"next", c, k>> \in Places => At(<<"next", c, k>>)' = At(<<"next", c, k>>)
  BY <1>1, <1>2 DEF PlacesHeld
<1>15. src # dst
  OBVIOUS
<1>16. \A x \in Places' : x # dst => x \in Places /\ At(x)' = At(x)
  <2> SUFFICES ASSUME NEW x \in Places', x # dst PROVE x \in Places /\ At(x)' = At(x)
    OBVIOUS
  <2>1. PICK c, k : x \in {<<"source", c, k>>, <<"queue", c, k>>, <<"bucket", c, k>>, <<"next", c, k>>}
    BY <1>1 DEF PlacesHeld
  <2>2. x # src
    BY <1>9
  <2>3. CASE x = <<"source", c, k>>
    BY <1>12, <2>2, <2>3
  <2>4. CASE x = <<"queue", c, k>>
    BY <1>13, <2>4
  <2>5. CASE x = <<"bucket", c, k>> \/ x = <<"next", c, k>>
    BY <1>14, <2>5
  <2> QED BY <2>1, <2>3, <2>4, <2>5
<1>17. \A x \in Places : x # src => x \in Places'
  <2> SUFFICES ASSUME NEW x \in Places, x # src PROVE x \in Places'
    OBVIOUS
  <2>1. PICK c, k : x \in {<<"source", c, k>>, <<"queue", c, k>>, <<"bucket", c, k>>, <<"next", c, k>>}
    BY <1>1 DEF PlacesHeld
  <2>2. x # dst
    BY <1>10
  <2>3. CASE x = <<"source", c, k>>
    BY <1>12, <2>3
  <2>4. CASE x = <<"queue", c, k>>
    BY <1>13, <2>2, <2>4
  <2>5. CASE x = <<"bucket", c, k>> \/ x = <<"next", c, k>>
    BY <1>14, <2>5
  <2> QED BY <2>1, <2>3, <2>4, <2>5
<1> HIDE DEF dst
<1> QED BY <1>8, <1>9, <1>10, <1>11, <1>16, <1>17, MovesOne

-----------------------------------------------------------------------------
(* The Melbourne shuffle distributes *)

\* What depends on the call alone stays through the steps of its service.
LEMMA JobStays ==
  ASSUME UNCHANGED job
  PROVE  /\ IsMelbourne' = IsMelbourne /\ JobOK' = JobOK /\ len' = len
         /\ Positions' = Positions /\ Elements' = Elements /\ Cells' = Cells /\ Bucket' = Bucket
         /\ num_of_bucket' = num_of_bucket /\ p_log_len' = p_log_len
         /\ bucket_idx_len' = bucket_idx_len
  BY DEF IsMelbourne, JobOK, len, Positions, Elements, Cells, Bucket, num_of_bucket, p_log_len,
         bucket_idx_len

\* The Melbourne shuffle has one source, the input, and never tightens a bucket.
LEMMA MelbourneSources ==
  ASSUME TypeOK, IsMelbourne
  PROVE  /\ DOMAIN Sources = {1} /\ DOMAIN Sources[1].data = 1 .. len
         /\ \A k \in 1 .. len : /\ Sources[1].data[k] \in Elements
                                /\ Sources[1].data[k].perm \in Positions
         /\ ~Tight
<1>1. JobOK
  BY DEF TypeOK
<1>2. Sources = <<init_shuffle_bucket(job.perm)>>
  BY DEF Sources
<1>3. DOMAIN Sources = {1} /\ Sources[1] = init_shuffle_bucket(job.perm)
  BY <1>2
<1>4. /\ DOMAIN Sources[1].data = 1 .. len
      /\ \A k \in 1 .. len : Sources[1].data[k] \in Elements
  BY <1>1, <1>3, InputFacts
<1>5. \A e \in Elements : e.perm \in Positions
  BY <1>1, ElementFacts
<1> QED BY <1>3, <1>4, <1>5 DEF Tight

\* The buckets keep dividing the output while they stay as they are.
LEMMA MelbourneSplitStays ==
  ASSUME RangesSplit, IsMelbourne, UNCHANGED <<job, buckets>>
  PROVE  RangesSplit'
<1>1. IsMelbourne' /\ len' = len
  BY JobStays
<1>2. Split(buckets', 0, len')
  BY <1>1 DEF RangesSplit
<1> QED BY <1>1, <1>2 DEF RangesSplit

\* Queues that take an element of its bucket's range still hold elements of their
\* buckets' ranges.
LEMMA QueuesStayInRange ==
  ASSUME QueuesInRange, UNCHANGED buckets, NEW n,
         q \in [1 .. n -> Seq(Elements)], q' \in [1 .. n -> Seq(Elements)],
         NEW b \in 1 .. n, NEW e, Pushed(q', q, n, b, e),
         e.perm \in buckets[b].begin_idx .. buckets[b].end_idx - 1
  PROVE  QueuesInRange'
<1>1. DOMAIN q = 1 .. n /\ DOMAIN q' = 1 .. n
  OBVIOUS
<1> SUFFICES ASSUME NEW c \in 1 .. n, NEW k \in DOMAIN q'[c]
             PROVE  q'[c][k].perm \in buckets[c].begin_idx .. buckets[c].end_idx - 1
  BY <1>1 DEF QueuesInRange
<1>2. CASE c # b
  <2>1. q'[c] = q[c]
    BY <1>2 DEF Pushed
  <2> QED BY <1>1, <2>1 DEF QueuesInRange
<1>3. CASE c = b /\ k = Len(q[b]) + 1
  BY <1>3 DEF Pushed
<1>4. CASE c = b /\ k # Len(q[b]) + 1
  <2> PICK m : m = Len(q[b])
    OBVIOUS
  <2>1. m \in Nat /\ DOMAIN q[b] = 1 .. m
    BY SeqFacts
  <2>2. k \in 1 .. m + 1
    BY <1>4 DEF Pushed
  <2>3. k \in 1 .. m
    BY <1>4, <2>1, <2>2
  <2>4. q'[c][k] = q[b][k]
    BY <1>4, <2>3 DEF Pushed
  <2> QED BY <1>1, <1>4, <2>1, <2>3, <2>4 DEF QueuesInRange
<1> QED BY <1>2, <1>3, <1>4

\* An element of the batch that goes to its bucket's queue.
LEMMA DistributeKeeps ==
  ASSUME ShuffleInv, IsMelbourne, Distribute, UNCHANGED cacheOnly
  PROVE  ShuffleInv'
<1> DEFINE n == num_of_bucket
<1>1. TypeOK /\ MelbourneOK /\ RangesSplit /\ QueuesInRange /\ Placement /\ JobOK
  BY DEF ShuffleInv, TypeOK
<1>2. UNCHANGED <<job, write_idx, buckets, bucket_idx, arr_out, temp, cur, new_temp, spray>> /\ pc = "read"
  BY DEF Distribute, cacheOnly
<1>3. /\ IsMelbourne' = IsMelbourne /\ JobOK' = JobOK /\ len' = len
      /\ Positions' = Positions /\ Elements' = Elements /\ Cells' = Cells /\ Bucket' = Bucket
      /\ num_of_bucket' = n /\ p_log_len' = p_log_len
      /\ bucket_idx_len' = bucket_idx_len
  BY <1>2, JobStays
<1>4. /\ n \in 1 .. len /\ len \in Nat \ {0}
  BY <1>1, JobFacts, MelbourneNumbers
<1>5. /\ read_idx \in Nat /\ i \in Nat /\ write_idx \in Nat
      /\ buckets \in Seq(Bucket) /\ q \in [1 .. Len(buckets) -> Seq(Elements)] /\ IsFiniteSet(Blocks(q))
  BY <1>1 DEF TypeOK
<1>6. /\ Len(buckets) = n /\ Divided(buckets, 0, len, bucket_idx_len)
      /\ cur = 1 /\ Cardinality(Blocks(q)) = i /\ read_idx < len /\ i < n
      /\ read_idx = write_idx * n + i
  BY <1>1, <1>2 DEF MelbourneOK
<1>7. DOMAIN buckets = 1 .. n
  BY <1>5, <1>6, SeqFacts
<1>8. ~QueueFull(q, n)
  BY <1>4, <1>5, <1>6 DEF QueueFull
<1> PICK e : e = init_shuffle_bucket(job.perm).data[read_idx + 1]
  OBVIOUS
<1> PICK b : b = BucketOf(e.perm, bucket_idx_len, n)
  OBVIOUS
<1>9. /\ q' = PushBack(q, b, e) /\ read_idx' = read_idx + 1 /\ i' = i + 1
      /\ pc' = IF i' < n /\ read_idx' < len THEN "read" ELSE "write"
  BY <1>8 DEF Distribute
<1> HIDE DEF n
<1>10. /\ DOMAIN Sources = {1} /\ DOMAIN Sources[1].data = 1 .. len /\ e = Sources[1].data[read_idx + 1]
       /\ read_idx + 1 \in 1 .. len /\ e \in Elements /\ e.perm \in Positions /\ ~Tight
       /\ Sources' = Sources
  <2>1. e = Sources[1].data[read_idx + 1] /\ Sources' = Sources
    BY <1>2, <1>3 DEF Sources
  <2>2. read_idx + 1 \in 1 .. len
    BY <1>4, <1>5, <1>6
  <2> QED BY <1>1, <2>1, <2>2, MelbourneSources
<1>11. b \in 1 .. n /\ e.perm \in buckets[b].begin_idx .. buckets[b].end_idx - 1
  <2> DEFINE x == e.perm
  <2>1. x \in 0 .. len - 1
    BY <1>10 DEF Positions
  <2>2. b = BucketOf(x, bucket_idx_len, Len(buckets))
    BY <1>6 DEF n
  <2> HIDE DEF x
  <2>3. 0 + x = x
    BY <1>4, <2>1
  <2>4. b \in DOMAIN buckets /\ 0 + x \in buckets[b].begin_idx .. buckets[b].end_idx - 1
    BY <1>6, <2>1, <2>2 DEF Divided
  <2> QED BY <1>7, <2>3, <2>4 DEF x
<1>12. /\ q' \in [1 .. n -> Seq(Elements)] /\ Pushed(q', q, n, b, e)
       /\ IsFiniteSet(Blocks(q')) /\ Cardinality(Blocks(q')) = i + 1
  <2>1. q \in [1 .. n -> Seq(Elements)] /\ IsFiniteSet(Blocks(q)) /\ e \in Elements
    BY <1>5, <1>6, <1>10
  <2>2. q' = PushBack(q, b, e) /\ b \in 1 .. n
    BY <1>9, <1>11
  <2>3. /\ q' \in [1 .. n -> Seq(Elements)] /\ Pushed(q', q, n, b, e)
        /\ IsFiniteSet(Blocks(q')) /\ Cardinality(Blocks(q')) = Cardinality(Blocks(q)) + 1
    BY ONLY <2>1, <2>2, PushBackFacts
  <2> QED BY <1>6, <2>3
<1>13. TypeOK'
  BY <1>1, <1>2, <1>3, <1>5, <1>6, <1>9, <1>12 DEF TypeOK
<1>14. MelbourneOK'
  <2>1. pc' \in {"read", "write"}
    BY <1>9
  <2>2. i' <= n /\ read_idx' <= len /\ read_idx' = write_idx' * n + i'
    BY <1>2, <1>4, <1>5, <1>6, <1>9
  <2>3. Cardinality(Blocks(q))' = i'
    BY <1>9, <1>12
  <2>4. pc' = "read" => read_idx' < len /\ i' < n
    BY <1>9
  <2>5. pc' = "write" => i' > 0 /\ (i' = n \/ read_idx' = len)
    BY <1>4, <1>5, <1>6, <1>9
  <2>6. Divided(buckets, 0, len, bucket_idx_len)'
    BY <1>2, <1>3, <1>6 DEF Divided
  <2>7. /\ \A a \in 1 .. n : Len(buckets[a].data) = p_log_len * CeilDiv(len, n)
        /\ \A a \in 1 .. n : \A k \in DOMAIN buckets[a].data :
             k > write_idx * p_log_len => IsHole(buckets[a].data[k])
        /\ bucket_idx = 1 /\ temp = << >> /\ new_temp = << >>
    BY <1>1, <1>2 DEF MelbourneOK, n
  <2> QED BY <1>2, <1>3, <1>6, <2>1, <2>2, <2>3, <2>4, <2>5, <2>6, <2>7 DEF MelbourneOK, n
<1>15. RangesSplit'
  BY <1>1, <1>2, MelbourneSplitStays
<1>16. QueuesInRange'
  BY <1>1, <1>2, <1>5, <1>6, <1>7, <1>11, <1>12, QueuesStayInRange
<1>17. Placement'
  <2>1. cur \in DOMAIN Sources /\ read_idx + 1 \in DOMAIN Sources[cur].data /\ e = Sources[cur].data[read_idx + 1]
    BY <1>6, <1>10
  <2>2. Tight' = Tight /\ b \in DOMAIN q /\ pc' # "done"
    BY <1>2, <1>3, <1>5, <1>6, <1>9, <1>11 DEF Tight
  <2> QED BY <1>1, <1>2, <1>9, <1>10, <2>1, <2>2, TakesOne
<1> QED BY <1>3, <1>13, <1>14, <1>15, <1>16, <1>17 DEF ShuffleInv

-----------------------------------------------------------------------------
(* Batches *)

\* Each queue gives its first t elements to the slots of its bucket after the
\* w-th, which were holes.
BatchTaken(w, t) ==
  /\ DOMAIN q = DOMAIN buckets /\ DOMAIN q' = DOMAIN buckets /\ DOMAIN buckets' = DOMAIN buckets
  /\ \A b \in DOMAIN buckets :
       /\ DOMAIN buckets[b].data \subseteq Nat /\ DOMAIN buckets'[b].data = DOMAIN buckets[b].data
       /\ DOMAIN q[b] \subseteq Nat \ {0} /\ DOMAIN q'[b] \subseteq Nat \ {0}
       /\ \A k \in DOMAIN q[b] : k <= t => w + k \in DOMAIN buckets[b].data
       /\ \A k \in DOMAIN buckets[b].data :
            /\ k <= w => buckets'[b].data[k] = buckets[b].data[k]
            /\ k > w => IsHole(buckets[b].data[k])
            /\ k > w /\ k <= w + t /\ k - w \in DOMAIN q[b] => buckets'[b].data[k] = q[b][k - w]
            /\ k > w /\ ~(k <= w + t /\ k - w \in DOMAIN q[b]) => IsHole(buckets'[b].data[k])
       /\ \A k \in Nat \ {0} : k \in DOMAIN q'[b] <=> k + t \in DOMAIN q[b]
       /\ \A k \in DOMAIN q'[b] : q'[b][k] = q[b][k + t]

\* Such a step takes every element along.
LEMMA BatchMoves ==
  ASSUME TypeOK, Placement, UNCHANGED <<job, arr_out, read_idx, cur, new_temp>>,
         Sources' = Sources, Tight' = Tight, pc # "done", pc' # "done",
         \A b \in DOMAIN buckets : ~(b < bucket_idx) /\ ~(b < bucket_idx'),
         NEW w \in Nat, NEW t \in Nat, BatchTaken(w, t)
  PROVE  Placement'
<1> DEFINE f == [x \in Places' |->
                  IF x[1] = "queue" THEN <<"queue", x[2], x[3] + t>>
                  ELSE IF x[1] = "bucket" /\ x[3] > w THEN <<"queue", x[2], x[3] - w>> ELSE x]
<1>1. PlacesHeld /\ PlacesHeld'
  BY PlacesAre, PlacesNext
<1>2. \A x \in Places' : f[x] = IF x[1] = "queue" THEN <<"queue", x[2], x[3] + t>>
                                ELSE IF x[1] = "bucket" /\ x[3] > w THEN <<"queue", x[2], x[3] - w>>
                                     ELSE x
  OBVIOUS
<1> HIDE DEF f
<1>3. \A b \in DOMAIN q : \A k \in DOMAIN q[b] : ~IsHole(q[b][k])
  <2>1. JobOK /\ q \in [1 .. Len(buckets) -> Seq(Elements)]
    BY DEF TypeOK
  <2>2. \A e \in Elements : ~IsHole(e)
    BY <2>1, ElementFacts
  <2>3. \A b \in DOMAIN q : \A k \in DOMAIN q[b] : q[b][k] \in Elements
    BY <2>1
  <2> QED BY <2>2, <2>3
<1>4. ASSUME NEW b, NEW k
      PROVE  /\ <<"source", b, k>> \in Places' <=> <<"source", b, k>> \in Places
             /\ <<"source", b, k>> \in Places => At(<<"source", b, k>>)' = At(<<"source", b, k>>)
             /\ <<"next", b, k>> \in Places' <=> <<"next", b, k>> \in Places
             /\ <<"next", b, k>> \in Places => At(<<"next", b, k>>)' = At(<<"next", b, k>>)
  BY <1>1 DEF PlacesHeld
<1>5. ASSUME NEW b, NEW k, <<"queue", b, k>> \in Places'
      PROVE  /\ k \in Nat \ {0} /\ k + t \in Nat \ {0} /\ b \in DOMAIN q
             /\ <<"queue", b, k + t>> \in Places
             /\ At(<<"queue", b, k>>)' = At(<<"queue", b, k + t>>)
  <2>1. b \in DOMAIN q' /\ k \in DOMAIN q'[b] /\ At(<<"queue", b, k>>)' = q'[b][k]
    BY <1>1, <1>5 DEF PlacesHeld
  <2>2. b \in DOMAIN buckets /\ b \in DOMAIN q
    BY <2>1 DEF BatchTaken
  <2>3. k \in Nat \ {0}
    BY <2>1, <2>2 DEF BatchTaken
  <2>4. k + t \in DOMAIN q[b] /\ q'[b][k] = q[b][k + t]
    BY <2>1, <2>2, <2>3 DEF BatchTaken
  <2>5. <<"queue", b, k + t>> \in Places /\ At(<<"queue", b, k + t>>) = q[b][k + t]
    BY <1>1, <1>3, <2>2, <2>4 DEF PlacesHeld
  <2> QED BY <2>1, <2>2, <2>3, <2>4, <2>5
<1>6. ASSUME NEW b, NEW k, <<"bucket", b, k>> \in Places', k > w
      PROVE  /\ k \in Nat /\ k - w \in Nat \ {0} /\ k - w <= t
             /\ <<"queue", b, k - w>> \in Places
             /\ At(<<"bucket", b, k>>)' = At(<<"queue", b, k - w>>)
  <2>1. /\ b \in DOMAIN buckets' /\ k \in DOMAIN buckets'[b].data /\ ~IsHole(buckets'[b].data[k])
        /\ At(<<"bucket", b, k>>)' = buckets'[b].data[k]
    BY <1>1, <1>6 DEF PlacesHeld
  <2>2. b \in DOMAIN buckets /\ b \in DOMAIN q /\ k \in DOMAIN buckets[b].data /\ k \in Nat
    BY <2>1 DEF BatchTaken
  <2>3. k <= w + t /\ k - w \in DOMAIN q[b]
    BY <1>6, <2>1, <2>2 DEF BatchTaken
  <2>4. buckets'[b].data[k] = q[b][k - w]
    BY <1>6, <2>2, <2>3 DEF BatchTaken
  <2>5. <<"queue", b, k - w>> \in Places /\ At(<<"queue", b, k - w>>) = q[b][k - w]
    BY <1>1, <1>3, <2>2, <2>3 DEF PlacesHeld
  <2>6. k - w \in Nat \ {0}
    BY <1>6, <2>2
  <2>7. k - w <= t
    BY <2>2, <2>3
  <2> QED BY <2>1, <2>2, <2>4, <2>5, <2>6, <2>7
<1>7. ASSUME NEW b, NEW k, <<"bucket", b, k>> \in Places', ~(k > w)
      PROVE  /\ <<"bucket", b, k>> \in Places
             /\ At(<<"bucket", b, k>>)' = At(<<"bucket", b, k>>)
  <2>1. /\ b \in DOMAIN buckets' /\ k \in DOMAIN buckets'[b].data /\ ~IsHole(buckets'[b].data[k])
        /\ At(<<"bucket", b, k>>)' = buckets'[b].data[k]
    BY <1>1, <1>7 DEF PlacesHeld
  <2>2. b \in DOMAIN buckets /\ k \in DOMAIN buckets[b].data /\ k \in Nat
    BY <2>1 DEF BatchTaken
  <2>3. k <= w
    BY <1>7, <2>2
  <2>4. buckets'[b].data[k] = buckets[b].data[k]
    BY <2>2, <2>3 DEF BatchTaken
  <2> QED BY <1>1, <2>1, <2>2, <2>4 DEF PlacesHeld
<1>8. ASSUME NEW x \in Places' PROVE f[x] \in Places /\ At(x)' = At(f[x])
  <2> PICK b, k : x \in {<<"source", b, k>>, <<"queue", b, k>>, <<"bucket", b, k>>, <<"next", b, k>>}
    BY <1>1 DEF PlacesHeld
  <2>1. CASE x = <<"source", b, k>> \/ x = <<"next", b, k>>
    <3>1. f[x] = x
      BY <1>2, <2>1
    <3> QED BY <1>4, <2>1, <3>1
  <2>2. CASE x = <<"queue", b, k>>
    <3>1. f[x] = <<"queue", b, k + t>>
      BY <1>2, <2>2
    <3> QED BY <1>5, <2>2, <3>1
  <2>3. CASE x = <<"bucket", b, k>> /\ k > w
    <3>1. f[x] = <<"queue", b, k - w>>
      BY <1>2, <2>3
    <3> QED BY <1>6, <2>3, <3>1
  <2>4. CASE x = <<"bucket", b, k>> /\ ~(k > w)
    <3>1. f[x] = x
      BY <1>2, <2>4
    <3> QED BY <1>7, <2>4, <3>1
  <2> QED BY <2>1, <2>2, <2>3, <2>4
<1>9. ASSUME NEW x \in Places', NEW y \in Places', f[x] = f[y] PROVE x = y
  <2> DEFINE Taken(z) == z[1] = "queue" \/ (z[1] = "bucket" /\ z[3] > w)
  <2>1. ASSUME NEW z \in Places'
        PROVE  \/ ~Taken(z) /\ f[z] = z /\ z[1] # "queue"
               \/ \E b, k : /\ z = <<"queue", b, k>> /\ f[z] = <<"queue", b, k + t>>
                            /\ k \in Nat \ {0}
               \/ \E b, k : /\ z = <<"bucket", b, k>> /\ f[z] = <<"queue", b, k - w>>
                            /\ k \in Nat /\ k > w /\ k - w <= t
    <3> PICK b, k : z \in {<<"source", b, k>>, <<"queue", b, k>>, <<"bucket", b, k>>, <<"next", b, k>>}
      BY <1>1 DEF PlacesHeld
    <3>1. CASE z = <<"queue", b, k>>
      <4>1. f[z] = <<"queue", b, k + t>>
        BY <1>2, <3>1
      <4>2. k \in Nat \ {0}
        BY <1>5, <3>1
      <4> QED BY <3>1, <4>1, <4>2
    <3>2. CASE z = <<"bucket", b, k>> /\ k > w
      <4>1. f[z] = <<"queue", b, k - w>>
        BY <1>2, <3>2
      <4>2. k \in Nat /\ k - w <= t
        BY <1>6, <3>2
      <4> QED BY <3>2, <4>1, <4>2
    <3>3. CASE z = <<"bucket", b, k>> /\ ~(k > w)
      BY <1>2, <3>3
    <3>4. CASE z = <<"source", b, k>> \/ z = <<"next", b, k>>
      BY <1>2, <3>4
    <3> QED BY <3>1, <3>2, <3>3, <3>4
  <2>2. \A a, b, c, d : <<"queue", a, b>> = <<"queue", c, d>> => a = c /\ b = d
    OBVIOUS
  <2>3. \A b, c : <<"queue", b, c>>[1] = "queue"
    OBVIOUS
  <2>4. f[x][1] = "queue" <=> Taken(x)
    BY <2>1
  <2>5. f[y][1] = "queue" <=> Taken(y)
    BY <2>1
  <2> HIDE DEF Taken
  <2>6. CASE ~Taken(x)
    <3>1. ~Taken(y)
      BY <1>9, <2>4, <2>5, <2>6
    <3>2. f[x] = x /\ f[y] = y
      BY <2>1, <2>6, <3>1 DEF Taken
    <3> QED BY <1>9, <3>2
  <2>7. CASE Taken(x)
    <3>1. Taken(y)
      BY <1>9, <2>4, <2>5, <2>7
    <3>2. PICK b, k : \/ /\ x = <<"queue", b, k>> /\ f[x] = <<"queue", b, k + t>>
                         /\ k \in Nat \ {0}
                      \/ /\ x = <<"bucket", b, k>> /\ f[x] = <<"queue", b, k - w>>
                         /\ k \in Nat /\ k > w /\ k - w <= t
      BY <2>1, <2>7
    <3>3. PICK c, m : \/ /\ y = <<"queue", c, m>> /\ f[y] = <<"queue", c, m + t>>
                         /\ m \in Nat \ {0}
                      \/ /\ y = <<"bucket", c, m>> /\ f[y] = <<"queue", c, m - w>>
                         /\ m \in Nat /\ m > w /\ m - w <= t
      BY <2>1, <3>1
    <3>4. PICK g : g = IF x = <<"queue", b, k>> THEN k + t ELSE k - w
      OBVIOUS
    <3>5. PICK h : h = IF y = <<"queue", c, m>> THEN m + t ELSE m - w
      OBVIOUS
    <3>6. f[x] = <<"queue", b, g>> /\ f[y] = <<"queue", c, h>>
      BY <3>2, <3>3, <3>4, <3>5
    <3>7. b = c /\ g = h
      BY <1>9, <2>2, <3>6
    <3>8. CASE x = <<"queue", b, k>> /\ y = <<"queue", c, m>>
      BY <3>2, <3>3, <3>4, <3>5, <3>7, <3>8
    <3>9. CASE x = <<"bucket", b, k>> /\ y = <<"bucket", c, m>>
      BY <3>2, <3>3, <3>4, <3>5, <3>7, <3>9
    <3>10. CASE x = <<"queue", b, k>> /\ y = <<"bucket", c, m>>
      BY <3>2, <3>3, <3>4, <3>5, <3>7, <3>10
    <3>11. CASE x = <<"bucket", b, k>> /\ y = <<"queue", c, m>>
      BY <3>2, <3>3, <3>4, <3>5, <3>7, <3>11
    <3> QED BY <3>2, <3>3, <3>8, <3>9, <3>10, <3>11
  <2> QED BY <2>6, <2>7
<1>10. ASSUME NEW x \in Places PROVE \E y \in Places' : f[y] = x
  <2> PICK b, k : x \in {<<"source", b, k>>, <<"queue", b, k>>, <<"bucket", b, k>>, <<"next", b, k>>}
    BY <1>1 DEF PlacesHeld
  <2>1. CASE x = <<"source", b, k>> \/ x = <<"next", b, k>>
    <3>1. x \in Places'
      BY <1>4, <2>1
    <3> QED BY <1>2, <2>1, <3>1
  <2>2. CASE x = <<"bucket", b, k>>
    <3>1. b \in DOMAIN buckets /\ k \in DOMAIN buckets[b].data /\ ~IsHole(buckets[b].data[k])
      BY <1>1, <2>2 DEF PlacesHeld
    <3>2. /\ ~(k > w) /\ k <= w /\ b \in DOMAIN buckets' /\ k \in DOMAIN buckets'[b].data
      BY <3>1 DEF BatchTaken
    <3>3. ~IsHole(buckets'[b].data[k])
      BY <3>1, <3>2 DEF BatchTaken
    <3>4. x \in Places'
      BY <1>1, <2>2, <3>1, <3>2, <3>3 DEF PlacesHeld
    <3> QED BY <1>2, <2>2, <3>2, <3>4
  <2>3. CASE x = <<"queue", b, k>>
    <3>1. b \in DOMAIN q /\ k \in DOMAIN q[b] /\ ~IsHole(q[b][k])
      BY <1>1, <2>3 DEF PlacesHeld
    <3>2. b \in DOMAIN buckets /\ b \in DOMAIN q' /\ b \in DOMAIN buckets' /\ k \in Nat \ {0}
      BY <3>1 DEF BatchTaken
    <3>3. CASE k <= t
      <4> PICK m : m = w + k
        OBVIOUS
      <4>1. m \in DOMAIN buckets[b].data /\ m \in Nat /\ m > w /\ m <= w + t /\ m - w = k
        BY <3>1, <3>2, <3>3 DEF BatchTaken
      <4>2. m \in DOMAIN buckets'[b].data
        BY <3>2, <4>1 DEF BatchTaken
      <4>3. m - w \in DOMAIN q[b]
        BY <3>1, <4>1
      <4>4. buckets'[b].data[m] = q[b][m - w]
        BY <3>2, <4>1, <4>3 DEF BatchTaken
      <4>5. ~IsHole(buckets'[b].data[m])
        BY <3>1, <4>1, <4>4
      <4>6. <<"bucket", b, m>> \in Places'
        BY <1>1, <3>2, <4>2, <4>5 DEF PlacesHeld
      <4>7. f[<<"bucket", b, m>>] = <<"queue", b, m - w>>
        BY <1>2, <4>1, <4>6
      <4> QED BY <2>3, <4>1, <4>6, <4>7
    <3>4. CASE k > t
      <4> PICK m : m = k - t
        OBVIOUS
      <4>1. m \in Nat \ {0} /\ m + t = k
        BY <3>2, <3>4
      <4>2. m \in DOMAIN q'[b]
        BY <3>1, <3>2, <4>1 DEF BatchTaken
      <4>3. q'[b][m] = q[b][m + t]
        BY <3>2, <4>2 DEF BatchTaken
      <4>4. <<"queue", b, m>> \in Places'
        BY <1>1, <3>1, <3>2, <4>1, <4>2, <4>3 DEF PlacesHeld
      <4>5. f[<<"queue", b, m>>] = <<"queue", b, m + t>>
        BY <1>2, <4>4
      <4> QED BY <2>3, <4>1, <4>4, <4>5
    <3> QED BY <3>2, <3>3, <3>4
  <2> QED BY <2>1, <2>2, <2>3
<1> QED BY <1>8, <1>9, <1>10, Moves

-----------------------------------------------------------------------------
(* The Melbourne shuffle writes a batch *)

\* Buckets that differ in what their slots hold.
SameRanges(cs, bs) ==
  /\ cs \in Seq(Bucket) /\ Len(cs) = Len(bs) /\ DOMAIN cs = DOMAIN bs
  /\ \A b \in DOMAIN bs :
       /\ cs[b].begin_idx = bs[b].begin_idx /\ cs[b].end_idx = bs[b].end_idx
       /\ Len(cs[b].data) = Len(bs[b].data) /\ DOMAIN cs[b].data = DOMAIN bs[b].data

\* The buckets with what d gives for their slots.
WithSlots(bs, d) == [b \in DOMAIN bs |-> [bs[b] EXCEPT !.data = d[b]]]

CellsFor(d, bs) ==
  \A b \in DOMAIN bs : /\ d[b] = [k \in DOMAIN bs[b].data |-> d[b][k]]
                       /\ \A k \in DOMAIN bs[b].data : d[b][k] \in Cells

\* Writing cells to the slots of buckets leaves their ranges and their lengths.
LEMMA SlotsWritten ==
  ASSUME NEW bs \in Seq(Bucket), NEW d, CellsFor(d, bs),
         NEW cs, cs = WithSlots(bs, d)
  PROVE  SameRanges(cs, bs) /\ \A b \in DOMAIN bs : cs[b].data = d[b]
<1> PICK n : n = Len(bs)
  OBVIOUS
<1>1. n \in Nat /\ DOMAIN bs = 1 .. n
  BY SeqFacts
<1>2. ASSUME NEW b \in DOMAIN bs
      PROVE  /\ cs[b] \in Bucket /\ cs[b].data = d[b]
             /\ cs[b].begin_idx = bs[b].begin_idx /\ cs[b].end_idx = bs[b].end_idx
             /\ Len(cs[b].data) = Len(bs[b].data) /\ DOMAIN cs[b].data = DOMAIN bs[b].data
  <2> PICK m : m = Len(bs[b].data)
    OBVIOUS
  <2>1. bs[b] \in Bucket
    BY <1>1
  <2>2. bs[b].begin_idx \in Nat /\ bs[b].end_idx \in Nat /\ bs[b].data \in Seq(Cells)
    BY <2>1 DEF Bucket
  <2>3. m \in Nat /\ DOMAIN bs[b].data = 1 .. m
    BY <2>2, SeqFacts
  <2>4. d[b] \in [1 .. m -> Cells]
    <3>1. d[b] = [k \in 1 .. m |-> d[b][k]] /\ \A k \in 1 .. m : d[b][k] \in Cells
      BY <2>3 DEF CellsFor
    <3> QED BY <3>1
  <2>5. d[b] \in Seq(Cells) /\ Len(d[b]) = m
    BY <2>3, <2>4
  <2>6. cs[b] = [bs[b] EXCEPT !.data = d[b]]
    BY DEF WithSlots
  <2>7. cs[b] = [begin_idx |-> bs[b].begin_idx, end_idx |-> bs[b].end_idx, data |-> d[b]]
    BY <2>1, <2>6 DEF Bucket
  <2>8. cs[b] \in Bucket
    BY <2>2, <2>5, <2>7 DEF Bucket
  <2> QED BY <2>3, <2>5, <2>7, <2>8
<1>3. cs = [b \in 1 .. n |-> cs[b]]
  BY <1>1 DEF WithSlots
<1>4. cs \in [1 .. n -> Bucket]
  BY <1>1, <1>2, <1>3
<1>5. cs \in Seq(Bucket) /\ Len(cs) = n
  BY <1>1, <1>4
<1> QED BY <1>1, <1>2, <1>3, <1>5 DEF SameRanges

\* Every position keeps its bucket while the ranges stay.
LEMMA DividedStays ==
  ASSUME NEW bs, NEW cs, SameRanges(cs, bs), NEW from, NEW total, NEW idx_len,
         Divided(bs, from, total, idx_len)
  PROVE  Divided(cs, from, total, idx_len)
  BY DEF SameRanges, Divided

\* A batch goes to the next slots of its buckets, or the program gives up.
LEMMA WriteOutputKeeps ==
  ASSUME ShuffleInv, IsMelbourne, WriteOutput, UNCHANGED cacheOnly
  PROVE  ShuffleInv'
<1> DEFINE n == num_of_bucket
           p == p_log_len
<1> PICK w : w = write_idx * p_log_len
  OBVIOUS
<1> PICK slots : slots = p_log_len * CeilDiv(len, num_of_bucket)
  OBVIOUS
<1>1. TypeOK /\ MelbourneOK /\ RangesSplit /\ QueuesInRange /\ Placement /\ JobOK
  BY DEF ShuffleInv, TypeOK
<1>2. UNCHANGED <<job, read_idx, bucket_idx, arr_out, temp, cur, new_temp, spray>> /\ pc = "write"
  BY DEF WriteOutput, cacheOnly
<1>3. /\ IsMelbourne' = IsMelbourne /\ JobOK' = JobOK /\ len' = len
      /\ Positions' = Positions /\ Elements' = Elements /\ Cells' = Cells /\ Bucket' = Bucket
      /\ num_of_bucket' = n /\ p_log_len' = p
      /\ bucket_idx_len' = bucket_idx_len
  BY <1>2, JobStays
<1>4. /\ n \in 1 .. len /\ len \in Nat \ {0} /\ p \in Nat
      /\ CeilDiv(len, n) \in Nat \ {0} /\ len <= CeilDiv(len, n) * n
  BY <1>1, JobFacts, MelbourneNumbers
<1>5. /\ read_idx \in Nat /\ i \in Nat /\ write_idx \in Nat
      /\ buckets \in Seq(Bucket) /\ q \in [1 .. Len(buckets) -> Seq(Elements)] /\ IsFiniteSet(Blocks(q))
  BY <1>1 DEF TypeOK
<1>6. /\ Len(buckets) = n /\ Divided(buckets, 0, len, bucket_idx_len)
      /\ cur = 1 /\ bucket_idx = 1 /\ Cardinality(Blocks(q)) = i /\ i > 0 /\ i <= n
      /\ (i = n \/ read_idx = len) /\ read_idx <= len /\ read_idx = write_idx * n + i
      /\ \A b \in 1 .. n : Len(buckets[b].data) = slots
      /\ \A b \in 1 .. n : \A k \in DOMAIN buckets[b].data : k > w => IsHole(buckets[b].data[k])
      /\ temp = << >> /\ new_temp = << >>
  BY <1>1, <1>2 DEF MelbourneOK
<1>7. /\ DOMAIN buckets = 1 .. n /\ DOMAIN q = 1 .. n /\ q \in [1 .. n -> Seq(Elements)]
      /\ \A b \in 1 .. n : buckets[b] \in Bucket
  BY <1>5, <1>6, SeqFacts
<1>8. Sources' = Sources /\ Tight' = Tight
  BY <1>2, <1>3 DEF Sources, Tight
<1> HIDE DEF n, p
<1>9. CASE \E b \in DOMAIN q : Len(q[b]) > p
  <2>1. pc' = "aborted" /\ UNCHANGED <<i, write_idx, q, buckets>>
    BY <1>9 DEF WriteOutput, p
  <2>2. PICK b \in 1 .. n : Len(q[b]) > p
    BY <1>7, <1>9
  <2>3. Len(q[b]) <= Cardinality(Blocks(q)) /\ Len(q[b]) \in Nat
    BY <1>5, <1>7, QueueWithin, SeqFacts
  <2>4. p < n
    BY <1>4, <1>5, <1>6, <2>2, <2>3
  <2>5. TypeOK'
    BY <1>1, <1>2, <1>3, <2>1 DEF TypeOK
  <2>6. MelbourneOK'
    <3>1. Divided(buckets, 0, len, bucket_idx_len)'
      BY <1>2, <1>3, <1>6, <2>1 DEF Divided
    <3> QED BY <1>2, <1>3, <1>6, <2>1, <2>4, <3>1 DEF MelbourneOK, n, p
  <2>7. RangesSplit'
    BY <1>1, <1>2, <2>1, MelbourneSplitStays
  <2>8. QueuesInRange'
    BY <1>1, <2>1 DEF QueuesInRange
  <2>9. Placement'
    <3>1. pc # "done" /\ pc' # "done"
      BY <1>2, <2>1
    <3> QED BY <1>1, <1>2, <1>8, <2>1, <3>1, StaysPut
  <2> QED BY <1>3, <2>5, <2>6, <2>7, <2>8, <2>9 DEF ShuffleInv
<1>10. CASE \A b \in DOMAIN q : ~(Len(q[b]) > p)
  <2> DEFINE d == [b \in 1 .. n |-> [k \in DOMAIN buckets[b].data |->
                     IF k \in w + 1 .. w + p THEN NthOrHole(q[b], k - w) ELSE buckets[b].data[k]]]
  <2>1. /\ buckets' = [b \in DOMAIN buckets |-> [buckets[b] EXCEPT !.data = d[b]]]
        /\ q' = EmptyQueues(n) /\ write_idx' = write_idx + 1 /\ i' = 0
        /\ pc' = IF read_idx < len THEN "read" ELSE "clean"
    BY <1>7, <1>10 DEF WriteOutput, SlotsBefore, n, p
  <2>2. w \in Nat
    BY <1>4, <1>5, ProductNat DEF p
  <2>3. \A b \in 1 .. n : Len(q[b]) \in 0 .. p /\ DOMAIN q[b] = 1 .. Len(q[b])
    BY <1>4, <1>7, <1>10, SeqFacts
  <2>4. \A b \in 1 .. n : /\ DOMAIN buckets[b].data = 1 .. slots
                          /\ \A k \in DOMAIN buckets[b].data : buckets[b].data[k] \in Cells
    <3> TAKE b \in 1 .. n
    <3>1. buckets[b] \in Bucket
      BY <1>7
    <3>2. buckets[b].data \in Seq(Cells)
      BY <3>1 DEF Bucket
    <3> QED BY <1>6, <3>2, SeqFacts
  <2>5. ASSUME NEW b \in 1 .. n, NEW k \in DOMAIN buckets[b].data
        PROVE  /\ k \in Nat
               /\ k <= w => d[b][k] = buckets[b].data[k]
               /\ k > w /\ k - w \in DOMAIN q[b] => d[b][k] = q[b][k - w] /\ d[b][k] \in Elements
               /\ k > w /\ k - w \notin DOMAIN q[b] => d[b][k] = Hole \/ IsHole(d[b][k])
    <3>1. k \in Nat \ {0}
      BY <2>4
    <3>2. d[b][k] = IF k \in w + 1 .. w + p THEN NthOrHole(q[b], k - w) ELSE buckets[b].data[k]
      OBVIOUS
    <3> HIDE DEF d
    <3>3. k <= w => d[b][k] = buckets[b].data[k]
      BY <2>2, <3>1, <3>2
    <3>4. ASSUME k > w, k - w \in DOMAIN q[b]
          PROVE  d[b][k] = q[b][k - w] /\ d[b][k] \in Elements
      <4>1. k - w \in 1 .. Len(q[b]) /\ Len(q[b]) \in 0 .. p
        BY <2>3, <3>4
      <4>2. k \in w + 1 .. w + p /\ k - w <= Len(q[b])
        BY <1>4, <2>2, <3>1, <4>1
      <4>3. q[b] \in Seq(Elements)
        BY <1>7
      <4>4. q[b][k - w] \in Elements
        BY <3>4, <4>1, <4>3, SeqFacts
      <4> QED BY <3>2, <4>2, <4>4 DEF NthOrHole
    <3>5. ASSUME k > w, k - w \notin DOMAIN q[b]
          PROVE  d[b][k] = Hole \/ IsHole(d[b][k])
      <4>1. CASE k \in w + 1 .. w + p
        <5>1. ~(k - w <= Len(q[b]))
          BY <2>2, <2>3, <3>1, <3>5
        <5> QED BY <3>2, <4>1, <5>1 DEF NthOrHole
      <4>2. CASE k \notin w + 1 .. w + p
        BY <1>6, <3>2, <3>5, <4>2
      <4> QED BY <4>1, <4>2
    <3> QED BY <3>1, <3>3, <3>4, <3>5
  <2>6. IsHole(Hole) /\ Hole \in Cells /\ Elements \subseteq Cells
    BY DEF IsHole, Hole, Cells
  <2>7. \A b \in 1 .. n : DOMAIN d[b] = DOMAIN buckets[b].data
    OBVIOUS
  <2>8. ASSUME NEW b \in 1 .. n, NEW k \in DOMAIN buckets[b].data
        PROVE  d[b][k] \in Cells
    <3>1. d[b][k] = IF k \in w + 1 .. w + p THEN NthOrHole(q[b], k - w) ELSE buckets[b].data[k]
      OBVIOUS
    <3> HIDE DEF d
    <3>2. CASE k > w /\ k - w \in DOMAIN q[b]
      BY <2>5, <2>6, <3>2
    <3>3. CASE k \notin w + 1 .. w + p
      BY <2>4, <3>1, <3>3
    <3>4. CASE k \in w + 1 .. w + p /\ ~(k > w /\ k - w \in DOMAIN q[b])
      <4>1. k \in Nat /\ k > w
        BY <1>4, <2>2, <2>5, <3>4
      <4>2. DOMAIN q[b] = 1 .. Len(q[b]) /\ Len(q[b]) \in Nat
        BY <1>4, <2>3
      <4>3. ~(k - w <= Len(q[b]))
        BY ONLY <2>2, <3>4, <4>1, <4>2
      <4>4. NthOrHole(q[b], k - w) = Hole
        BY ONLY <4>3 DEF NthOrHole
      <4>5. d[b][k] = Hole
        BY ONLY <3>1, <3>4, <4>4
      <4> QED BY <2>6, <4>5
    <3> QED BY <3>2, <3>3, <3>4
  <2>9. \A b \in 1 .. n : d[b] = [k \in DOMAIN buckets[b].data |-> d[b][k]]
    OBVIOUS
  <2> HIDE DEF d
  <2>10. SameRanges(buckets', buckets) /\ \A b \in 1 .. n : buckets'[b].data = d[b]
    <3>1. CellsFor(d, buckets)
      BY <1>7, <2>8, <2>9 DEF CellsFor
    <3>2. buckets' = WithSlots(buckets, d)
      BY <2>1 DEF WithSlots
    <3>3. SameRanges(buckets', buckets) /\ \A b \in DOMAIN buckets : buckets'[b].data = d[b]
      BY ONLY <1>5, <3>1, <3>2, SlotsWritten
    <3> QED BY <1>7, <3>3
  <2>11. /\ buckets' \in Seq(Bucket) /\ Len(buckets') = n /\ DOMAIN buckets' = 1 .. n
         /\ \A b \in 1 .. n :
              /\ buckets'[b].begin_idx = buckets[b].begin_idx /\ buckets'[b].end_idx = buckets[b].end_idx
              /\ Len(buckets'[b].data) = Len(buckets[b].data)
              /\ DOMAIN buckets'[b].data = DOMAIN buckets[b].data
    BY <1>6, <1>7, <2>10 DEF SameRanges
  <2>12. /\ q' \in [1 .. n -> Seq(Elements)] /\ \A b \in 1 .. n : q'[b] = << >>
         /\ IsFiniteSet(Blocks(q')) /\ Cardinality(Blocks(q')) = 0 /\ DOMAIN q' = 1 .. n
    BY <2>1, NoBlocks DEF EmptyQueues
  <2>13. TypeOK'
    <3>1. write_idx' \in Nat /\ i' \in Nat
      BY <1>5, <2>1
    <3> QED BY <1>1, <1>2, <1>3, <2>11, <2>12, <3>1 DEF TypeOK
  <2>14. (write_idx + 1) * p = w + p /\ (write_idx + 1) * n = write_idx * n + n
    BY <1>4, <1>5 DEF p
  <2>15. MelbourneOK'
    <3>1. Divided(buckets, 0, len, bucket_idx_len)'
      <4>1. Divided(buckets', 0, len, bucket_idx_len)
        BY <1>6, <2>10, DividedStays
      <4> QED BY <1>3, <4>1
    <3>2. pc' \in {"read", "clean"} /\ (pc' = "read" => read_idx < len) /\ (pc' = "clean" => ~(read_idx < len))
      BY <2>1
    <3>3. pc' = "clean" => read_idx = len
      BY <1>4, <1>5, <1>6, <3>2
    <3>4. ASSUME pc' = "read" PROVE read_idx = (write_idx + 1) * n + 0
      <4>1. i = n
        BY <1>4, <1>5, <1>6, <3>2, <3>4
      <4>2. write_idx * n \in Nat
        BY <1>4, <1>5, ProductNat
      <4> QED BY <1>4, <1>6, <2>14, <4>1, <4>2
    <3>5. \A b \in 1 .. n : \A k \in DOMAIN buckets'[b].data :
            k > (write_idx + 1) * p => IsHole(buckets'[b].data[k])
      <4> SUFFICES ASSUME NEW b \in 1 .. n, NEW k \in DOMAIN buckets[b].data, k > w + p
                   PROVE  IsHole(d[b][k])
        BY <2>10, <2>11, <2>14
      <4>1. k \in Nat /\ k > w
        BY <1>4, <2>2, <2>5
      <4>2. k - w \notin DOMAIN q[b]
        BY <1>4, <2>2, <2>3, <4>1
      <4> QED BY <2>5, <2>6, <4>1, <4>2
    <3>6. \A b \in 1 .. n : Len(buckets'[b].data) = p * CeilDiv(len, n)
      BY <1>6, <2>11 DEF n, p
    <3> QED BY <1>2, <1>3, <1>4, <1>6, <2>1, <2>11, <2>12, <3>1, <3>2, <3>3, <3>4, <3>5, <3>6
            DEF MelbourneOK, n, p
  <2>16. RangesSplit'
    <3>1. Split(buckets, 0, len)
      BY <1>1 DEF RangesSplit
    <3>2. ASSUME NEW b \in 1 .. n, NEW k \in DOMAIN buckets[b].data
          PROVE  \/ IsHole(d[b][k])
                 \/ d[b][k].perm \in buckets[b].begin_idx .. buckets[b].end_idx - 1
      <4>1. CASE k <= w
        <5>1. \/ IsHole(buckets[b].data[k])
              \/ buckets[b].data[k].perm \in buckets[b].begin_idx .. buckets[b].end_idx - 1
          BY <1>7, <3>1 DEF Split
        <5> QED BY <2>5, <4>1, <5>1
      <4>2. CASE ~(k <= w) /\ k - w \in DOMAIN q[b]
        <5>1. d[b][k] = q[b][k - w]
          BY <2>2, <2>5, <4>2
        <5>2. q[b][k - w].perm \in buckets[b].begin_idx .. buckets[b].end_idx - 1
          BY <1>1, <1>7, <4>2 DEF QueuesInRange
        <5> QED BY <5>1, <5>2
      <4>3. CASE ~(k <= w) /\ k - w \notin DOMAIN q[b]
        BY <2>2, <2>5, <2>6, <4>3
      <4> QED BY <4>1, <4>2, <4>3
    <3>3. Split(buckets', 0, len)
      <4>1. \A b \in 1 .. Len(buckets) :
              /\ buckets'[b].begin_idx = buckets[b].begin_idx /\ buckets'[b].end_idx = buckets[b].end_idx
              /\ \A k \in DOMAIN buckets'[b].data :
                   \/ IsHole(buckets'[b].data[k])
                   \/ buckets'[b].data[k].perm \in buckets[b].begin_idx .. buckets[b].end_idx - 1
        BY <1>6, <2>10, <2>11, <3>2
      <4>2. Len(buckets') = Len(buckets)
        BY <1>6, <2>11
      <4> QED BY ONLY <1>5, <2>11, <3>1, <4>1, <4>2, SplitStays
    <3> QED BY <1>3, <3>3 DEF RangesSplit
  <2>17. QueuesInRange'
    BY <2>12 DEF QueuesInRange
  <2>18. Placement'
    <3>1. ASSUME NEW b \in 1 .. n, NEW k \in DOMAIN q[b], k <= p
          PROVE  w + k \in 1 .. slots
      <4> PICK c : c = CeilDiv(len, n)
        OBVIOUS
      <4>1. c \in Nat /\ len <= c * n /\ slots = p * c /\ w = write_idx * p /\ k \in Nat /\ k > 0
        BY <1>4, <2>3 DEF n, p
      <4>2. write_idx * n \in Nat /\ write_idx * n < c * n
        <5>1. write_idx * n \in Nat /\ c * n \in Nat
          BY <1>4, <1>5, <4>1, ProductNat
        <5>2. read_idx = write_idx * n + i /\ read_idx <= len /\ i > 0
          BY <1>6
        <5>3. i \in Nat /\ read_idx \in Nat /\ len \in Nat
          BY <1>4, <1>5
        <5>4. len <= c * n
          BY <4>1
        <5> QED BY ONLY <5>1, <5>2, <5>3, <5>4
      <4>3. write_idx < c
        <5> SUFFICES ASSUME c <= write_idx PROVE FALSE
          BY <1>5, <4>1
        <5>1. c * n <= write_idx * n
          BY <1>4, <1>5, <4>1, ProductMonotone
        <5>2. c * n \in Nat
          BY <1>4, <4>1, ProductNat
        <5> QED BY <4>2, <5>1, <5>2
      <4>4. (write_idx + 1) * p <= c * p
        <5>1. write_idx + 1 <= c /\ write_idx + 1 \in Nat
          BY <1>5, <4>1, <4>3
        <5> QED BY <1>4, <4>1, <5>1, ProductMonotone
      <4>5. p * c = c * p
        BY <1>4, <4>1
      <4>6. w + p <= slots /\ slots \in Nat
        <5>1. c * p \in Nat
          BY <1>4, <4>1, ProductNat
        <5> QED BY <2>14, <4>1, <4>4, <4>5, <5>1
      <4> QED BY <1>4, <2>2, <3>1, <4>1, <4>6
    <3>2. BatchTaken(w, p)
      <4>1. ASSUME NEW b \in 1 .. n
            PROVE  /\ DOMAIN buckets[b].data \subseteq Nat
                   /\ DOMAIN buckets'[b].data = DOMAIN buckets[b].data
                   /\ DOMAIN q[b] \subseteq Nat \ {0} /\ DOMAIN q'[b] \subseteq Nat \ {0}
                   /\ \A k \in DOMAIN q[b] : k <= p => w + k \in DOMAIN buckets[b].data
        <5>1. DOMAIN q'[b] = {}
          BY <2>12
        <5>2. DOMAIN q[b] \subseteq Nat \ {0}
          BY <2>3
        <5>3. DOMAIN buckets[b].data = 1 .. slots
          BY <2>4
        <5>4. DOMAIN buckets'[b].data = DOMAIN buckets[b].data
          BY <2>11
        <5>5. \A k \in DOMAIN q[b] : k <= p => w + k \in DOMAIN buckets[b].data
          BY ONLY <3>1, <5>3
        <5>6. DOMAIN buckets[b].data \subseteq Nat
          BY <5>3
        <5>7. DOMAIN q'[b] \subseteq Nat \ {0}
          BY ONLY <5>1
        <5> QED BY ONLY <5>2, <5>4, <5>5, <5>6, <5>7
      <4>2. ASSUME NEW b \in 1 .. n, NEW k \in DOMAIN buckets[b].data
            PROVE  /\ k <= w => buckets'[b].data[k] = buckets[b].data[k]
                   /\ k > w => IsHole(buckets[b].data[k])
                   /\ k > w /\ k <= w + p /\ k - w \in DOMAIN q[b] => buckets'[b].data[k] = q[b][k - w]
                   /\ k > w /\ ~(k <= w + p /\ k - w \in DOMAIN q[b]) => IsHole(buckets'[b].data[k])
        <5>1. buckets'[b].data[k] = d[b][k]
          BY <1>7, <2>10
        <5>2. k \in Nat
          BY <2>4
        <5>3. k - w \in DOMAIN q[b] => k - w <= p
          BY <1>4, <2>3
        <5>4. k > w /\ k - w \in DOMAIN q[b] => k <= w + p
          BY <1>4, <2>2, <5>2, <5>3
        <5> HIDE DEF d
        <5>5. k > w /\ k - w \notin DOMAIN q[b] => IsHole(buckets'[b].data[k])
          BY <2>5, <2>6, <5>1
        <5> QED BY <1>6, <2>5, <5>1, <5>4, <5>5
      <4>3. ASSUME NEW b \in 1 .. n
            PROVE  /\ \A k \in Nat \ {0} : k \in DOMAIN q'[b] <=> k + p \in DOMAIN q[b]
                   /\ \A k \in DOMAIN q'[b] : q'[b][k] = q[b][k + p]
        <5>1. DOMAIN q'[b] = {}
          BY <2>12
        <5>2. \A k \in Nat \ {0} : k + p \notin DOMAIN q[b]
          BY <1>4, <2>3
        <5> QED BY <5>1, <5>2
      <4> QED BY <1>7, <2>11, <2>12, <4>1, <4>2, <4>3 DEF BatchTaken
    <3>3. pc # "done" /\ pc' # "done"
      BY <1>2, <2>1
    <3>4. \A b \in DOMAIN buckets : ~(b < bucket_idx) /\ ~(b < bucket_idx')
      BY <1>2, <1>4, <1>6, <1>7
    <3>5. UNCHANGED <<job, arr_out, read_idx, cur, new_temp>>
      BY <1>2
    <3> QED BY ONLY <1>1, <1>4, <1>8, <2>2, <3>2, <3>3, <3>4, <3>5, BatchMoves
  <2> QED BY <1>3, <2>13, <2>15, <2>16, <2>17, <2>18 DEF ShuffleInv
<1> QED BY <1>9, <1>10

-----------------------------------------------------------------------------
(* The Melbourne shuffle cleans up and returns *)

\* A step that takes the elements of one bucket to the output.  place gives the
\* place of each slot.
LEMMA CleansUp ==
  ASSUME TypeOK, Placement, UNCHANGED job, Tight' = Tight,
         NEW bucket \in Bucket, arr_out' = CleanUp(arr_out, bucket), NEW place,
         \A k \in DOMAIN bucket.data : ~IsHole(bucket.data[k]) =>
           place[k] \in Places /\ place[k] \notin Places' /\ At(place[k]) = bucket.data[k],
         \A k, m \in DOMAIN bucket.data : place[k] = place[m] => k = m,
         \A x \in Places : \/ x \in Places'
                           \/ \E k \in DOMAIN bucket.data : ~IsHole(bucket.data[k]) /\ x = place[k],
         \A x \in Places' : x \in Places /\ At(x)' = At(x)
  PROVE  Placement' /\ DOMAIN arr_out' = Positions
<1> DEFINE slots(j) == {k \in DOMAIN bucket.data : bucket.data[k].perm = j}
<1>1. DOMAIN arr_out = Positions /\ Alone
  BY DEF TypeOK, Placement
<1>2. /\ DOMAIN arr_out' = Positions
      /\ \A j \in Positions : arr_out'[j] = IF slots(j) = {} THEN arr_out[j]
                                            ELSE bucket.data[Max(slots(j))].value
  BY <1>1 DEF CleanUp
<1>3. bucket.data \in Seq(Cells) /\ DOMAIN bucket.data \subseteq Nat
  <2>1. bucket.data \in Seq(Cells)
    BY DEF Bucket
  <2> QED BY <2>1, SeqFacts
<1>4. ASSUME NEW j \in Positions
      PROVE  \/ /\ arr_out'[j] = arr_out[j]
                /\ \A x \in Places : At(x).perm = j => x \in Places'
             \/ \E x \in Places : /\ At(x).perm = j /\ x \notin Places'
                                  /\ arr_out'[j] = At(x).value
  <2> PICK ks : ks = slots(j)
    OBVIOUS
  <2>1. /\ \A k : k \in ks <=> k \in DOMAIN bucket.data /\ bucket.data[k].perm = j
        /\ arr_out'[j] = IF ks = {} THEN arr_out[j] ELSE bucket.data[Max(ks)].value
    BY <1>2
  <2> HIDE DEF slots
  <2>2. CASE ks = {}
    <3>1. arr_out'[j] = arr_out[j]
      BY <2>1, <2>2
    <3>2. ASSUME NEW x \in Places, At(x).perm = j PROVE x \in Places'
      <4> SUFFICES ASSUME x \notin Places' PROVE FALSE
        OBVIOUS
      <4>1. PICK k \in DOMAIN bucket.data : ~IsHole(bucket.data[k]) /\ x = place[k]
        OBVIOUS
      <4>2. bucket.data[k].perm = j
        BY <3>2, <4>1
      <4> QED BY <2>1, <2>2, <4>2
    <3> QED BY <3>1, <3>2
  <2>3. CASE ks # {}
    <3>1. PICK k : k \in ks
      BY <2>3
    <3>2. k \in DOMAIN bucket.data /\ bucket.data[k].perm = j /\ k \in Nat
      BY <1>3, <2>1, <3>1
    <3>3. \A m \in ks : /\ m \in DOMAIN bucket.data /\ bucket.data[m].perm = j
                        /\ ~IsHole(bucket.data[m])
      BY <2>1 DEF IsHole, Positions
    <3>4. place[k] \in Places /\ place[k] \notin Places' /\ At(place[k]) = bucket.data[k]
      BY <3>1, <3>3
    <3>5. ks = {k}
      <4> SUFFICES ASSUME NEW m \in ks PROVE m = k
        BY <3>1
      <4>1. place[m] \in Places /\ At(place[m]) = bucket.data[m] /\ m \in DOMAIN bucket.data
        BY <3>3
      <4>2. At(place[m]).perm = At(place[k]).perm
        BY <3>2, <3>3, <3>4, <4>1
      <4>3. place[m] = place[k]
        BY <1>1, <3>4, <4>1, <4>2 DEF Alone
      <4> QED BY <3>2, <4>1, <4>3
    <3>6. Max(ks) = k
      <4>1. Max({k}) = k
        BY <3>2 DEF Max
      <4> QED BY <3>5, <4>1
    <3>7. arr_out'[j] = At(place[k]).value
      BY <2>1, <2>3, <3>4, <3>6
    <3> QED BY <3>2, <3>4, <3>7
  <2> QED BY <2>2, <2>3
<1>5. Placement'
  BY <1>4, Put
<1> QED BY <1>2, <1>5

\* Once the input is read and the queues are empty, the Melbourne shuffle has its
\* elements in the buckets that have not been cleaned up.
LEMMA MelbourneLast ==
  ASSUME ShuffleInv, IsMelbourne, pc = "clean", bucket_idx > 0
  PROVE  /\ \A x \in Places : \E b, k : x = <<"bucket", b, k>> /\ b \in DOMAIN buckets /\ ~(b < bucket_idx)
         /\ DOMAIN buckets = 1 .. num_of_bucket /\ num_of_bucket \in Nat
         /\ q = EmptyQueues(num_of_bucket) /\ ~Tight
<1>1. TypeOK /\ MelbourneOK /\ JobOK
  BY DEF ShuffleInv, TypeOK
<1>2. /\ DOMAIN Sources = {1} /\ DOMAIN Sources[1].data = 1 .. len /\ ~Tight
  BY <1>1, MelbourneSources
<1>3. /\ buckets \in Seq(Bucket) /\ Len(buckets) = num_of_bucket /\ read_idx = len /\ cur = 1
      /\ q = EmptyQueues(num_of_bucket) /\ new_temp = << >>
  BY <1>1 DEF MelbourneOK, TypeOK
<1>4. DOMAIN buckets = 1 .. num_of_bucket /\ num_of_bucket \in Nat
  BY <1>3, SeqFacts
<1>5. len \in Nat
  BY <1>1, JobFacts
<1>6. ASSUME NEW x \in Places
      PROVE  \E b, k : x = <<"bucket", b, k>> /\ b \in DOMAIN buckets /\ ~(b < bucket_idx)
  <2> PICK b, k : x \in {<<"source", b, k>>, <<"queue", b, k>>, <<"bucket", b, k>>, <<"next", b, k>>}
    BY PlacesAre DEF PlacesHeld
  <2>1. x # <<"source", b, k>>
    <3> SUFFICES ASSUME x = <<"source", b, k>> PROVE FALSE
      OBVIOUS
    <3>1. b = 1 /\ k \in 1 .. len /\ ~(b = cur /\ k <= read_idx)
      <4>1. b \in DOMAIN Sources /\ k \in DOMAIN Sources[b].data /\ ~(b = cur /\ k <= read_idx)
        BY PlacesAre DEF PlacesHeld
      <4> QED BY <1>2, <4>1
    <3> QED BY <1>3, <1>5, <3>1
  <2>2. x # <<"queue", b, k>>
    <3> SUFFICES ASSUME x = <<"queue", b, k>> PROVE FALSE
      OBVIOUS
    <3>1. b \in DOMAIN q /\ k \in DOMAIN q[b]
      BY PlacesAre DEF PlacesHeld
    <3> QED BY <1>3, <3>1 DEF EmptyQueues
  <2>3. x # <<"next", b, k>>
    <3> SUFFICES ASSUME x = <<"next", b, k>> PROVE FALSE
      OBVIOUS
    <3>1. b \in DOMAIN new_temp
      BY PlacesAre DEF PlacesHeld
    <3> QED BY <1>3, <3>1
  <2>4. x = <<"bucket", b, k>>
    BY <2>1, <2>2, <2>3
  <2>5. b \in DOMAIN buckets /\ ~(b < bucket_idx)
    BY <2>4, PlacesAre DEF PlacesHeld
  <2> QED BY <2>4, <2>5
<1> QED BY <1>2, <1>3, <1>4, <1>6

\* A bucket's elements go to their places.
LEMMA MelbourneCleanupKeeps ==
  ASSUME ShuffleInv, IsMelbourne, MelbourneCleanup, UNCHANGED cacheOnly
  PROVE  ShuffleInv'
<1> PICK bucket : bucket = buckets[bucket_idx]
  OBVIOUS
<1> DEFINE place == [k \in DOMAIN bucket.data |-> <<"bucket", bucket_idx, k>>]
<1>1. TypeOK /\ MelbourneOK /\ RangesSplit /\ QueuesInRange /\ Placement /\ JobOK
  BY DEF ShuffleInv, TypeOK
<1>2. /\ UNCHANGED <<job, pc, read_idx, i, write_idx, q, buckets, temp, cur, new_temp, spray>>
      /\ pc = "clean" /\ bucket_idx <= num_of_bucket /\ bucket_idx' = bucket_idx + 1
      /\ arr_out' = CleanUp(arr_out, bucket)
  BY DEF MelbourneCleanup, cacheOnly
<1>3. /\ IsMelbourne' = IsMelbourne /\ JobOK' = JobOK /\ len' = len
      /\ Positions' = Positions /\ Elements' = Elements /\ Cells' = Cells /\ Bucket' = Bucket
      /\ num_of_bucket' = num_of_bucket /\ p_log_len' = p_log_len
      /\ bucket_idx_len' = bucket_idx_len
  BY <1>2, JobStays
<1>4. bucket_idx \in Nat \ {0} /\ buckets \in Seq(Bucket)
  BY <1>1 DEF TypeOK
<1>5. /\ \A x \in Places : \E b, k : x = <<"bucket", b, k>> /\ b \in DOMAIN buckets /\ ~(b < bucket_idx)
      /\ DOMAIN buckets = 1 .. num_of_bucket /\ num_of_bucket \in Nat
      /\ q = EmptyQueues(num_of_bucket) /\ ~Tight
  <2>1. bucket_idx > 0
    BY <1>4
  <2> QED BY <1>2, <2>1, MelbourneLast
<1>6. bucket_idx \in DOMAIN buckets /\ bucket \in Bucket
  BY <1>2, <1>4, <1>5
<1>7. PlacesHeld /\ PlacesHeld'
  BY PlacesAre, PlacesNext
<1>8. Sources' = Sources /\ Tight' = Tight
  BY <1>2, <1>3 DEF Sources, Tight
<1>9. Placement' /\ DOMAIN arr_out' = Positions
  <2>1. \A k \in DOMAIN bucket.data : place[k] = <<"bucket", bucket_idx, k>>
    OBVIOUS
  <2> HIDE DEF place
  <2>2. ASSUME NEW k \in DOMAIN bucket.data, ~IsHole(bucket.data[k])
        PROVE  place[k] \in Places /\ place[k] \notin Places' /\ At(place[k]) = bucket.data[k]
    <3>1. ~(bucket_idx < bucket_idx) /\ bucket_idx < bucket_idx'
      BY <1>2, <1>4
    <3>2. <<"bucket", bucket_idx, k>> \in Places /\ At(<<"bucket", bucket_idx, k>>) = bucket.data[k]
      BY <1>2, <1>6, <1>7, <2>2, <3>1 DEF PlacesHeld
    <3>3. <<"bucket", bucket_idx, k>> \notin Places'
      BY <1>3, <1>7, <3>1 DEF PlacesHeld
    <3> QED BY <2>1, <3>2, <3>3
  <2>3. \A k, m \in DOMAIN bucket.data : place[k] = place[m] => k = m
    BY <2>1
  <2>4. ASSUME NEW x \in Places
        PROVE  \/ x \in Places'
               \/ \E k \in DOMAIN bucket.data : ~IsHole(bucket.data[k]) /\ x = place[k]
    <3>1. PICK b, k : x = <<"bucket", b, k>> /\ b \in DOMAIN buckets /\ ~(b < bucket_idx)
      BY <1>5
    <3>2. k \in DOMAIN buckets[b].data /\ ~IsHole(buckets[b].data[k])
      BY <1>7, <3>1 DEF PlacesHeld
    <3>3. CASE b = bucket_idx
      BY <2>1, <3>1, <3>2, <3>3
    <3>4. CASE b # bucket_idx
      <4>1. ~(b < bucket_idx')
        BY <1>2, <1>4, <1>5, <3>1, <3>4
      <4>2. <<"bucket", b, k>> \in Places'
        BY <1>2, <1>7, <3>1, <3>2, <4>1 DEF PlacesHeld
      <4> QED BY <3>1, <4>2
    <3> QED BY <3>3, <3>4
  <2>5. ASSUME NEW x \in Places' PROVE x \in Places /\ At(x)' = At(x)
    <3>1. PICK b, k : x \in {<<"source", b, k>>, <<"queue", b, k>>, <<"bucket", b, k>>, <<"next", b, k>>}
      BY <1>7 DEF PlacesHeld
    <3>2. CASE x = <<"bucket", b, k>>
      <4>1. b \in DOMAIN buckets /\ ~(b < bucket_idx')
        BY <1>2, <1>3, <1>7, <3>2 DEF PlacesHeld
      <4>2. ~(b < bucket_idx)
        BY <1>2, <1>4, <1>5, <4>1
      <4> QED BY <1>2, <1>3, <1>7, <3>2, <4>1, <4>2 DEF PlacesHeld
    <3>3. CASE x # <<"bucket", b, k>>
      BY <1>2, <1>7, <1>8, <3>1, <3>3 DEF PlacesHeld
    <3> QED BY <3>2, <3>3
  <2>6. UNCHANGED job
    BY <1>2
  <2> QED BY ONLY <1>1, <1>2, <1>6, <1>8, <2>2, <2>3, <2>4, <2>5, <2>6, CleansUp
<1>10. TypeOK'
  BY <1>1, <1>2, <1>3, <1>9 DEF TypeOK
<1>11. MelbourneOK'
  <2>1. Divided(buckets, 0, len, bucket_idx_len)'
    <3>1. Divided(buckets, 0, len, bucket_idx_len)
      BY <1>1 DEF MelbourneOK
    <3> QED BY <1>2, <1>3, <3>1
  <2> QED BY <1>1, <1>2, <1>3, <2>1 DEF MelbourneOK
<1>12. RangesSplit'
  BY <1>1, <1>2, MelbourneSplitStays
<1>13. QueuesInRange'
  BY <1>1, <1>2 DEF QueuesInRange
<1> QED BY <1>3, <1>9, <1>10, <1>11, <1>12, <1>13 DEF ShuffleInv

\* When it returns, no element is left outside the output.
LEMMA MelbourneReturnKeeps ==
  ASSUME ShuffleInv, IsMelbourne, MelbourneReturn, UNCHANGED cacheOnly
  PROVE  ShuffleInv'
<1>1. TypeOK /\ MelbourneOK /\ RangesSplit /\ QueuesInRange /\ Placement /\ JobOK
  BY DEF ShuffleInv, TypeOK
<1>2. /\ UNCHANGED <<job, read_idx, i, write_idx, q, buckets, bucket_idx, arr_out, temp, cur, new_temp, spray>>
      /\ pc = "clean" /\ bucket_idx > num_of_bucket /\ pc' = "done"
  BY DEF MelbourneReturn, cacheOnly
<1>3. /\ IsMelbourne' = IsMelbourne /\ JobOK' = JobOK /\ len' = len
      /\ Positions' = Positions /\ Elements' = Elements /\ Cells' = Cells /\ Bucket' = Bucket
      /\ num_of_bucket' = num_of_bucket /\ p_log_len' = p_log_len
      /\ bucket_idx_len' = bucket_idx_len
  BY <1>2, JobStays
<1>4. bucket_idx \in Nat \ {0}
  BY <1>1 DEF TypeOK
<1>5. /\ \A x \in Places : \E b, k : x = <<"bucket", b, k>> /\ b \in DOMAIN buckets /\ ~(b < bucket_idx)
      /\ DOMAIN buckets = 1 .. num_of_bucket /\ num_of_bucket \in Nat /\ ~Tight
  <2>1. bucket_idx > 0
    BY <1>4
  <2> QED BY <1>2, <2>1, MelbourneLast
<1>6. Places = {}
  <2>1. \A b \in 1 .. num_of_bucket : b < bucket_idx
    BY <1>2, <1>4, <1>5
  <2> QED BY <1>5, <2>1
<1>7. Places' = {}
  BY <1>2 DEF Places, Passed
<1>8. Placement'
  <2>1. Tight => Tight'
    BY <1>5
  <2> QED BY <1>1, <1>2, <1>6, <1>7, <2>1, MovesNone
<1>9. TypeOK'
  BY <1>1, <1>2, <1>3 DEF TypeOK
<1>10. MelbourneOK'
  <2>1. Divided(buckets, 0, len, bucket_idx_len)'
    <3>1. Divided(buckets, 0, len, bucket_idx_len)
      BY <1>1 DEF MelbourneOK
    <3> QED BY <1>2, <1>3, <3>1
  <2> QED BY <1>1, <1>2, <1>3, <2>1 DEF MelbourneOK
<1>11. RangesSplit'
  BY <1>1, <1>2, MelbourneSplitStays
<1>12. QueuesInRange'
  BY <1>1, <1>2 DEF QueuesInRange
<1> QED BY <1>3, <1>8, <1>9, <1>10, <1>11, <1>12 DEF ShuffleInv

-----------------------------------------------------------------------------
(* The cache shuffle between its sprays *)

\* What the invariant says of the cache shuffle between sprays.
LEMMA BetweenSprays ==
  ASSUME ShuffleInv, ~IsMelbourne, ~Spraying
  PROVE  /\ TypeOK /\ CacheOK /\ RangesSplit /\ Placement /\ JobOK /\ len \in Nat \ {0}
         /\ q = << >> /\ buckets = << >> /\ read_idx = 0 /\ Sources = temp
         /\ temp \in Seq(Bucket) /\ new_temp \in Seq(Bucket) /\ cur \in Nat \ {0}
         /\ DOMAIN temp = 1 .. Len(temp) /\ Len(temp) \in Nat \ {0} /\ cur <= Len(temp) + 1
         /\ DOMAIN new_temp = 1 .. Len(new_temp) /\ Len(new_temp) \in Nat
         /\ (new_temp = << >> <=> Len(new_temp) = 0)
         /\ Split(temp, 0, len)
         /\ Split(new_temp, 0, IF cur <= Len(temp) THEN temp[cur].begin_idx ELSE len)
<1>1. TypeOK /\ CacheOK /\ RangesSplit /\ Placement /\ JobOK
  BY DEF ShuffleInv, TypeOK
<1>2. q = << >> /\ buckets = << >> /\ read_idx = 0 /\ Len(temp) > 0 /\ cur <= Len(temp) + 1
  BY <1>1 DEF CacheOK
<1>3. temp \in Seq(Bucket) /\ new_temp \in Seq(Bucket) /\ cur \in Nat \ {0}
  BY <1>1 DEF TypeOK
<1>4. DOMAIN temp = 1 .. Len(temp) /\ Len(temp) \in Nat
  BY <1>3, SeqFacts
<1>5. /\ DOMAIN new_temp = 1 .. Len(new_temp) /\ Len(new_temp) \in Nat
      /\ (new_temp = << >> <=> Len(new_temp) = 0)
  BY <1>3, SeqFacts
<1>6. /\ Split(temp, 0, len)
      /\ Split(new_temp, 0, IF cur <= Len(temp) THEN temp[cur].begin_idx ELSE len)
  BY <1>1 DEF RangesSplit
<1>7. Sources = temp
  BY DEF Sources
<1>8. len \in Nat \ {0}
  BY <1>1, JobFacts
<1> QED BY <1>1, <1>2, <1>3, <1>4, <1>5, <1>6, <1>7, <1>8

\* The slots of buckets are counted from 1, and hold elements or holes.
LEMMA SlotFacts ==
  ASSUME NEW bs \in Seq(Bucket), NEW b \in DOMAIN bs
  PROVE  /\ bs[b] \in Bucket /\ Len(bs[b].data) \in Nat
         /\ DOMAIN bs[b].data = 1 .. Len(bs[b].data)
         /\ bs[b].begin_idx \in Nat /\ bs[b].end_idx \in Nat
         /\ \A k \in DOMAIN bs[b].data : bs[b].data[k] \in Cells
<1>1. bs[b] \in Bucket
  OBVIOUS
<1>2. bs[b].data \in Seq(Cells) /\ bs[b].begin_idx \in Nat /\ bs[b].end_idx \in Nat
  BY <1>1 DEF Bucket
<1>3. /\ Len(bs[b].data) \in Nat /\ DOMAIN bs[b].data = 1 .. Len(bs[b].data)
      /\ \A k \in DOMAIN bs[b].data : bs[b].data[k] \in Cells
  BY <1>2, SeqFacts
<1> QED BY <1>1, <1>2, <1>3

\* An input of one element is its own shuffle.
LEMMA CopyOneKeeps ==
  ASSUME ShuffleInv, ~IsMelbourne, CopyOne
  PROVE  ShuffleInv'
<1> DEFINE x == <<"source", 1, 1>>
<1>1. /\ pc = "copy" /\ pc' = "done" /\ arr_out' = [arr_out EXCEPT ![0] = 0]
      /\ UNCHANGED <<job, read_idx, i, write_idx, q, buckets, bucket_idx, temp, cur, new_temp, spray>>
  BY DEF CopyOne
<1>2. ~Spraying
  BY <1>1 DEF Spraying
<1>3. /\ TypeOK /\ CacheOK /\ RangesSplit /\ Placement /\ JobOK
      /\ q = << >> /\ buckets = << >> /\ read_idx = 0 /\ Sources = temp
  BY <1>2, BetweenSprays
<1>4. temp = <<init_shuffle_bucket(job.perm)>> /\ cur = 1 /\ len = 1 /\ new_temp = << >>
  BY <1>1, <1>3 DEF CacheOK
<1>5. /\ IsMelbourne' = IsMelbourne /\ JobOK' = JobOK /\ len' = len
      /\ Positions' = Positions /\ Elements' = Elements /\ Cells' = Cells /\ Bucket' = Bucket
  BY <1>1, JobStays
<1>6. Positions = {0} /\ DOMAIN arr_out = Positions
  BY <1>3, <1>4 DEF Positions, TypeOK
<1>7. arr_out'[0] = 0 /\ DOMAIN arr_out' = Positions
  BY <1>1, <1>6
<1>8. Places' = {}
  BY <1>1 DEF Places, Passed
<1>9. x \in Places /\ At(x).perm = 0 /\ At(x).value = 0
  <2>1. PICK e : e = temp[1].data[1]
    OBVIOUS
  <2>2. DOMAIN temp = {1} /\ temp[1] = init_shuffle_bucket(job.perm)
    BY <1>4
  <2>3. e \in Elements /\ 1 \in DOMAIN temp[1].data
    BY <1>3, <1>4, <2>1, <2>2, InputFacts
  <2>4. e.perm \in Positions /\ e.value \in Positions /\ ~IsHole(e)
    BY <1>3, <2>3, ElementFacts
  <2>5. ~(1 < cur) /\ ~(1 <= read_idx)
    BY <1>3, <1>4
  <2>6. x \in Places /\ At(x) = e
    BY <1>1, <1>3, <2>1, <2>2, <2>3, <2>4, <2>5, PlacesAre DEF PlacesHeld
  <2> QED BY <1>6, <2>4, <2>6
<1> HIDE DEF x
<1>10. Placement'
  <2>1. Tight' = Tight
    BY <1>1, <1>5 DEF Tight
  <2> QED BY <1>1, <1>3, <1>6, <1>7, <1>8, <1>9, <2>1, Put
<1>11. TypeOK'
  BY <1>1, <1>3, <1>5, <1>7 DEF TypeOK
<1>12. CacheOK'
  BY <1>1, <1>3, <1>4, <1>5 DEF CacheOK, Spraying
<1>13. RangesSplit'
  BY <1>1, <1>3, <1>5 DEF RangesSplit
<1>14. QueuesInRange'
  BY <1>1, <1>3 DEF QueuesInRange
<1> QED BY <1>5, <1>10, <1>11, <1>12, <1>13, <1>14 DEF ShuffleInv

\* A round ends with the buckets of the next one in the place of its own.
LEMMA EndRoundKeeps ==
  ASSUME ShuffleInv, ~IsMelbourne, EndRound
  PROVE  ShuffleInv'
<1> DEFINE f == [x \in Places' |-> <<"next", x[2], x[3]>>]
<1>1. /\ pc = "round" /\ cur > Len(temp) /\ temp' = new_temp /\ new_temp' = << >> /\ cur' = 1
      /\ pc' \in {"clean", "round"}
      /\ UNCHANGED <<job, read_idx, i, write_idx, q, buckets, bucket_idx, arr_out, spray>>
  BY DEF EndRound
<1>2. ~Spraying
  BY <1>1 DEF Spraying
<1>3. /\ TypeOK /\ CacheOK /\ RangesSplit /\ Placement /\ JobOK
      /\ q = << >> /\ buckets = << >> /\ read_idx = 0 /\ Sources = temp
      /\ temp \in Seq(Bucket) /\ new_temp \in Seq(Bucket) /\ cur \in Nat \ {0}
      /\ DOMAIN temp = 1 .. Len(temp) /\ Len(temp) \in Nat \ {0} /\ cur <= Len(temp) + 1
      /\ DOMAIN new_temp = 1 .. Len(new_temp) /\ Len(new_temp) \in Nat
      /\ (new_temp = << >> <=> Len(new_temp) = 0)
      /\ Split(new_temp, 0, IF cur <= Len(temp) THEN temp[cur].begin_idx ELSE len)
  BY <1>2, BetweenSprays
<1>4. new_temp # << >>
  BY <1>1, <1>3 DEF CacheOK
<1>5. /\ IsMelbourne' = IsMelbourne /\ JobOK' = JobOK /\ len' = len
      /\ Positions' = Positions /\ Elements' = Elements /\ Cells' = Cells /\ Bucket' = Bucket
  BY <1>1, JobStays
<1>6. PlacesHeld /\ PlacesHeld' /\ Sources' = new_temp
  <2>1. Sources' = temp'
    BY <1>5 DEF Sources
  <2> QED BY <1>1, <2>1, PlacesAre, PlacesNext
<1>7. ASSUME NEW x \in Places PROVE \E b, k : x = <<"next", b, k>>
  <2>1. PICK b, k : x \in {<<"source", b, k>>, <<"queue", b, k>>, <<"bucket", b, k>>, <<"next", b, k>>}
    BY <1>6 DEF PlacesHeld
  <2>2. b \notin DOMAIN q /\ b \notin DOMAIN buckets
    BY <1>3
  <2>3. b \in DOMAIN temp => b < cur
    BY <1>1, <1>3
  <2>4. x # <<"source", b, k>>
    BY <1>3, <1>6, <2>3 DEF PlacesHeld
  <2> QED BY <1>6, <2>1, <2>2, <2>4 DEF PlacesHeld
<1>8. ASSUME NEW x \in Places' PROVE \E b, k : x = <<"source", b, k>>
  <2>1. PICK b, k : x \in {<<"source", b, k>>, <<"queue", b, k>>, <<"bucket", b, k>>, <<"next", b, k>>}
    BY <1>6 DEF PlacesHeld
  <2>2. b \notin DOMAIN q' /\ b \notin DOMAIN buckets' /\ b \notin DOMAIN new_temp'
    BY <1>1, <1>3
  <2> QED BY <1>6, <2>1, <2>2 DEF PlacesHeld
<1>9. ASSUME NEW b, NEW k
      PROVE  /\ <<"source", b, k>> \in Places' <=> <<"next", b, k>> \in Places
             /\ <<"next", b, k>> \in Places => At(<<"source", b, k>>)' = At(<<"next", b, k>>)
  <2>1. ASSUME b \in DOMAIN new_temp, k \in DOMAIN new_temp[b].data
        PROVE  ~(b < cur' \/ (b = cur' /\ k <= read_idx'))
    <3>1. b \in Nat \ {0} /\ k \in Nat \ {0}
      BY <1>3, <2>1, SlotFacts
    <3> QED BY <1>1, <1>3, <3>1
  <2>2. pc # "done" /\ pc' # "done"
    BY <1>1
  <2> QED BY <1>1, <1>6, <2>1, <2>2 DEF PlacesHeld
<1>10. Placement'
  <2>1. \A x \in Places' : f[x] = <<"next", x[2], x[3]>>
    OBVIOUS
  <2> HIDE DEF f
  <2>2. \A b, k : <<"source", b, k>> \in Places' => f[<<"source", b, k>>] = <<"next", b, k>>
    BY <2>1
  <2>3. \A x \in Places' : f[x] \in Places /\ At(x)' = At(f[x])
    BY <1>8, <1>9, <2>2
  <2>4. \A x, y \in Places' : f[x] = f[y] => x = y
    BY <1>8, <2>2
  <2>5. ASSUME NEW x \in Places PROVE Tight' \/ \E y \in Places' : f[y] = x
    <3>1. PICK b, k : x = <<"next", b, k>>
      BY <1>7
    <3>2. <<"source", b, k>> \in Places'
      BY <1>9, <3>1
    <3> QED BY <2>2, <3>1, <3>2
  <2>6. Tight => Tight'
    BY <1>1, <1>5 DEF Tight
  <2>7. UNCHANGED <<job, arr_out>>
    BY <1>1
  <2> QED BY ONLY <1>3, <2>3, <2>4, <2>5, <2>6, <2>7, Moves
<1>11. TypeOK'
  BY <1>1, <1>3, <1>5 DEF TypeOK
<1>12. CacheOK'
  <2>1. Len(temp') > 0 /\ cur' <= Len(temp') + 1 /\ ~(cur' > Len(temp')) /\ ~(cur' > 1)
    BY <1>1, <1>3, <1>4
  <2>2. \A b \in DOMAIN temp' : Len(temp'[b].data) > 0
    BY <1>1, <1>3 DEF CacheOK
  <2>3. \A b \in DOMAIN new_temp' : Len(new_temp'[b].data) > 0
    BY <1>1
  <2>4. ~Spraying'
    BY <1>1 DEF Spraying
  <2>5. len # 1 /\ (\A b \in DOMAIN buckets : Len(buckets[b].data) > 0)
        /\ spray \in [s : Nat, idx_len : Nat, tight : BOOLEAN]
    BY <1>1, <1>3 DEF CacheOK
  <2> QED BY <1>1, <1>3, <1>5, <2>1, <2>2, <2>3, <2>4, <2>5 DEF CacheOK
<1>13. RangesSplit'
  <2>1. ~(cur <= Len(temp))
    BY <1>1, <1>3
  <2>2. Split(temp', 0, len)
    BY <1>1, <1>3, <2>1
  <2>3. \A m, to : Split(<< >>, m, to)
    BY DEF Split
  <2> QED BY <1>1, <1>3, <1>5, <2>2, <2>3 DEF RangesSplit
<1>14. QueuesInRange'
  BY <1>1, <1>3 DEF QueuesInRange
<1> QED BY <1>5, <1>10, <1>11, <1>12, <1>13, <1>14 DEF ShuffleInv

\* A bucket's elements go to their places.
LEMMA CacheCleanupKeeps ==
  ASSUME ShuffleInv, ~IsMelbourne, CacheCleanup
  PROVE  ShuffleInv'
<1> PICK bucket : bucket = temp[cur]
  OBVIOUS
<1> DEFINE place == [k \in DOMAIN bucket.data |-> <<"source", cur, k>>]
<1>1. /\ pc = "clean" /\ cur <= Len(temp) /\ arr_out' = CleanUp(arr_out, bucket) /\ cur' = cur + 1
      /\ UNCHANGED <<job, pc, read_idx, i, write_idx, q, buckets, bucket_idx, temp, new_temp, spray>>
  BY DEF CacheCleanup
<1>2. ~Spraying
  BY <1>1 DEF Spraying
<1>3. /\ TypeOK /\ CacheOK /\ RangesSplit /\ Placement /\ JobOK
      /\ q = << >> /\ buckets = << >> /\ read_idx = 0 /\ Sources = temp
      /\ temp \in Seq(Bucket) /\ new_temp \in Seq(Bucket) /\ cur \in Nat \ {0}
      /\ DOMAIN temp = 1 .. Len(temp) /\ Len(temp) \in Nat \ {0}
      /\ Split(temp, 0, len)
  BY <1>2, BetweenSprays
<1>4. new_temp = << >>
  BY <1>1, <1>3 DEF CacheOK
<1>5. /\ IsMelbourne' = IsMelbourne /\ JobOK' = JobOK /\ len' = len
      /\ Positions' = Positions /\ Elements' = Elements /\ Cells' = Cells /\ Bucket' = Bucket
  BY <1>1, JobStays
<1>6. cur \in DOMAIN temp /\ bucket \in Bucket
  BY <1>1, <1>3
<1>7. PlacesHeld /\ PlacesHeld' /\ Sources' = Sources /\ Tight' = Tight
  BY <1>1, <1>5, PlacesAre, PlacesNext DEF Sources, Tight
<1>8. ASSUME NEW b, NEW k
      PROVE  /\ <<"source", b, k>> \in Places <=>
                  /\ b \in DOMAIN temp /\ k \in DOMAIN temp[b].data
                  /\ cur <= b /\ ~IsHole(temp[b].data[k])
             /\ <<"source", b, k>> \in Places' <=>
                  /\ b \in DOMAIN temp /\ k \in DOMAIN temp[b].data
                  /\ cur + 1 <= b /\ ~IsHole(temp[b].data[k])
  <2>1. ASSUME b \in DOMAIN temp, k \in DOMAIN temp[b].data
        PROVE  /\ ~(b < cur \/ (b = cur /\ k <= read_idx)) <=> cur <= b
               /\ ~(b < cur' \/ (b = cur' /\ k <= read_idx')) <=> cur + 1 <= b
    <3>1. b \in Nat \ {0} /\ k \in Nat \ {0}
      BY <1>3, <2>1, SlotFacts
    <3> QED BY <1>1, <1>3, <3>1
  <2>2. pc # "done" /\ pc' # "done"
    BY <1>1
  <2> QED BY <1>1, <1>3, <1>7, <2>1, <2>2 DEF PlacesHeld
<1>9. ASSUME NEW x \in Places PROVE \E b, k : x = <<"source", b, k>>
  <2>1. PICK b, k : x \in {<<"source", b, k>>, <<"queue", b, k>>, <<"bucket", b, k>>, <<"next", b, k>>}
    BY <1>7 DEF PlacesHeld
  <2>2. b \notin DOMAIN q /\ b \notin DOMAIN buckets /\ b \notin DOMAIN new_temp
    BY <1>3, <1>4
  <2> QED BY <1>7, <2>1, <2>2 DEF PlacesHeld
<1>10. ASSUME NEW x \in Places' PROVE \E b, k : x = <<"source", b, k>>
  <2>1. PICK b, k : x \in {<<"source", b, k>>, <<"queue", b, k>>, <<"bucket", b, k>>, <<"next", b, k>>}
    BY <1>7 DEF PlacesHeld
  <2>2. b \notin DOMAIN q' /\ b \notin DOMAIN buckets' /\ b \notin DOMAIN new_temp'
    BY <1>1, <1>3, <1>4
  <2> QED BY <1>7, <2>1, <2>2 DEF PlacesHeld
<1>11. Placement' /\ DOMAIN arr_out' = Positions
  <2>1. \A k \in DOMAIN bucket.data : place[k] = <<"source", cur, k>>
    OBVIOUS
  <2> HIDE DEF place
  <2>2. ASSUME NEW k \in DOMAIN bucket.data, ~IsHole(bucket.data[k])
        PROVE  place[k] \in Places /\ place[k] \notin Places' /\ At(place[k]) = bucket.data[k]
    <3>1. cur <= cur /\ ~(cur + 1 <= cur)
      BY <1>3
    <3>2. At(<<"source", cur, k>>) = bucket.data[k]
      BY <1>3, <1>6, <1>7 DEF PlacesHeld
    <3> QED BY <1>6, <1>8, <2>1, <2>2, <3>1, <3>2
  <2>3. \A k, m \in DOMAIN bucket.data : place[k] = place[m] => k = m
    BY <2>1
  <2>4. ASSUME NEW x \in Places
        PROVE  \/ x \in Places'
               \/ \E k \in DOMAIN bucket.data : ~IsHole(bucket.data[k]) /\ x = place[k]
    <3>1. PICK b, k : x = <<"source", b, k>>
      BY <1>9
    <3>2. b \in DOMAIN temp /\ k \in DOMAIN temp[b].data /\ cur <= b /\ ~IsHole(temp[b].data[k])
      BY <1>8, <3>1
    <3>3. CASE b = cur
      BY <2>1, <3>1, <3>2, <3>3
    <3>4. CASE b # cur
      <4>1. cur + 1 <= b
        BY <1>3, <3>2, <3>4
      <4> QED BY <1>8, <3>1, <3>2, <4>1
    <3> QED BY <3>3, <3>4
  <2>5. ASSUME NEW x \in Places' PROVE x \in Places /\ At(x)' = At(x)
    <3>1. PICK b, k : x = <<"source", b, k>>
      BY <1>10
    <3>2. b \in DOMAIN temp /\ k \in DOMAIN temp[b].data /\ cur + 1 <= b /\ ~IsHole(temp[b].data[k])
      BY <1>8, <3>1
    <3>3. cur <= b
      BY <1>3, <3>2
    <3>4. x \in Places
      BY <1>8, <3>1, <3>2, <3>3
    <3>5. At(x) = Sources[b].data[k] /\ At(x)' = Sources'[b].data[k]
      BY <1>3, <1>7, <3>1, <3>2 DEF PlacesHeld
    <3> QED BY <1>7, <3>4, <3>5
  <2>6. UNCHANGED job
    BY <1>1
  <2> QED BY ONLY <1>1, <1>3, <1>6, <1>7, <2>2, <2>3, <2>4, <2>5, <2>6, CleansUp
<1>12. TypeOK'
  BY <1>1, <1>3, <1>5, <1>11 DEF TypeOK
<1>13. CacheOK'
  <2>1. cur' <= Len(temp') + 1
    BY <1>1, <1>3
  <2> QED BY <1>1, <1>2, <1>3, <1>5, <2>1 DEF CacheOK, Spraying
<1>14. RangesSplit'
  <2>1. \A m, to : Split(<< >>, m, to)
    BY DEF Split
  <2> QED BY <1>1, <1>3, <1>4, <1>5, <2>1 DEF RangesSplit
<1>15. QueuesInRange'
  BY <1>1, <1>3 DEF QueuesInRange
<1> QED BY <1>5, <1>11, <1>12, <1>13, <1>14, <1>15 DEF ShuffleInv

\* When it returns, it has come through all buckets.
LEMMA CacheReturnKeeps ==
  ASSUME ShuffleInv, ~IsMelbourne, CacheReturn
  PROVE  ShuffleInv'
<1>1. /\ pc = "clean" /\ cur > Len(temp) /\ pc' = "done"
      /\ UNCHANGED <<job, read_idx, i, write_idx, q, buckets, bucket_idx, arr_out, temp, cur, new_temp, spray>>
  BY DEF CacheReturn
<1>2. ~Spraying
  BY <1>1 DEF Spraying
<1>3. /\ TypeOK /\ CacheOK /\ RangesSplit /\ Placement /\ JobOK
      /\ q = << >> /\ buckets = << >> /\ read_idx = 0 /\ Sources = temp
      /\ temp \in Seq(Bucket) /\ cur \in Nat \ {0}
      /\ DOMAIN temp = 1 .. Len(temp) /\ Len(temp) \in Nat \ {0}
  BY <1>2, BetweenSprays
<1>4. new_temp = << >> /\ len # 1
  BY <1>1, <1>3 DEF CacheOK
<1>5. /\ IsMelbourne' = IsMelbourne /\ JobOK' = JobOK /\ len' = len
      /\ Positions' = Positions /\ Elements' = Elements /\ Cells' = Cells /\ Bucket' = Bucket
  BY <1>1, JobStays
<1>6. Places = {}
  <2> SUFFICES ASSUME NEW x \in Places PROVE FALSE
    OBVIOUS
  <2>1. PICK b, k : x \in {<<"source", b, k>>, <<"queue", b, k>>, <<"bucket", b, k>>, <<"next", b, k>>}
    BY PlacesAre DEF PlacesHeld
  <2>2. b \notin DOMAIN q /\ b \notin DOMAIN buckets /\ b \notin DOMAIN new_temp
    BY <1>3, <1>4
  <2>3. b \in DOMAIN temp => b < cur
    BY <1>1, <1>3
  <2>4. x # <<"source", b, k>>
    BY <1>3, <2>3, PlacesAre DEF PlacesHeld
  <2> QED BY <2>1, <2>2, <2>4, PlacesAre DEF PlacesHeld
<1>7. Places' = {}
  BY <1>1 DEF Places, Passed
<1>8. Placement'
  <2>1. Tight => Tight'
    BY <1>1, <1>5 DEF Tight
  <2> QED BY <1>1, <1>3, <1>6, <1>7, <2>1, MovesNone
<1>9. TypeOK'
  BY <1>1, <1>3, <1>5 DEF TypeOK
<1>10. CacheOK'
  BY <1>1, <1>3, <1>4, <1>5 DEF CacheOK, Spraying
<1>11. RangesSplit'
  BY <1>1, <1>3, <1>5 DEF RangesSplit
<1>12. QueuesInRange'
  BY <1>1, <1>3 DEF QueuesInRange
<1> QED BY <1>5, <1>8, <1>9, <1>10, <1>11, <1>12 DEF ShuffleInv

-----------------------------------------------------------------------------
(* Buckets put together *)

\* A number from 1 to n, m further on, and back.
LEMMA Shifted ==
  ASSUME NEW m \in Nat, NEW n \in Nat, NEW a, NEW b
  PROVE  /\ b \in 1 .. n /\ a = m + b => a \in 1 .. m + n /\ a > m /\ ~(a <= m) /\ a - m = b
         /\ a \in 1 .. m + n /\ a \notin 1 .. m /\ b = a - m => b \in 1 .. n /\ a = m + b /\ a > m
  OBVIOUS

\* Buckets that are joined, in their order.
LEMMA BucketsJoined ==
  ASSUME NEW as \in Seq(Bucket), NEW bs \in Seq(Bucket), NEW cs, cs = as \o bs
  PROVE  /\ cs \in Seq(Bucket) /\ Len(cs) = Len(as) + Len(bs) /\ DOMAIN cs = 1 .. Len(as) + Len(bs)
         /\ \A b \in 1 .. Len(as) : cs[b] = as[b]
         /\ \A b \in 1 .. Len(bs) : cs[Len(as) + b] = bs[b]
<1> PICK m : m = Len(as)
  OBVIOUS
<1> PICK n : n = Len(bs)
  OBVIOUS
<1>1. m \in Nat /\ n \in Nat
  BY SeqFacts
<1>2. cs \in Seq(Bucket) /\ Len(cs) = m + n
  BY ConcatProperties
<1>3. DOMAIN cs = 1 .. m + n
  BY <1>2, SeqFacts
<1>4. \A b \in 1 .. m + n : cs[b] = IF b <= m THEN as[b] ELSE bs[b - m]
  BY ConcatProperties
<1>5. \A b \in 1 .. m : cs[b] = as[b]
  BY <1>1, <1>4
<1>6. ASSUME NEW b \in 1 .. n PROVE cs[m + b] = bs[b]
  <2>1. PICK a : a = m + b
    OBVIOUS
  <2>2. a \in 1 .. m + n /\ ~(a <= m) /\ a - m = b
    BY ONLY <1>1, <1>6, <2>1, Shifted
  <2>3. cs[a] = bs[a - m]
    BY ONLY <1>4, <2>2
  <2> QED BY ONLY <2>1, <2>2, <2>3
<1> QED BY <1>2, <1>3, <1>5, <1>6

\* A bucket's range ends where the next one's begins.
LEMMA RangeEnds ==
  ASSUME NEW bs \in Seq(Bucket), NEW from, NEW to, Split(bs, from, to), NEW c \in 1 .. Len(bs)
  PROVE  bs[c].end_idx = IF c + 1 <= Len(bs) THEN bs[c + 1].begin_idx ELSE to
<1> PICK n : n = Len(bs)
  OBVIOUS
<1>1. n \in Nat /\ DOMAIN bs = 1 .. n /\ c \in 1 .. n
  BY SeqFacts
<1>2. CASE c + 1 <= n
  <2> PICK d : d = c + 1
    OBVIOUS
  <2>1. d \in 1 .. n /\ d # 1 /\ d - 1 = c
    BY <1>1, <1>2
  <2>2. bs[d].begin_idx = bs[d - 1].end_idx
    BY <1>1, <2>1 DEF Split
  <2> QED BY <1>2, <2>1, <2>2
<1>3. CASE ~(c + 1 <= n)
  <2>1. c = n /\ bs # << >>
    BY <1>1, <1>3
  <2> QED BY <1>3, <2>1 DEF Split
<1> QED BY <1>2, <1>3

\* place gives the places that the elements of buckets had before a step, which has
\* taken them from there.
TakenFrom(place, bs) ==
  /\ \A b \in DOMAIN bs : \A k \in DOMAIN bs[b].data : ~IsHole(bs[b].data[k]) =>
       /\ place[b][k] \in Places /\ At(place[b][k]) = bs[b].data[k]
       /\ place[b][k] \notin Places' /\ place[b][k][1] # "next"
  /\ \A b, k, c, m : b \in DOMAIN bs /\ k \in DOMAIN bs[b].data /\ c \in DOMAIN bs /\ m \in DOMAIN bs[c].data =>
       (place[b][k] = place[c][m] => b = c /\ k = m)
  /\ \A x \in Places :
       \/ x \in Places' \/ Tight'
       \/ \E b \in DOMAIN bs : \E k \in DOMAIN bs[b].data : ~IsHole(bs[b].data[k]) /\ x = place[b][k]
  /\ \A x \in Places' : x[1] # "next" => x \in Places /\ At(x)' = At(x)

\* A step that hands buckets over to the next round.
LEMMA HandsOver ==
  ASSUME TypeOK, Placement, UNCHANGED <<job, arr_out>>, Tight => Tight',
         NEW bs \in Seq(Bucket), new_temp' = new_temp \o bs, pc # "done", pc' # "done",
         NEW place, TakenFrom(place, bs)
  PROVE  Placement'
<1> PICK m : m = Len(new_temp)
  OBVIOUS
<1> DEFINE f == [x \in Places' |-> IF x[1] = "next" /\ x[2] > m THEN place[x[2] - m][x[3]] ELSE x]
<1>1. PlacesHeld /\ PlacesHeld'
  BY PlacesAre, PlacesNext
<1>2. new_temp \in Seq(Bucket)
  BY DEF TypeOK
<1>3. /\ m \in Nat /\ Len(bs) \in Nat /\ DOMAIN new_temp = 1 .. m /\ DOMAIN bs = 1 .. Len(bs)
      /\ DOMAIN new_temp' = 1 .. m + Len(bs)
      /\ \A b \in 1 .. m : new_temp'[b] = new_temp[b]
      /\ \A b \in 1 .. Len(bs) : new_temp'[m + b] = bs[b]
  <2>1. m \in Nat /\ DOMAIN new_temp = 1 .. m
    BY <1>2, SeqFacts
  <2>2. Len(bs) \in Nat /\ DOMAIN bs = 1 .. Len(bs)
    BY SeqFacts
  <2>3. /\ DOMAIN new_temp' = 1 .. m + Len(bs)
        /\ \A b \in 1 .. m : new_temp'[b] = new_temp[b]
        /\ \A b \in 1 .. Len(bs) : new_temp'[m + b] = bs[b]
    <3>1. new_temp' = new_temp \o bs
      OBVIOUS
    <3>2. bs \in Seq(Bucket) /\ m = Len(new_temp)
      OBVIOUS
    <3> QED BY ONLY <1>2, <3>1, <3>2, BucketsJoined
  <2> QED BY <2>1, <2>2, <2>3
<1>4. \A x \in Places' : f[x] = IF x[1] = "next" /\ x[2] > m THEN place[x[2] - m][x[3]] ELSE x
  OBVIOUS
<1> HIDE DEF f
<1>5. ASSUME NEW b, NEW k, b \in 1 .. m
      PROVE  /\ <<"next", b, k>> \in Places' <=> <<"next", b, k>> \in Places
             /\ <<"next", b, k>> \in Places => At(<<"next", b, k>>)' = At(<<"next", b, k>>)
  <2>1. b \in DOMAIN new_temp /\ b \in DOMAIN new_temp' /\ new_temp'[b] = new_temp[b]
    BY <1>3, <1>5
  <2> QED BY <1>1, <2>1 DEF PlacesHeld
<1>6. ASSUME NEW b \in DOMAIN bs, NEW k
      PROVE  /\ <<"next", m + b, k>> \in Places' <=> k \in DOMAIN bs[b].data /\ ~IsHole(bs[b].data[k])
             /\ At(<<"next", m + b, k>>)' = bs[b].data[k]
  <2> PICK c : c = m + b
    OBVIOUS
  <2>1. c \in DOMAIN new_temp' /\ new_temp'[c] = bs[b]
    BY <1>3
  <2> QED BY <1>1, <2>1 DEF PlacesHeld
<1>7. ASSUME NEW x \in Places'
      PROVE  \/ \E b \in DOMAIN bs : \E k \in DOMAIN bs[b].data :
                  /\ ~IsHole(bs[b].data[k]) /\ x = <<"next", m + b, k>> /\ f[x] = place[b][k]
             \/ f[x] = x /\ x \in Places /\ At(x)' = At(x)
  <2>1. CASE x[1] # "next"
    BY <1>4, <2>1 DEF TakenFrom
  <2>2. CASE x[1] = "next"
    <3>1. PICK b, k : x = <<"next", b, k>>
      <4>1. PICK b, k : x \in {<<"source", b, k>>, <<"queue", b, k>>, <<"bucket", b, k>>, <<"next", b, k>>}
        BY <1>1 DEF PlacesHeld
      <4> QED BY <2>2, <4>1
    <3>2. b \in DOMAIN new_temp'
      BY <1>1, <3>1 DEF PlacesHeld
    <3>3. CASE b \in 1 .. m
      <4>1. ~(b > m)
        BY <1>3, <3>3
      <4>2. f[x] = x
        <5>1. x[1] = "next" /\ x[2] = b
          BY <3>1
        <5>2. f[x] = IF x[1] = "next" /\ x[2] > m THEN place[x[2] - m][x[3]] ELSE x
          BY <1>4
        <5> QED BY ONLY <4>1, <5>1, <5>2
      <4> QED BY <1>5, <3>1, <3>3, <4>2
    <3>4. CASE b \notin 1 .. m
      <4>1. PICK c : c = b - m
        OBVIOUS
      <4>2. c \in DOMAIN bs /\ b = m + c /\ b > m
        <5>1. /\ m \in Nat /\ Len(bs) \in Nat /\ b \in 1 .. m + Len(bs)
              /\ DOMAIN bs = 1 .. Len(bs)
          BY <1>3, <3>2
        <5> QED BY ONLY <3>4, <4>1, <5>1, Shifted
      <4>3. k \in DOMAIN bs[c].data /\ ~IsHole(bs[c].data[k])
        BY <1>6, <3>1, <4>2
      <4>4. f[x] = place[c][k]
        BY <1>4, <3>1, <4>1, <4>2
      <4>5. x = <<"next", m + c, k>>
        BY ONLY <3>1, <4>2
      <4>6. c \in DOMAIN bs /\ k \in DOMAIN bs[c].data /\ ~IsHole(bs[c].data[k])
        BY ONLY <4>2, <4>3
      <4> QED BY ONLY <4>4, <4>5, <4>6
    <3> QED BY <3>3, <3>4
  <2> QED BY <2>1, <2>2
<1>8. ASSUME NEW x \in Places' PROVE f[x] \in Places /\ At(x)' = At(f[x])
  <2>1. CASE \E b \in DOMAIN bs : \E k \in DOMAIN bs[b].data :
               /\ ~IsHole(bs[b].data[k]) /\ x = <<"next", m + b, k>> /\ f[x] = place[b][k]
    <3>1. PICK b, k : b \in DOMAIN bs /\ k \in DOMAIN bs[b].data /\ ~IsHole(bs[b].data[k]) /\ x = <<"next", m + b, k>> /\ f[x] = place[b][k]
      BY <2>1
    <3>2. place[b][k] \in Places /\ At(place[b][k]) = bs[b].data[k]
      BY <3>1 DEF TakenFrom
    <3>3. At(x)' = bs[b].data[k]
      BY <1>6, <3>1
    <3> QED BY <3>1, <3>2, <3>3
  <2>2. CASE f[x] = x /\ x \in Places /\ At(x)' = At(x)
    BY <2>2
  <2> QED BY <1>7, <2>1, <2>2
<1>9. ASSUME NEW x \in Places', NEW y \in Places', f[x] = f[y] PROVE x = y
  <2> DEFINE Over(z) == \E b \in DOMAIN bs : \E k \in DOMAIN bs[b].data :
               /\ ~IsHole(bs[b].data[k]) /\ z = <<"next", m + b, k>> /\ f[z] = place[b][k]
             Here(z) == f[z] = z /\ z \in Places
  <2>1. \A z \in Places' : Over(z) \/ Here(z)
    BY <1>7
  <2>2. \A z \in Places' : Over(z) => f[z] \notin Places'
    BY DEF TakenFrom
  <2>3. CASE Over(x) /\ Over(y)
    <3>1. PICK b, k : b \in DOMAIN bs /\ k \in DOMAIN bs[b].data /\ x = <<"next", m + b, k>> /\ f[x] = place[b][k]
      BY <2>3
    <3>2. PICK c, j : c \in DOMAIN bs /\ j \in DOMAIN bs[c].data /\ y = <<"next", m + c, j>> /\ f[y] = place[c][j]
      BY <2>3
    <3>3. b = c /\ k = j
      BY <1>9, <3>1, <3>2 DEF TakenFrom
    <3> QED BY <3>1, <3>2, <3>3
  <2>4. CASE Here(x) /\ Here(y)
    BY <1>9, <2>4
  <2>5. CASE Over(x) /\ Here(y)
    BY <1>9, <2>2, <2>5
  <2>6. CASE Here(x) /\ Over(y)
    BY <1>9, <2>2, <2>6
  <2> HIDE DEF Over, Here
  <2> QED BY <2>1, <2>3, <2>4, <2>5, <2>6
<1>10. ASSUME NEW x \in Places PROVE Tight' \/ \E y \in Places' : f[y] = x
  <2>1. CASE x \in Places'
    <3>1. CASE f[x] = x
      BY <2>1, <3>1
    <3>2. CASE f[x] # x
      <4>1. PICK b, k : b \in DOMAIN bs /\ k \in DOMAIN bs[b].data /\ x = <<"next", m + b, k>>
        <5>1. \/ \E b \in DOMAIN bs : \E k \in DOMAIN bs[b].data : x = <<"next", m + b, k>>
              \/ f[x] = x
          BY <1>7, <2>1
        <5> QED BY <3>2, <5>1
      <4>2. m + b \in DOMAIN new_temp
        BY <1>1, <4>1 DEF PlacesHeld
      <4>3. m \in Nat /\ b \in Nat \ {0} /\ m + b \in 1 .. m
        BY <1>3, <4>1, <4>2
      <4> QED BY ONLY <4>3
    <3> QED BY <3>1, <3>2
  <2>2. CASE \E b \in DOMAIN bs : \E k \in DOMAIN bs[b].data : ~IsHole(bs[b].data[k]) /\ x = place[b][k]
    <3>1. PICK b, k : b \in DOMAIN bs /\ k \in DOMAIN bs[b].data /\ ~IsHole(bs[b].data[k]) /\ x = place[b][k]
      BY <2>2
    <3>2. PICK c : c = m + b
      OBVIOUS
    <3>3. c > m /\ c - m = b
      <4>1. m \in Nat /\ Len(bs) \in Nat /\ b \in 1 .. Len(bs)
        BY <1>3, <3>1
      <4> QED BY ONLY <3>2, <4>1, Shifted
    <3>4. <<"next", c, k>> \in Places'
      BY <1>6, <3>2, <3>1
    <3>5. f[<<"next", c, k>>] = place[c - m][k]
      BY <1>4, <3>3, <3>4
    <3> QED BY <3>1, <3>3, <3>4, <3>5
  <2>3. x \in Places' \/ Tight' \/ \E b \in DOMAIN bs : \E k \in DOMAIN bs[b].data : ~IsHole(bs[b].data[k]) /\ x = place[b][k]
    BY DEF TakenFrom
  <2> QED BY <2>1, <2>2, <2>3
<1>11. UNCHANGED <<job, arr_out>> /\ (Tight => Tight') /\ Placement
  OBVIOUS
<1> QED BY ONLY <1>8, <1>9, <1>10, <1>11, Moves

-----------------------------------------------------------------------------
(* A spray keeps its buckets *)

\* Things that are given different positions of a range are no more than it has.
LEMMA RangeHolds ==
  ASSUME NEW from \in Nat, NEW to \in Nat, from < to, NEW T,
         NEW g, \A x \in T : g[x] \in from .. to - 1,
         \A x, y \in T : g[x] = g[y] => x = y
  PROVE  IsFiniteSet(T) /\ Cardinality(T) <= to - from
<1> DEFINE h == [x \in T |-> g[x]]
<1> PICK r : r = from .. to - 1
  OBVIOUS
<1>1. h \in [T -> r] /\ \A x, y \in T : h[x] = h[y] => x = y
  OBVIOUS
<1> HIDE DEF h
<1>2. h \in Injection(T, r)
  BY <1>1 DEF Injection, IsInjective
<1>3. IsFiniteSet(r) /\ Cardinality(r) = to - from
  <2> PICK m : m = to - 1
    OBVIOUS
  <2>1. m \in Int /\ from \in Int /\ r = from .. m /\ from <= m /\ m - from + 1 = to - from
    OBVIOUS
  <2>2. /\ IsFiniteSet(from .. m)
        /\ Cardinality(from .. m) = IF from > m THEN 0 ELSE m - from + 1
    BY ONLY <2>1, FS_Interval
  <2>3. ~(from > m)
    BY <2>1
  <2> QED BY <2>1, <2>2, <2>3
<1> QED BY <1>2, <1>3, FS_Injection

\* What the invariant says of the cache shuffle in a spray.
LEMMA InSpray ==
  ASSUME ShuffleInv, ~IsMelbourne, Spraying
  PROVE  /\ TypeOK /\ CacheOK /\ SprayOK /\ RangesSplit /\ QueuesInRange /\ Placement /\ JobOK
         /\ len \in Nat \ {0} /\ Sources = temp /\ Len(buckets) \in Nat \ {0}
         /\ temp \in Seq(Bucket) /\ new_temp \in Seq(Bucket) /\ buckets \in Seq(Bucket)
         /\ cur \in Nat \ {0} /\ cur \in 1 .. Len(temp) /\ cur \in DOMAIN temp /\ temp[cur] \in Bucket
         /\ DOMAIN temp = 1 .. Len(temp) /\ Len(temp) \in Nat
         /\ DOMAIN buckets = 1 .. Len(buckets) /\ DOMAIN q = 1 .. Len(buckets) /\ buckets # << >>
         /\ q \in [1 .. Len(buckets) -> Seq(Elements)] /\ IsFiniteSet(Blocks(q))
         /\ Split(temp, 0, len) /\ Split(buckets, temp[cur].begin_idx, temp[cur].end_idx)
         /\ Split(new_temp, 0, temp[cur].begin_idx)
         /\ read_idx \in Nat /\ i \in Nat /\ write_idx \in Nat /\ bucket_idx \in Nat \ {0}
         /\ Len(temp[cur].data) \in Nat /\ DOMAIN temp[cur].data = 1 .. Len(temp[cur].data)
<1>1. TypeOK /\ CacheOK /\ RangesSplit /\ QueuesInRange /\ Placement /\ JobOK
  BY DEF ShuffleInv, TypeOK
<1>2. SprayOK
  BY <1>1 DEF CacheOK
<1>3. cur <= Len(temp) /\ Len(buckets) > 0
  BY <1>2 DEF SprayOK
<1>4. /\ temp \in Seq(Bucket) /\ new_temp \in Seq(Bucket) /\ buckets \in Seq(Bucket)
      /\ cur \in Nat \ {0} /\ q \in [1 .. Len(buckets) -> Seq(Elements)] /\ IsFiniteSet(Blocks(q))
      /\ read_idx \in Nat /\ i \in Nat /\ write_idx \in Nat /\ bucket_idx \in Nat \ {0}
  BY <1>1 DEF TypeOK
<1>5. DOMAIN temp = 1 .. Len(temp) /\ Len(temp) \in Nat
  BY <1>4, SeqFacts
<1>6. DOMAIN buckets = 1 .. Len(buckets) /\ Len(buckets) \in Nat /\ (buckets = << >> <=> Len(buckets) = 0)
  BY <1>4, SeqFacts
<1>7. cur \in 1 .. Len(temp)
  BY <1>3, <1>4, <1>5
<1>8. buckets # << >> /\ Len(buckets) \in Nat \ {0} /\ DOMAIN q = 1 .. Len(buckets)
  BY <1>3, <1>4, <1>6
<1>9. /\ Split(temp, 0, len) /\ Split(buckets, temp[cur].begin_idx, temp[cur].end_idx)
      /\ Split(new_temp, 0, temp[cur].begin_idx)
  BY <1>1, <1>3, <1>8 DEF RangesSplit
<1>10. Sources = temp /\ len \in Nat \ {0}
  BY <1>1, JobFacts DEF Sources
<1>11. cur \in DOMAIN temp
  BY <1>5, <1>7
<1>12. /\ temp[cur] \in Bucket /\ Len(temp[cur].data) \in Nat
       /\ DOMAIN temp[cur].data = 1 .. Len(temp[cur].data)
  BY <1>4, <1>11, SlotFacts
<1> QED BY <1>1, <1>2, <1>4, <1>5, <1>6, <1>7, <1>8, <1>9, <1>10, <1>11, <1>12

\* The buckets that are handed over follow those that have been.
LEMMA SplitGoesOn ==
  ASSUME Split(temp, 0, len), cur \in 1 .. Len(temp), temp \in Seq(Bucket), new_temp \in Seq(Bucket),
         Split(new_temp, 0, temp[cur].begin_idx), cur > 1 => new_temp # << >>,
         NEW bs \in Seq(Bucket), bs # << >>, Split(bs, temp[cur].begin_idx, temp[cur].end_idx)
  PROVE  Split(new_temp \o bs, 0, IF cur + 1 <= Len(temp) THEN temp[cur + 1].begin_idx ELSE len)
<1>1. Len(temp) \in Nat /\ DOMAIN temp = 1 .. Len(temp)
  BY SeqFacts
<1>2. new_temp = << >> => 0 = temp[cur].begin_idx
  <2> SUFFICES ASSUME new_temp = << >> PROVE 0 = temp[cur].begin_idx
    OBVIOUS
  <2>1. cur = 1 /\ 1 \in DOMAIN temp
    BY <1>1
  <2> QED BY <2>1 DEF Split
<1>3. Split(new_temp \o bs, 0, temp[cur].end_idx)
  BY <1>2, SplitJoins
<1>4. temp[cur].end_idx = IF cur + 1 <= Len(temp) THEN temp[cur + 1].begin_idx ELSE len
  BY RangeEnds
<1> QED BY <1>3, <1>4

\* No queue blocks, no queues.
LEMMA NoQueues ==
  << >> \in [1 .. Len(<< >>) -> Seq(Elements)] /\ IsFiniteSet(Blocks(<< >>)) /\ << >> \in Seq(Bucket)
<1>1. Blocks(<< >>) = {}
  BY DEF Blocks
<1> QED BY <1>1, FS_EmptySet

\* A bucket with a short range goes to the next round.
LEMMA KeepKeeps ==
  ASSUME ShuffleInv, ~IsMelbourne, Keep
  PROVE  ShuffleInv'
<1> PICK bs : bs = <<temp[cur]>>
  OBVIOUS
<1> DEFINE place == [b \in {1} |-> [k \in DOMAIN temp[cur].data |-> <<"source", cur, k>>]]
<1>1. /\ pc = "round" /\ cur <= Len(temp)
      /\ new_temp' = Append(new_temp, temp[cur]) /\ cur' = cur + 1
      /\ UNCHANGED <<job, pc, read_idx, i, write_idx, q, buckets, bucket_idx, arr_out, temp, spray>>
  BY DEF Keep
<1>2. ~Spraying
  BY <1>1 DEF Spraying
<1>3. /\ TypeOK /\ CacheOK /\ RangesSplit /\ Placement /\ JobOK /\ len \in Nat \ {0}
      /\ q = << >> /\ buckets = << >> /\ read_idx = 0 /\ Sources = temp
      /\ temp \in Seq(Bucket) /\ new_temp \in Seq(Bucket) /\ cur \in Nat \ {0}
      /\ DOMAIN temp = 1 .. Len(temp) /\ Len(temp) \in Nat \ {0}
      /\ Split(temp, 0, len)
      /\ Split(new_temp, 0, IF cur <= Len(temp) THEN temp[cur].begin_idx ELSE len)
  BY <1>2, BetweenSprays
<1>4. cur \in DOMAIN temp /\ cur \in 1 .. Len(temp) /\ temp[cur] \in Bucket
  BY <1>1, <1>3
<1>5. /\ IsMelbourne' = IsMelbourne /\ JobOK' = JobOK /\ len' = len
      /\ Positions' = Positions /\ Elements' = Elements /\ Cells' = Cells /\ Bucket' = Bucket
  BY <1>1, JobStays
<1>6. /\ bs \in Seq(Bucket) /\ bs # << >> /\ DOMAIN bs = {1} /\ Len(bs) = 1 /\ bs[1] = temp[cur]
      /\ new_temp' = new_temp \o bs
  BY <1>1, <1>3, <1>4
<1>7. /\ new_temp' \in Seq(Bucket) /\ DOMAIN new_temp' = 1 .. Len(new_temp) + 1
      /\ \A b \in 1 .. Len(new_temp) : new_temp'[b] = new_temp[b]
      /\ new_temp'[Len(new_temp) + 1] = temp[cur]
  BY <1>1, <1>3, <1>4
<1>8. PlacesHeld /\ PlacesHeld' /\ Sources' = Sources /\ Tight' = Tight
  BY <1>1, <1>5, PlacesAre, PlacesNext DEF Sources, Tight
<1>9. ASSUME NEW b, NEW k
      PROVE  /\ <<"source", b, k>> \in Places <=>
                  /\ b \in DOMAIN temp /\ k \in DOMAIN temp[b].data
                  /\ cur <= b /\ ~IsHole(temp[b].data[k])
             /\ <<"source", b, k>> \in Places' <=>
                  /\ b \in DOMAIN temp /\ k \in DOMAIN temp[b].data
                  /\ cur + 1 <= b /\ ~IsHole(temp[b].data[k])
             /\ b \in DOMAIN temp =>
                  /\ At(<<"source", b, k>>) = temp[b].data[k]
                  /\ At(<<"source", b, k>>)' = temp[b].data[k]
  <2>1. ASSUME b \in DOMAIN temp, k \in DOMAIN temp[b].data
        PROVE  /\ ~(b < cur \/ (b = cur /\ k <= read_idx)) <=> cur <= b
               /\ ~(b < cur' \/ (b = cur' /\ k <= read_idx')) <=> cur + 1 <= b
    <3>1. b \in Nat \ {0} /\ k \in Nat \ {0}
      BY <1>3, <2>1, SlotFacts
    <3> QED BY <1>1, <1>3, <3>1
  <2>2. pc # "done" /\ pc' # "done"
    BY <1>1
  <2> QED BY <1>1, <1>3, <1>8, <2>1, <2>2 DEF PlacesHeld
<1>10. Placement'
  <2>1. \A k \in DOMAIN temp[cur].data : place[1][k] = <<"source", cur, k>>
    OBVIOUS
  <2> HIDE DEF place
  <2>2. ASSUME NEW k \in DOMAIN temp[cur].data, ~IsHole(temp[cur].data[k])
        PROVE  /\ place[1][k] \in Places /\ At(place[1][k]) = temp[cur].data[k]
               /\ place[1][k] \notin Places' /\ place[1][k][1] # "next"
    <3>1. cur <= cur /\ ~(cur + 1 <= cur)
      BY <1>3
    <3>2. /\ <<"source", cur, k>> \in Places /\ <<"source", cur, k>> \notin Places'
          /\ At(<<"source", cur, k>>) = temp[cur].data[k]
      BY <1>4, <1>9, <2>2, <3>1
    <3>3. place[1][k] = <<"source", cur, k>>
      BY <2>1
    <3> QED BY <3>2, <3>3
  <2>3. \A k, m \in DOMAIN temp[cur].data : place[1][k] = place[1][m] => k = m
    BY <2>1
  <2>4. ASSUME NEW x \in Places
        PROVE  \/ x \in Places'
               \/ \E k \in DOMAIN temp[cur].data : ~IsHole(temp[cur].data[k]) /\ x = place[1][k]
    <3>1. PICK b, k : x \in {<<"source", b, k>>, <<"queue", b, k>>, <<"bucket", b, k>>, <<"next", b, k>>}
      BY <1>8 DEF PlacesHeld
    <3>2. x # <<"queue", b, k>> /\ x # <<"bucket", b, k>>
      BY <1>3, <1>8 DEF PlacesHeld
    <3>3. CASE x = <<"next", b, k>>
      <4>1. b \in DOMAIN new_temp /\ k \in DOMAIN new_temp[b].data /\ ~IsHole(new_temp[b].data[k])
        BY <1>8, <3>3 DEF PlacesHeld
      <4>2. b \in 1 .. Len(new_temp) /\ Len(new_temp) \in Nat
        BY <1>3, <4>1, SeqFacts
      <4>3. b \in DOMAIN new_temp' /\ new_temp'[b] = new_temp[b]
        BY <1>7, <4>2
      <4>4. pc' # "done"
        BY <1>1
      <4> QED BY <1>8, <3>3, <4>1, <4>3, <4>4 DEF PlacesHeld
    <3>4. CASE x = <<"source", b, k>>
      <4>1. b \in DOMAIN temp /\ k \in DOMAIN temp[b].data /\ cur <= b /\ ~IsHole(temp[b].data[k])
        BY <1>9, <3>4
      <4>2. CASE b = cur
        BY <2>1, <3>4, <4>1, <4>2
      <4>3. CASE b # cur
        <5>1. cur + 1 <= b
          BY <1>3, <4>1, <4>3
        <5> QED BY <1>9, <3>4, <4>1, <5>1
      <4> QED BY <4>2, <4>3
    <3> QED BY <3>1, <3>2, <3>3, <3>4
  <2>5. ASSUME NEW x \in Places', x[1] # "next" PROVE x \in Places /\ At(x)' = At(x)
    <3>1. PICK b, k : x \in {<<"source", b, k>>, <<"queue", b, k>>, <<"bucket", b, k>>, <<"next", b, k>>}
      BY <1>8 DEF PlacesHeld
    <3>2. x # <<"queue", b, k>> /\ x # <<"bucket", b, k>>
      BY <1>1, <1>3, <1>8 DEF PlacesHeld
    <3>3. x = <<"source", b, k>>
      BY <2>5, <3>1, <3>2
    <3>4. b \in DOMAIN temp /\ k \in DOMAIN temp[b].data /\ cur + 1 <= b /\ ~IsHole(temp[b].data[k])
      BY <1>9, <3>3
    <3>5. cur <= b
      BY <1>3, <3>4
    <3> QED BY <1>9, <3>3, <3>4, <3>5
  <2>6. TakenFrom(place, bs)
    BY <1>6, <2>2, <2>3, <2>4, <2>5 DEF TakenFrom
  <2>7. UNCHANGED <<job, arr_out>> /\ pc # "done" /\ pc' # "done" /\ (Tight => Tight')
    BY <1>1, <1>8
  <2> QED BY ONLY <1>3, <1>6, <2>6, <2>7, HandsOver
<1>11. TypeOK'
  BY <1>1, <1>3, <1>5, <1>7 DEF TypeOK
<1>12. CacheOK'
  <2>1. cur' <= Len(temp') + 1
    BY <1>1, <1>3
  <2>2. new_temp' # << >>
    BY <1>1, <1>3, <1>4
  <2>3. \A b \in DOMAIN new_temp' : Len(new_temp'[b].data) > 0
    <3>1. Len(temp[cur].data) > 0 /\ \A b \in DOMAIN new_temp : Len(new_temp[b].data) > 0
      BY <1>3, <1>4 DEF CacheOK
    <3>2. DOMAIN new_temp = 1 .. Len(new_temp) /\ Len(new_temp) \in Nat
      BY <1>3, SeqFacts
    <3> QED BY <1>7, <3>1, <3>2
  <2> QED BY <1>1, <1>2, <1>3, <1>5, <2>1, <2>2, <2>3 DEF CacheOK, Spraying
<1>13. RangesSplit'
  <2>1. cur > 1 => new_temp # << >>
    BY <1>1, <1>3 DEF CacheOK
  <2>2. Split(bs, temp[cur].begin_idx, temp[cur].end_idx)
    <3>1. /\ temp[cur].begin_idx < temp[cur].end_idx
          /\ \A k \in DOMAIN temp[cur].data :
               \/ IsHole(temp[cur].data[k])
               \/ temp[cur].data[k].perm \in temp[cur].begin_idx .. temp[cur].end_idx - 1
      BY <1>3, <1>4 DEF Split
    <3> QED BY <1>6, <3>1 DEF Split
  <2>3. Split(new_temp, 0, temp[cur].begin_idx)
    BY <1>1, <1>3
  <2>4. Split(new_temp \o bs, 0, IF cur + 1 <= Len(temp) THEN temp[cur + 1].begin_idx ELSE len)
    BY ONLY <1>3, <1>4, <1>6, <2>1, <2>2, <2>3, SplitGoesOn
  <2> QED BY <1>1, <1>3, <1>5, <1>6, <2>4 DEF RangesSplit
<1>14. QueuesInRange'
  BY <1>1, <1>3 DEF QueuesInRange
<1> QED BY <1>5, <1>10, <1>11, <1>12, <1>13, <1>14 DEF ShuffleInv

-----------------------------------------------------------------------------
(* A spray ends *)

\* A bucket with a slot for each position of its range leaves nothing in its queue.
LEMMA NothingLeft ==
  ASSUME ShuffleInv, ~IsMelbourne, pc = "refill", ~spray.tight,
         NEW b \in 1 .. Len(buckets), b < bucket_idx
  PROVE  q[b] = << >>
<1> PICK bucket : bucket = buckets[b]
  OBVIOUS
<1> PICK n : n = Len(buckets[b].data)
  OBVIOUS
<1>1. Spraying
  BY DEF Spraying
<1>2. /\ TypeOK /\ SprayOK /\ QueuesInRange /\ Placement /\ JobOK
      /\ buckets \in Seq(Bucket) /\ DOMAIN buckets = 1 .. Len(buckets)
      /\ DOMAIN q = 1 .. Len(buckets) /\ q \in [1 .. Len(buckets) -> Seq(Elements)]
      /\ Split(buckets, temp[cur].begin_idx, temp[cur].end_idx)
  BY <1>1, InSpray
<1>3. /\ n \in Nat /\ DOMAIN bucket.data = 1 .. n
      /\ bucket.begin_idx \in Nat /\ bucket.end_idx \in Nat
  BY <1>2, SlotFacts
<1>4. bucket.end_idx - bucket.begin_idx <= n
  BY <1>2 DEF SprayOK, IdxLen
<1>5. SUFFICES ASSUME q[b] # << >> PROVE FALSE
  OBVIOUS
<1>6. \A k \in 1 .. n : ~IsHole(bucket.data[k])
  BY <1>2, <1>3, <1>5 DEF SprayOK, Full
<1>7. q[b] \in Seq(Elements) /\ 1 \in DOMAIN q[b] /\ q[b][1] \in Elements
  <2>1. q[b] \in Seq(Elements)
    BY <1>2
  <2>2. Len(q[b]) \in Nat /\ DOMAIN q[b] = 1 .. Len(q[b]) /\ Len(q[b]) # 0
    BY <1>5, <2>1, SeqFacts
  <2>3. 1 \in DOMAIN q[b] /\ 1 \in 1 .. Len(q[b])
    BY <2>2
  <2>4. q[b][1] \in Elements
    BY <2>1, <2>3, SeqFacts
  <2> QED BY <2>1, <2>3, <2>4
<1>8. /\ bucket.begin_idx < bucket.end_idx
      /\ \A k \in 1 .. n : bucket.data[k].perm \in bucket.begin_idx .. bucket.end_idx - 1
      /\ q[b][1].perm \in bucket.begin_idx .. bucket.end_idx - 1
  <2>1. /\ bucket.begin_idx < bucket.end_idx
        /\ \A k \in 1 .. n : bucket.data[k].perm \in bucket.begin_idx .. bucket.end_idx - 1
    BY <1>2, <1>3, <1>6 DEF Split
  <2>2. q[b][1].perm \in bucket.begin_idx .. bucket.end_idx - 1
    BY <1>2, <1>7 DEF QueuesInRange
  <2> QED BY <2>1, <2>2
<1> DEFINE at(k) == IF k <= n THEN <<"bucket", b, k>> ELSE <<"queue", b, 1>>
<1>9. ASSUME NEW k \in 1 .. n + 1
      PROVE  /\ at(k) \in Places
             /\ At(at(k)).perm \in bucket.begin_idx .. bucket.end_idx - 1
  <2>1. CASE k <= n
    <3>1. k \in 1 .. n
      BY <1>3, <2>1
    <3>2. /\ <<"bucket", b, k>> \in Places /\ At(<<"bucket", b, k>>) = bucket.data[k]
      BY <1>2, <1>3, <1>6, <3>1, PlacesAre DEF PlacesHeld
    <3> QED BY <1>8, <2>1, <3>1, <3>2
  <2>2. CASE ~(k <= n)
    <3>1. ~IsHole(q[b][1])
      BY <1>2, <1>7, ElementFacts
    <3>2. <<"queue", b, 1>> \in Places /\ At(<<"queue", b, 1>>) = q[b][1]
      BY <1>2, <1>7, <3>1, PlacesAre DEF PlacesHeld
    <3> QED BY <1>8, <2>2, <3>2
  <2> QED BY <2>1, <2>2
<1>10. ASSUME NEW k \in 1 .. n + 1, NEW m \in 1 .. n + 1, At(at(k)).perm = At(at(m)).perm
       PROVE  k = m
  <2>1. at(k) = at(m)
    <3>1. Alone
      BY <1>2 DEF Placement
    <3> HIDE DEF at
    <3> QED BY <1>9, <1>10, <3>1 DEF Alone
  <2>2. CASE k <= n /\ m <= n
    BY <2>1, <2>2
  <2>3. CASE ~(k <= n) /\ ~(m <= n)
    BY <1>3, <2>3
  <2>4. CASE (k <= n) # (m <= n)
    BY <2>1, <2>4
  <2> QED BY <2>2, <2>3, <2>4
<1> DEFINE g == [k \in 1 .. n + 1 |-> At(at(k)).perm]
<1>11. \A k \in 1 .. n + 1 : g[k] = At(at(k)).perm
  OBVIOUS
<1> HIDE DEF at, g
<1>12. /\ \A k \in 1 .. n + 1 : g[k] \in bucket.begin_idx .. bucket.end_idx - 1
       /\ \A k, m \in 1 .. n + 1 : g[k] = g[m] => k = m
  BY <1>9, <1>10, <1>11
<1>13. Cardinality(1 .. n + 1) <= bucket.end_idx - bucket.begin_idx
  BY ONLY <1>3, <1>8, <1>12, RangeHolds
<1>14. Cardinality(1 .. n + 1) = n + 1
  <2>1. 1 \in Int /\ n + 1 \in Int /\ ~(1 > n + 1)
    BY <1>3
  <2>2. Cardinality(1 .. n + 1) = IF 1 > n + 1 THEN 0 ELSE (n + 1) - 1 + 1
    BY ONLY <2>1, FS_Interval
  <2> QED BY <1>3, <2>1, <2>2
<1> QED BY <1>3, <1>4, <1>13, <1>14

\* A spray ends: its buckets go to the next round, and only a tight spray leaves
\* anything in its queues.
LEMMA EndSprayKeeps ==
  ASSUME ShuffleInv, ~IsMelbourne, EndSpray
  PROVE  ShuffleInv'
<1> DEFINE place == [b \in DOMAIN buckets |-> [k \in DOMAIN buckets[b].data |-> <<"bucket", b, k>>]]
<1>1. /\ pc = "refill" /\ bucket_idx > Len(buckets)
      /\ new_temp' = new_temp \o buckets /\ cur' = cur + 1
      /\ pc' = "round" /\ read_idx' = 0 /\ q' = << >> /\ buckets' = << >>
      /\ UNCHANGED <<job, i, write_idx, bucket_idx, arr_out, temp, spray>>
  BY DEF EndSpray
<1>2. Spraying
  BY <1>1 DEF Spraying
<1>3. /\ TypeOK /\ CacheOK /\ SprayOK /\ RangesSplit /\ Placement /\ JobOK
      /\ len \in Nat \ {0} /\ Sources = temp /\ Len(buckets) \in Nat \ {0}
      /\ temp \in Seq(Bucket) /\ new_temp \in Seq(Bucket) /\ buckets \in Seq(Bucket)
      /\ cur \in Nat \ {0} /\ cur \in 1 .. Len(temp) /\ cur \in DOMAIN temp /\ temp[cur] \in Bucket
      /\ DOMAIN temp = 1 .. Len(temp) /\ Len(temp) \in Nat
      /\ DOMAIN buckets = 1 .. Len(buckets) /\ DOMAIN q = 1 .. Len(buckets) /\ buckets # << >>
      /\ Split(temp, 0, len) /\ Split(buckets, temp[cur].begin_idx, temp[cur].end_idx)
      /\ Split(new_temp, 0, temp[cur].begin_idx)
      /\ bucket_idx \in Nat \ {0}
      /\ Len(temp[cur].data) \in Nat /\ DOMAIN temp[cur].data = 1 .. Len(temp[cur].data)
  BY <1>2, InSpray
<1>4. read_idx = Len(temp[cur].data)
  BY <1>1, <1>3 DEF SprayOK
<1>5. /\ IsMelbourne' = IsMelbourne /\ JobOK' = JobOK /\ len' = len
      /\ Positions' = Positions /\ Elements' = Elements /\ Cells' = Cells /\ Bucket' = Bucket
  BY <1>1, JobStays
<1>6. /\ new_temp' \in Seq(Bucket) /\ DOMAIN new_temp' = 1 .. Len(new_temp) + Len(buckets)
      /\ Len(new_temp') = Len(new_temp) + Len(buckets)
      /\ \A b \in 1 .. Len(new_temp) : new_temp'[b] = new_temp[b]
      /\ \A b \in 1 .. Len(buckets) : new_temp'[Len(new_temp) + b] = buckets[b]
  <2>1. new_temp' = new_temp \o buckets
    BY <1>1
  <2> QED BY ONLY <1>3, <2>1, BucketsJoined
<1>7. DOMAIN new_temp = 1 .. Len(new_temp) /\ Len(new_temp) \in Nat
  BY <1>3, SeqFacts
<1>8. PlacesHeld /\ PlacesHeld' /\ Sources' = Sources /\ Tight' = Tight
  BY <1>1, <1>5, PlacesAre, PlacesNext DEF Sources, Tight
<1>9. ASSUME NEW b, NEW k
      PROVE  /\ <<"source", b, k>> \in Places' <=> <<"source", b, k>> \in Places
             /\ <<"source", b, k>> \in Places => At(<<"source", b, k>>)' = At(<<"source", b, k>>)
  <2>1. ASSUME b \in DOMAIN temp, k \in DOMAIN temp[b].data
        PROVE  ~(b < cur \/ (b = cur /\ k <= read_idx)) <=> ~(b < cur' \/ (b = cur' /\ k <= read_idx'))
    <3>1. b \in Nat \ {0} /\ k \in Nat \ {0}
      BY <1>3, <2>1, SlotFacts
    <3>2. b = cur => k <= read_idx
      BY <1>3, <1>4, <2>1
    <3> QED BY <1>1, <1>3, <3>1, <3>2
  <2>2. pc # "done" /\ pc' # "done"
    BY <1>1
  <2> QED BY <1>1, <1>3, <1>8, <2>1, <2>2 DEF PlacesHeld
<1>10. ASSUME NEW b, NEW k, <<"queue", b, k>> \in Places PROVE Tight'
  <2>1. b \in 1 .. Len(buckets) /\ k \in DOMAIN q[b]
    BY <1>3, <1>8, <1>10 DEF PlacesHeld
  <2>2. q[b] # << >> /\ b < bucket_idx
    BY <1>1, <1>3, <2>1
  <2>3. spray.tight
    BY <1>1, <2>1, <2>2, NothingLeft
  <2> QED BY <1>8, <2>3 DEF Tight
<1>11. Placement'
  <2>1. ASSUME NEW b \in DOMAIN buckets, NEW k \in DOMAIN buckets[b].data
        PROVE  place[b][k] = <<"bucket", b, k>>
    OBVIOUS
  <2> HIDE DEF place
  <2>2. ASSUME NEW b \in DOMAIN buckets, NEW k \in DOMAIN buckets[b].data, ~IsHole(buckets[b].data[k])
        PROVE  /\ place[b][k] \in Places /\ At(place[b][k]) = buckets[b].data[k]
               /\ place[b][k] \notin Places' /\ place[b][k][1] # "next"
    <3>1. <<"bucket", b, k>> \in Places /\ At(<<"bucket", b, k>>) = buckets[b].data[k]
      BY <1>1, <1>8, <2>2 DEF PlacesHeld
    <3>2. b \notin DOMAIN buckets'
      BY <1>1
    <3>3. <<"bucket", b, k>> \notin Places'
      BY <1>8, <3>2 DEF PlacesHeld
    <3>4. place[b][k] = <<"bucket", b, k>>
      BY <2>1
    <3> QED BY <3>1, <3>3, <3>4
  <2>3. ASSUME NEW b, NEW k, NEW c, NEW m, b \in DOMAIN buckets, k \in DOMAIN buckets[b].data,
               c \in DOMAIN buckets, m \in DOMAIN buckets[c].data, place[b][k] = place[c][m]
        PROVE  b = c /\ k = m
    <3>1. <<"bucket", b, k>> = <<"bucket", c, m>>
      BY <2>1, <2>3
    <3> QED BY <3>1
  <2>4. ASSUME NEW x \in Places
        PROVE  \/ x \in Places' \/ Tight'
               \/ \E b \in DOMAIN buckets : \E k \in DOMAIN buckets[b].data :
                    ~IsHole(buckets[b].data[k]) /\ x = place[b][k]
    <3>1. PICK b, k : x \in {<<"source", b, k>>, <<"queue", b, k>>, <<"bucket", b, k>>, <<"next", b, k>>}
      BY <1>8 DEF PlacesHeld
    <3>2. CASE x = <<"queue", b, k>>
      BY <1>10, <3>2
    <3>3. CASE x = <<"next", b, k>>
      <4>1. b \in DOMAIN new_temp /\ k \in DOMAIN new_temp[b].data /\ ~IsHole(new_temp[b].data[k])
        BY <1>8, <3>3 DEF PlacesHeld
      <4>2. b \in DOMAIN new_temp' /\ new_temp'[b] = new_temp[b]
        <5>1. b \in 1 .. Len(new_temp)
          BY <1>7, <4>1
        <5>2. b \in 1 .. Len(new_temp) + Len(buckets)
          BY <1>3, <1>7, <5>1
        <5> QED BY <1>6, <5>1, <5>2
      <4>3. pc' # "done"
        BY <1>1
      <4> QED BY <1>8, <3>3, <4>1, <4>2, <4>3 DEF PlacesHeld
    <3>4. CASE x = <<"source", b, k>>
      BY <1>9, <3>4
    <3>5. CASE x = <<"bucket", b, k>>
      <4>1. b \in DOMAIN buckets /\ k \in DOMAIN buckets[b].data /\ ~IsHole(buckets[b].data[k])
        BY <1>8, <3>5 DEF PlacesHeld
      <4>2. place[b][k] = <<"bucket", b, k>>
        BY <2>1, <4>1
      <4> QED BY <3>5, <4>1, <4>2
    <3> QED BY <3>1, <3>2, <3>3, <3>4, <3>5
  <2>5. ASSUME NEW x \in Places', x[1] # "next" PROVE x \in Places /\ At(x)' = At(x)
    <3>1. PICK b, k : x \in {<<"source", b, k>>, <<"queue", b, k>>, <<"bucket", b, k>>, <<"next", b, k>>}
      BY <1>8 DEF PlacesHeld
    <3>2. b \notin DOMAIN q' /\ b \notin DOMAIN buckets'
      BY <1>1
    <3>3. x # <<"queue", b, k>> /\ x # <<"bucket", b, k>>
      BY <1>8, <3>2 DEF PlacesHeld
    <3>4. x = <<"source", b, k>>
      BY <2>5, <3>1, <3>3
    <3> QED BY <1>9, <3>4
  <2>6. TakenFrom(place, buckets)
    BY <2>2, <2>3, <2>4, <2>5 DEF TakenFrom
  <2>7. /\ UNCHANGED <<job, arr_out>> /\ pc # "done" /\ pc' # "done" /\ (Tight => Tight')
        /\ new_temp' = new_temp \o buckets
    BY <1>1, <1>8
  <2> QED BY ONLY <1>3, <2>6, <2>7, HandsOver
<1>12. TypeOK'
  <2>1. q' \in [1 .. Len(buckets') -> Seq(Elements)] /\ IsFiniteSet(Blocks(q')) /\ buckets' \in Seq(Bucket)
    BY <1>1, NoQueues
  <2> QED BY <1>1, <1>3, <1>5, <1>6, <2>1 DEF TypeOK
<1>13. CacheOK'
  <2>1. cur' <= Len(temp') + 1
    BY <1>1, <1>3
  <2>2. new_temp' # << >>
    <3>1. Len(new_temp') > 0
      BY <1>3, <1>6, <1>7
    <3> QED BY <1>6, <3>1, SeqFacts
  <2>3. \A b \in DOMAIN new_temp' : Len(new_temp'[b].data) > 0
    <3> SUFFICES ASSUME NEW b \in 1 .. Len(new_temp) + Len(buckets) PROVE Len(new_temp'[b].data) > 0
      BY <1>6
    <3>1. /\ \A c \in DOMAIN new_temp : Len(new_temp[c].data) > 0
          /\ \A c \in DOMAIN buckets : Len(buckets[c].data) > 0
      BY <1>3 DEF CacheOK
    <3>2. CASE b \in 1 .. Len(new_temp)
      BY <1>6, <1>7, <3>1, <3>2
    <3>3. CASE b \notin 1 .. Len(new_temp)
      <4>1. PICK c : c = b - Len(new_temp)
        OBVIOUS
      <4>2. c \in 1 .. Len(buckets) /\ b = Len(new_temp) + c
        <5>1. b \in 1 .. Len(new_temp) + Len(buckets) /\ Len(buckets) \in Nat
          BY <1>3
        <5> QED BY ONLY <1>7, <3>3, <4>1, <5>1, Shifted
      <4>3. new_temp'[b] = buckets[c]
        BY <1>6, <4>2
      <4> QED BY <1>3, <3>1, <4>2, <4>3
    <3> QED BY <3>2, <3>3
  <2>4. ~Spraying'
    BY <1>1 DEF Spraying
  <2>5. len # 1
    BY <1>1, <1>3 DEF CacheOK
  <2>6. \A b \in DOMAIN buckets' : Len(buckets'[b].data) > 0
    BY <1>1
  <2> QED BY <1>1, <1>3, <1>5, <2>1, <2>2, <2>3, <2>4, <2>5, <2>6 DEF CacheOK
<1>14. RangesSplit'
  <2>1. cur > 1 => new_temp # << >>
    BY <1>2, <1>3 DEF CacheOK
  <2>2. Split(new_temp \o buckets, 0, IF cur + 1 <= Len(temp) THEN temp[cur + 1].begin_idx ELSE len)
    BY ONLY <1>3, <2>1, SplitGoesOn
  <2> QED BY <1>1, <1>3, <1>5, <2>2 DEF RangesSplit
<1>15. QueuesInRange'
  BY <1>1 DEF QueuesInRange
<1> QED BY <1>5, <1>11, <1>12, <1>13, <1>14, <1>15 DEF ShuffleInv

-----------------------------------------------------------------------------
(* A spray starts *)

\* The slots of a bucket in another order.
Rearranged(r, bucket) ==
  /\ r \in Bucket /\ r.begin_idx = bucket.begin_idx /\ r.end_idx = bucket.end_idx
  /\ Len(r.data) = Len(bucket.data)
  /\ \E p \in [DOMAIN bucket.data -> DOMAIN bucket.data] :
       /\ \A k \in DOMAIN bucket.data : r.data[k] = bucket.data[p[k]]
       /\ \A k, m \in DOMAIN bucket.data : p[k] = p[m] => k = m
       /\ \A m \in DOMAIN bucket.data : \E k \in DOMAIN bucket.data : p[k] = m

\* A step that rearranges a bucket none of whose elements has been read, when there
\* are no others but those of the round and of the next.
LEMMA RearrangedMoves ==
  ASSUME Placement, UNCHANGED <<job, arr_out, cur, new_temp>>, Tight => Tight',
         pc # "done", pc' # "done", q = << >>, buckets = << >>, read_idx = 0, read_idx' = 0,
         \A b \in DOMAIN q' : q'[b] = << >>,
         \A b \in DOMAIN buckets' : \A k \in DOMAIN buckets'[b].data : IsHole(buckets'[b].data[k]),
         Sources = temp, Sources' = temp', temp \in Seq(Bucket), cur \in DOMAIN temp,
         NEW bucket, Rearranged(bucket, temp[cur]), temp' = [temp EXCEPT ![cur] = bucket]
  PROVE  Placement'
<1> PICK d : d = DOMAIN temp[cur].data
  OBVIOUS
<1>1. PICK p \in [d -> d] : /\ \A k \in d : bucket.data[k] = temp[cur].data[p[k]]
                            /\ \A k, m \in d : p[k] = p[m] => k = m
                            /\ \A m \in d : \E k \in d : p[k] = m
  BY DEF Rearranged
<1>2. /\ d = 1 .. Len(temp[cur].data) /\ Len(temp[cur].data) \in Nat /\ DOMAIN bucket.data = d
      /\ DOMAIN temp' = DOMAIN temp /\ temp'[cur] = bucket
      /\ \A b \in DOMAIN temp : b # cur => temp'[b] = temp[b]
  <2>1. d = 1 .. Len(temp[cur].data) /\ Len(temp[cur].data) \in Nat
    BY SlotFacts
  <2>2. bucket \in Bucket /\ Len(bucket.data) = Len(temp[cur].data)
    BY DEF Rearranged
  <2>3. bucket.data \in Seq(Cells)
    BY <2>2 DEF Bucket
  <2>4. DOMAIN bucket.data = d
    BY <2>1, <2>2, <2>3, SeqFacts
  <2>5. /\ DOMAIN temp' = DOMAIN temp /\ temp'[cur] = bucket
        /\ \A b \in DOMAIN temp : b # cur => temp'[b] = temp[b]
    OBVIOUS
  <2> QED BY <2>1, <2>4, <2>5
<1>3. PlacesHeld /\ PlacesHeld'
  BY PlacesAre, PlacesNext
<1>4. DOMAIN temp \subseteq Nat \ {0} /\ \A b \in DOMAIN temp : DOMAIN temp[b].data \subseteq Nat \ {0}
  <2>1. DOMAIN temp \subseteq Nat \ {0}
    BY SeqFacts
  <2>2. ASSUME NEW b \in DOMAIN temp PROVE DOMAIN temp[b].data \subseteq Nat \ {0}
    <3>1. DOMAIN temp[b].data = 1 .. Len(temp[b].data) /\ Len(temp[b].data) \in Nat
      BY SlotFacts
    <3> QED BY ONLY <3>1
  <2> QED BY <2>1, <2>2
<1> DEFINE Fresh(b) == ~(b < cur)
<1>5. ASSUME NEW b, NEW k
      PROVE  /\ <<"source", b, k>> \in Places <=>
                  /\ b \in DOMAIN temp /\ k \in DOMAIN temp[b].data
                  /\ ~(b < cur) /\ ~IsHole(temp[b].data[k])
             /\ <<"source", b, k>> \in Places' <=>
                  /\ b \in DOMAIN temp /\ k \in DOMAIN temp'[b].data
                  /\ ~(b < cur) /\ ~IsHole(temp'[b].data[k])
             /\ b \in DOMAIN temp => /\ At(<<"source", b, k>>) = temp[b].data[k]
                                     /\ At(<<"source", b, k>>)' = temp'[b].data[k]
             /\ <<"next", b, k>> \in Places' <=> <<"next", b, k>> \in Places
             /\ <<"next", b, k>> \in Places => At(<<"next", b, k>>)' = At(<<"next", b, k>>)
  <2>1. ASSUME b \in DOMAIN temp, k \in DOMAIN temp[b].data PROVE ~(k <= read_idx)
    BY <1>4, <2>1
  <2>2. b \in DOMAIN temp => DOMAIN temp'[b].data = DOMAIN temp[b].data
    BY <1>2
  <2>3. <<"source", b, k>> \in Places <=>
          /\ b \in DOMAIN temp /\ k \in DOMAIN temp[b].data
          /\ ~(b < cur) /\ ~IsHole(temp[b].data[k])
    BY <1>3, <2>1 DEF PlacesHeld
  <2>4. <<"source", b, k>> \in Places' <=>
          /\ b \in DOMAIN temp /\ k \in DOMAIN temp'[b].data
          /\ ~(b < cur) /\ ~IsHole(temp'[b].data[k])
    BY <1>2, <1>3, <2>1, <2>2 DEF PlacesHeld
  <2>5. b \in DOMAIN temp => /\ At(<<"source", b, k>>) = temp[b].data[k]
                             /\ At(<<"source", b, k>>)' = temp'[b].data[k]
    BY <1>2, <1>3 DEF PlacesHeld
  <2>6. /\ <<"next", b, k>> \in Places' <=> <<"next", b, k>> \in Places
        /\ <<"next", b, k>> \in Places => At(<<"next", b, k>>)' = At(<<"next", b, k>>)
    BY <1>3 DEF PlacesHeld
  <2> QED BY <2>3, <2>4, <2>5, <2>6
<1>6. ASSUME NEW x \in Places PROVE \E b, k : x = <<"source", b, k>> \/ x = <<"next", b, k>>
  <2>1. PICK b, k : x \in {<<"source", b, k>>, <<"queue", b, k>>, <<"bucket", b, k>>, <<"next", b, k>>}
    BY <1>3 DEF PlacesHeld
  <2> QED BY <1>3, <2>1 DEF PlacesHeld
<1>7. ASSUME NEW x \in Places' PROVE \E b, k : x = <<"source", b, k>> \/ x = <<"next", b, k>>
  <2>1. PICK b, k : x \in {<<"source", b, k>>, <<"queue", b, k>>, <<"bucket", b, k>>, <<"next", b, k>>}
    BY <1>3 DEF PlacesHeld
  <2>2. x # <<"queue", b, k>> /\ x # <<"bucket", b, k>>
    BY <1>3 DEF PlacesHeld
  <2> QED BY <2>1, <2>2
<1> DEFINE f == [x \in Places' |-> IF x[1] = "source" /\ x[2] = cur THEN <<"source", cur, p[x[3]]>> ELSE x]
<1>8. \A x \in Places' : f[x] = IF x[1] = "source" /\ x[2] = cur THEN <<"source", cur, p[x[3]]>> ELSE x
  OBVIOUS
<1> HIDE DEF f
<1>9. ASSUME NEW x \in Places'
      PROVE  \/ \E k \in d : /\ x = <<"source", cur, k>> /\ f[x] = <<"source", cur, p[k]>>
                             /\ f[x] \in Places /\ At(x)' = At(f[x])
             \/ /\ ~(x[1] = "source" /\ x[2] = cur) /\ f[x] = x
                /\ x \in Places /\ At(x)' = At(x)
  <2>1. PICK b, k : x = <<"source", b, k>> \/ x = <<"next", b, k>>
    BY <1>7
  <2>2. CASE x = <<"next", b, k>>
    <3>1. f[x] = x /\ ~(x[1] = "source" /\ x[2] = cur)
      BY <1>8, <2>2
    <3>2. x \in Places /\ At(x)' = At(x)
      BY <1>5, <2>2
    <3> QED BY <3>1, <3>2
  <2>3. CASE x = <<"source", b, k>> /\ b # cur
    <3>1. f[x] = x /\ ~(x[1] = "source" /\ x[2] = cur)
      BY <1>8, <2>3
    <3>2. /\ b \in DOMAIN temp /\ k \in DOMAIN temp'[b].data
          /\ ~(b < cur) /\ ~IsHole(temp'[b].data[k])
      BY <1>5, <2>3
    <3>3. temp'[b] = temp[b]
      BY <1>2, <2>3, <3>2
    <3>4. x \in Places
      BY <1>5, <2>3, <3>2, <3>3
    <3>5. At(x) = temp[b].data[k] /\ At(x)' = temp'[b].data[k]
      BY <1>5, <2>3, <3>2
    <3> QED BY <3>1, <3>3, <3>4, <3>5
  <2>4. CASE x = <<"source", b, k>> /\ b = cur
    <3>1. f[x] = <<"source", cur, p[k]>>
      BY <1>8, <2>4
    <3>2. k \in d /\ ~(cur < cur) /\ ~IsHole(bucket.data[k]) /\ At(x)' = bucket.data[k]
      BY <1>2, <1>5, <2>4
    <3> PICK m : m = p[k]
      OBVIOUS
    <3>3. m \in d /\ bucket.data[k] = temp[cur].data[m]
      BY <1>1, <3>2
    <3>4. ~IsHole(temp[cur].data[m]) /\ cur \in DOMAIN temp /\ m \in DOMAIN temp[cur].data
      BY <3>2, <3>3
    <3>5. <<"source", cur, m>> \in Places
      BY <1>5, <3>2, <3>4
    <3>6. At(<<"source", cur, m>>) = temp[cur].data[m]
      BY <1>5, <3>4
    <3> QED BY <2>4, <3>1, <3>2, <3>3, <3>5, <3>6
  <2> QED BY <2>1, <2>2, <2>3, <2>4
<1>10. ASSUME NEW x \in Places', NEW y \in Places', f[x] = f[y] PROVE x = y
  <2> DEFINE Here(z) == z[1] = "source" /\ z[2] = cur
  <2>1. \A z \in Places' :
          \/ \E k \in d : z = <<"source", cur, k>> /\ f[z] = <<"source", cur, p[k]>>
          \/ ~Here(z) /\ f[z] = z
    BY <1>9
  <2>2. \A z \in Places' : Here(z) <=> Here(f[z])
    BY <2>1
  <2>3. \A k, m : <<"source", cur, k>> = <<"source", cur, m>> => k = m
    OBVIOUS
  <2>4. CASE Here(x)
    <3>1. PICK k \in d : x = <<"source", cur, k>> /\ f[x] = <<"source", cur, p[k]>>
      BY <2>1, <2>4
    <3>2. Here(y)
      BY <1>10, <2>2, <2>4
    <3>3. PICK m \in d : y = <<"source", cur, m>> /\ f[y] = <<"source", cur, p[m]>>
      BY <2>1, <3>2
    <3>4. p[k] = p[m]
      BY <1>10, <2>3, <3>1, <3>3
    <3> QED BY <1>1, <3>1, <3>3, <3>4
  <2>5. CASE ~Here(x)
    <3>1. ~Here(y)
      BY <1>10, <2>2, <2>5
    <3> QED BY <1>10, <2>1, <2>5, <3>1
  <2> QED BY <2>4, <2>5
<1>11. ASSUME NEW x \in Places PROVE \E y \in Places' : f[y] = x
  <2>1. PICK b, k : x = <<"source", b, k>> \/ x = <<"next", b, k>>
    BY <1>6
  <2>2. CASE x = <<"next", b, k>>
    <3>1. x \in Places'
      BY <1>5, <2>2
    <3> QED BY <1>8, <2>2, <3>1
  <2>3. CASE x = <<"source", b, k>> /\ b # cur
    <3>1. b \in DOMAIN temp /\ k \in DOMAIN temp[b].data /\ ~(b < cur) /\ ~IsHole(temp[b].data[k])
      BY <1>5, <2>3
    <3>2. temp'[b] = temp[b]
      BY <1>2, <2>3, <3>1
    <3>3. x \in Places'
      BY <1>5, <2>3, <3>1, <3>2
    <3> QED BY <1>8, <2>3, <3>3
  <2>4. CASE x = <<"source", b, k>> /\ b = cur
    <3>1. k \in d /\ ~(cur < cur) /\ ~IsHole(temp[cur].data[k])
      BY <1>5, <2>4
    <3>2. PICK m \in d : p[m] = k
      BY <1>1, <3>1
    <3>3. ~IsHole(bucket.data[m])
      BY <1>1, <3>1, <3>2
    <3>4. <<"source", cur, m>> \in Places'
      BY <1>2, <1>5, <3>1, <3>3
    <3>5. f[<<"source", cur, m>>] = <<"source", cur, p[m]>>
      BY <1>8, <3>4
    <3> QED BY <2>4, <3>2, <3>4, <3>5
  <2> QED BY <2>1, <2>2, <2>3, <2>4
<1>12. \A x \in Places' : f[x] \in Places /\ At(x)' = At(f[x])
  BY <1>9
<1>13. UNCHANGED <<job, arr_out>> /\ (Tight => Tight') /\ Placement
  OBVIOUS
<1> QED BY ONLY <1>10, <1>11, <1>12, <1>13, Moves

\* A spray starts with empty buckets that divide the range of the bucket to spray.
LEMMA StartSprayKeeps ==
  ASSUME ShuffleInv, ~IsMelbourne, pc \in {"first", "round"}, cur <= Len(temp),
         NEW bucket, Rearranged(bucket, temp[cur]),
         NEW s \in Nat \ {0}, NEW partition \in 1 .. IdxLen(bucket),
         NEW n, n = find_suitable_partitions(IdxLen(bucket), partition),
         StartSpray(bucket, s, n)
  PROVE  ShuffleInv'
<1> PICK from : from = bucket.begin_idx
  OBVIOUS
<1> PICK to : to = bucket.end_idx
  OBVIOUS
<1> PICK slots : slots = BucketLen(Len(bucket.data), s, n)
  OBVIOUS
<1> PICK idx_len : idx_len = RoundDiv(IdxLen(bucket), n)
  OBVIOUS
<1>1. /\ temp' = [temp EXCEPT ![cur] = bucket]
      /\ buckets' = init_empty_shuffle_buckets(n, slots, from, to, idx_len)
      /\ q' = EmptyQueues(n)
      /\ pc' = "read" /\ read_idx' = 0 /\ i' = 0 /\ write_idx' = 0 /\ bucket_idx' = 1
      /\ UNCHANGED <<job, arr_out, cur, new_temp>>
  BY DEF StartSpray
<1>2. spray' = [s |-> s, idx_len |-> idx_len,
                tight |-> spray.tight \/ \E b \in 1 .. n :
                            IdxLen(buckets'[b]) > Len(buckets'[b].data)]
  BY DEF StartSpray
<1>3. ~Spraying
  BY DEF Spraying
<1>4. /\ TypeOK /\ CacheOK /\ RangesSplit /\ Placement /\ JobOK /\ len \in Nat \ {0}
      /\ q = << >> /\ buckets = << >> /\ read_idx = 0 /\ Sources = temp
      /\ temp \in Seq(Bucket) /\ new_temp \in Seq(Bucket) /\ cur \in Nat \ {0}
      /\ DOMAIN temp = 1 .. Len(temp) /\ Len(temp) \in Nat \ {0}
      /\ Split(temp, 0, len)
      /\ Split(new_temp, 0, IF cur <= Len(temp) THEN temp[cur].begin_idx ELSE len)
  BY <1>3, BetweenSprays
<1>5. cur \in 1 .. Len(temp) /\ cur \in DOMAIN temp /\ temp[cur] \in Bucket
  BY <1>4
<1>6. /\ IsMelbourne' = IsMelbourne /\ JobOK' = JobOK /\ len' = len
      /\ Positions' = Positions /\ Elements' = Elements /\ Cells' = Cells /\ Bucket' = Bucket
  BY <1>1, JobStays
<1>7. /\ bucket \in Bucket /\ from = temp[cur].begin_idx /\ to = temp[cur].end_idx
      /\ Len(bucket.data) = Len(temp[cur].data)
  BY DEF Rearranged
<1>8. from \in Nat /\ to \in Nat /\ from < to /\ Len(temp[cur].data) \in Nat \ {0} /\ IdxLen(bucket) = to - from
  <2>1. from \in Nat /\ to \in Nat
    BY <1>7 DEF Bucket
  <2>2. from < to
    BY <1>4, <1>5, <1>7 DEF Split
  <2>3. Len(temp[cur].data) \in Nat
    BY <1>4, <1>5, SlotFacts
  <2>4. Len(temp[cur].data) > 0
    BY <1>4, <1>5 DEF CacheOK
  <2> QED BY <2>1, <2>2, <2>3, <2>4 DEF IdxLen
<1>9. n \in Nat \ {0}
  <2> PICK total : total = to - from
    OBVIOUS
  <2>1. total \in Nat \ {0} /\ partition \in 1 .. total /\ n = find_suitable_partitions(total, partition)
    BY <1>8
  <2>2. n \in 1 .. partition
    BY <2>1, SuitablePartitions
  <2> QED BY <2>1, <2>2
<1>10. slots \in Nat \ {0} /\ Len(bucket.data) <= slots * s
  BY <1>7, <1>8, <1>9, BucketLenEnough
<1>11. DividesInto(buckets', n, slots, from, to, idx_len)
  <2>1. \E m \in 1 .. to - from : n = find_suitable_partitions(to - from, m)
    BY <1>8
  <2>2. idx_len = RoundDiv(to - from, n)
    BY <1>8
  <2>3. buckets' = init_empty_shuffle_buckets(n, slots, from, to, idx_len)
    BY <1>1
  <2>4. slots \in Nat
    BY <1>10
  <2> QED BY <1>8, <2>1, <2>2, <2>3, <2>4 DEF DividesInto
<1>12. /\ n \in 1 .. to - from /\ idx_len \in Nat
       /\ buckets' \in Seq(Bucket) /\ Len(buckets') = n /\ DOMAIN buckets' = 1 .. n
       /\ \A b \in 1 .. n : /\ Len(buckets'[b].data) = slots /\ DOMAIN buckets'[b].data = 1 .. slots
                            /\ \A k \in 1 .. slots : buckets'[b].data[k] = Hole
       /\ Split(buckets', from, to)
       /\ Divided(buckets', from, to - from, idx_len)
  BY ONLY <1>11, NewBuckets
<1>13. \A b \in DOMAIN buckets' : \A k \in DOMAIN buckets'[b].data : IsHole(buckets'[b].data[k])
  <2>1. IsHole(Hole)
    BY DEF IsHole, Hole
  <2> QED BY <1>12, <2>1
<1>14. /\ q' \in [1 .. n -> Seq(Elements)] /\ DOMAIN q' = 1 .. n
       /\ \A b \in 1 .. n : q'[b] = << >>
       /\ IsFiniteSet(Blocks(q')) /\ Cardinality(Blocks(q')) = 0
  <2>1. /\ EmptyQueues(n) \in [1 .. n -> Seq(Elements)]
        /\ \A b \in 1 .. n : EmptyQueues(n)[b] = << >>
        /\ IsFiniteSet(Blocks(EmptyQueues(n))) /\ Cardinality(Blocks(EmptyQueues(n))) = 0
    BY NoBlocks
  <2> QED BY <1>1, <2>1
<1>15. /\ temp' \in Seq(Bucket) /\ Len(temp') = Len(temp) /\ DOMAIN temp' = DOMAIN temp
       /\ temp'[cur] = bucket /\ \A b \in DOMAIN temp : b # cur => temp'[b] = temp[b]
  BY <1>1, <1>4, <1>5, <1>7
<1>16. /\ spray'.s = s /\ spray'.idx_len = idx_len
       /\ spray' \in [s : Nat, idx_len : Nat, tight : BOOLEAN]
       /\ spray.tight => spray'.tight
       /\ ~spray'.tight => \A b \in 1 .. n : IdxLen(buckets'[b]) <= Len(buckets'[b].data)
  <2> DEFINE t == spray.tight \/ \E b \in 1 .. n : IdxLen(buckets'[b]) > Len(buckets'[b].data)
  <2>1. t \in BOOLEAN /\ (spray.tight => t)
    OBVIOUS
  <2>2. ~t => \A b \in 1 .. n : IdxLen(buckets'[b]) <= Len(buckets'[b].data)
    <3>1. ASSUME NEW b \in 1 .. n, ~(IdxLen(buckets'[b]) > Len(buckets'[b].data))
          PROVE  IdxLen(buckets'[b]) <= Len(buckets'[b].data)
      <4>1. buckets'[b] \in Bucket
        BY <1>12
      <4>2. buckets'[b].begin_idx \in Nat /\ buckets'[b].end_idx \in Nat /\ Len(buckets'[b].data) \in Nat
        BY <1>10, <1>12, <4>1, <1>6 DEF Bucket
      <4>3. IdxLen(buckets'[b]) \in Int
        BY <4>2 DEF IdxLen
      <4> QED BY <3>1, <4>2, <4>3
    <3> QED BY <3>1
  <2>3. spray' = [s |-> s, idx_len |-> idx_len, tight |-> t]
    BY <1>2
  <2> HIDE DEF t
  <2>4. spray'.s = s /\ spray'.idx_len = idx_len /\ spray'.tight = t
    BY <2>3
  <2>5. spray' \in [s : Nat, idx_len : Nat, tight : BOOLEAN]
    BY <1>12, <2>1, <2>3
  <2> QED BY <2>1, <2>2, <2>4, <2>5
<1>17. Placement'
  <2>1. Tight => Tight'
    BY <1>6, <1>16 DEF Tight
  <2>2. Sources' = temp'
    BY <1>6 DEF Sources
  <2>3. /\ UNCHANGED <<job, arr_out, cur, new_temp>> /\ pc # "done" /\ pc' # "done"
        /\ read_idx' = 0 /\ temp' = [temp EXCEPT ![cur] = bucket] /\ Rearranged(bucket, temp[cur])
        /\ \A b \in DOMAIN q' : q'[b] = << >>
    BY <1>1, <1>14
  <2> QED BY ONLY <1>4, <1>5, <1>13, <2>1, <2>2, <2>3, RearrangedMoves
<1>18. TypeOK'
  <2>1. q' \in [1 .. Len(buckets') -> Seq(Elements)]
    BY <1>12, <1>14
  <2> QED BY <1>1, <1>4, <1>6, <1>12, <1>14, <1>15, <2>1 DEF TypeOK
<1>19. RangesSplit'
  <2>1. Split(temp', 0, len)
    <3>1. ASSUME NEW b \in 1 .. Len(temp)
          PROVE  /\ temp'[b].begin_idx = temp[b].begin_idx /\ temp'[b].end_idx = temp[b].end_idx
                 /\ \A k \in DOMAIN temp'[b].data :
                      \/ IsHole(temp'[b].data[k])
                      \/ temp'[b].data[k].perm \in temp[b].begin_idx .. temp[b].end_idx - 1
      <4>1. \A k \in DOMAIN temp[b].data :
              \/ IsHole(temp[b].data[k])
              \/ temp[b].data[k].perm \in temp[b].begin_idx .. temp[b].end_idx - 1
        BY <1>4 DEF Split
      <4>2. CASE b # cur
        BY <1>4, <1>15, <4>1, <4>2
      <4>3. CASE b = cur
        <5>1. PICK p \in [DOMAIN temp[cur].data -> DOMAIN temp[cur].data] :
                \A k \in DOMAIN temp[cur].data : bucket.data[k] = temp[cur].data[p[k]]
          BY DEF Rearranged
        <5>2. DOMAIN bucket.data = DOMAIN temp[cur].data
          <6>1. bucket.data \in Seq(Cells) /\ temp[cur].data \in Seq(Cells)
            BY <1>5, <1>7 DEF Bucket
          <6> QED BY <1>7, <6>1, SeqFacts
        <5>3. temp'[b] = bucket /\ bucket.begin_idx = temp[b].begin_idx /\ bucket.end_idx = temp[b].end_idx
          BY <1>7, <1>15, <4>3
        <5>4. ASSUME NEW k \in DOMAIN bucket.data
              PROVE  \/ IsHole(bucket.data[k])
                     \/ bucket.data[k].perm \in temp[b].begin_idx .. temp[b].end_idx - 1
          <6> PICK j : j = p[k]
            OBVIOUS
          <6>1. j \in DOMAIN temp[b].data /\ bucket.data[k] = temp[b].data[j]
            BY <4>3, <5>1, <5>2
          <6> QED BY <4>1, <6>1
        <5> QED BY <5>3, <5>4
      <4> QED BY <4>2, <4>3
    <3> QED BY ONLY <1>4, <1>15, <3>1, SplitStays
  <2>2. Split(buckets', temp'[cur].begin_idx, temp'[cur].end_idx)
    BY <1>12, <1>15
  <2>3. Split(new_temp, 0, temp'[cur].begin_idx)
    BY <1>4, <1>7, <1>15
  <2>4. cur <= Len(temp')
    BY <1>15
  <2> QED BY <1>1, <1>6, <2>1, <2>2, <2>3, <2>4 DEF RangesSplit
<1>20. QueuesInRange'
  BY <1>14 DEF QueuesInRange
<1>21. SprayOK'
  <2>1. Divided(buckets', from, IdxLen(temp'[cur]), spray'.idx_len)
    BY <1>8, <1>12, <1>15, <1>16
  <2>2. \A b \in 1 .. n : Len(temp'[cur].data) <= Len(buckets'[b].data) * spray'.s
    BY <1>10, <1>12, <1>15, <1>16
  <2>3. Len(temp'[cur].data) \in Nat \ {0}
    BY <1>7, <1>8, <1>15
  <2>4. 0 * s + 0 = 0
    OBVIOUS
  <2>5. cur <= Len(temp') /\ Len(buckets') > 0
    BY <1>9, <1>12, <1>15
  <2>6. \A b \in DOMAIN q' : \A k \in DOMAIN q'[b] :
          q'[b][k].perm \in temp'[cur].begin_idx .. temp'[cur].end_idx - 1
    BY <1>14
  <2>7. 0 < Len(temp'[cur].data) /\ 0 <= Len(temp'[cur].data) /\ 0 < s
    BY <2>3
  <2>8. ~spray'.tight => \A b \in DOMAIN buckets' : IdxLen(buckets'[b]) <= Len(buckets'[b].data)
    BY <1>12, <1>16
  <2>9. \A b \in DOMAIN buckets' : Len(temp'[cur].data) <= Len(buckets'[b].data) * spray'.s
    BY <1>12, <2>2
  <2>10. /\ read_idx' = write_idx' * spray'.s + i' /\ Cardinality(Blocks(q')) <= read_idx'
    BY <1>1, <1>14, <1>16, <2>4
  <2>11. Divided(buckets, temp[cur].begin_idx, IdxLen(temp[cur]), spray.idx_len)'
    BY <1>1, <1>15, <2>1
  <2>12. read_idx' <= Len(temp'[cur].data) /\ read_idx' < Len(temp'[cur].data) /\ i' < spray'.s
    BY <1>1, <1>16, <2>7
  <2> QED BY <1>1, <1>13, <1>16, <2>5, <2>6, <2>8, <2>9, <2>10, <2>11, <2>12 DEF SprayOK
<1>22. CacheOK'
  <2>1. Spraying'
    BY <1>1 DEF Spraying
  <2>2. /\ \A b \in DOMAIN temp' : Len(temp'[b].data) > 0
        /\ \A b \in DOMAIN new_temp : Len(new_temp[b].data) > 0
        /\ \A b \in DOMAIN buckets' : Len(buckets'[b].data) > 0
    <3>1. \A b \in DOMAIN temp : Len(temp[b].data) > 0
      BY <1>4 DEF CacheOK
    <3>2. \A b \in DOMAIN new_temp : Len(new_temp[b].data) > 0
      BY <1>4 DEF CacheOK
    <3>3. \A b \in DOMAIN buckets' : Len(buckets'[b].data) > 0
      BY <1>10, <1>12
    <3>4. \A b \in DOMAIN temp' : Len(temp'[b].data) > 0
      BY <1>7, <1>15, <3>1
    <3> QED BY <3>2, <3>3, <3>4
  <2>3. len # 1
    BY <1>4 DEF CacheOK
  <2>4. cur > 1 => new_temp # << >>
    BY <1>4 DEF CacheOK
  <2>5. Len(temp') > 0 /\ cur <= Len(temp') + 1
    BY <1>4, <1>15
  <2> QED BY <1>1, <1>6, <1>16, <1>21, <2>1, <2>2, <2>3, <2>4, <2>5 DEF CacheOK
<1> QED BY <1>6, <1>17, <1>18, <1>19, <1>20, <1>22 DEF ShuffleInv

\* The first spray takes the input as it is.
LEMMA FirstSprayKeeps ==
  ASSUME ShuffleInv, ~IsMelbourne, FirstSpray
  PROVE  ShuffleInv'
<1> PICK n : n = find_suitable_partitions(len, Min({Q, len}))
  OBVIOUS
<1> PICK m : m = Min({Q, len})
  OBVIOUS
<1>1. pc = "first" /\ StartSpray(temp[1], S, n)
  BY DEF FirstSpray
<1>2. ~Spraying
  BY <1>1 DEF Spraying
<1>3. CacheOK /\ JobOK /\ temp \in Seq(Bucket) /\ Len(temp) \in Nat \ {0}
  BY <1>2, BetweenSprays
<1>4. temp = <<init_shuffle_bucket(job.perm)>> /\ cur = 1
  BY <1>1, <1>3 DEF CacheOK
<1>5. S \in Nat \ {0} /\ m \in 1 .. len /\ len \in Nat \ {0}
  BY <1>3, CacheNumbers, JobFacts
<1>6. temp[1] \in Bucket /\ IdxLen(temp[1]) = len /\ temp[cur] = temp[1] /\ cur <= Len(temp)
  <2>1. temp[1] = init_shuffle_bucket(job.perm) /\ Len(temp) = 1
    BY <1>4
  <2>2. temp[1] \in Bucket /\ temp[1].begin_idx = 0 /\ temp[1].end_idx = len
    BY <1>3, <2>1, InputFacts
  <2> QED BY <1>4, <1>5, <2>1, <2>2 DEF IdxLen
<1>7. Rearranged(temp[1], temp[1])
  <2> DEFINE p == [k \in DOMAIN temp[1].data |-> k]
  <2>1. /\ p \in [DOMAIN temp[1].data -> DOMAIN temp[1].data]
        /\ \A k \in DOMAIN temp[1].data : p[k] = k
    OBVIOUS
  <2> HIDE DEF p
  <2> QED BY <1>6, <2>1 DEF Rearranged
<1>8. pc \in {"first", "round"} /\ n = find_suitable_partitions(IdxLen(temp[1]), m)
      /\ m \in 1 .. IdxLen(temp[1]) /\ Rearranged(temp[1], temp[cur]) /\ cur <= Len(temp)
  BY <1>1, <1>5, <1>6, <1>7
<1>9. ShuffleInv /\ ~IsMelbourne
  OBVIOUS
<1> QED BY ONLY <1>1, <1>5, <1>8, <1>9, StartSprayKeeps

\* Later sprays take their bucket in a random order.
LEMMA ResprayKeeps ==
  ASSUME ShuffleInv, ~IsMelbourne, Respray
  PROVE  ShuffleInv'
<1> PICK m : m = Min({S, IdxLen(temp[cur])})
  OBVIOUS
<1> PICK n : n = find_suitable_partitions(IdxLen(temp[cur]), m)
  OBVIOUS
<1>1. /\ pc = "round" /\ cur <= Len(temp) /\ IdxLen(temp[cur]) > job.mem_cap
      /\ \E b \in randomize_shuffle_bucket(temp[cur]) : StartSpray(b, n, n)
  BY DEF Respray
<1>2. PICK bucket \in randomize_shuffle_bucket(temp[cur]) : StartSpray(bucket, n, n)
  BY <1>1
<1>3. ~Spraying
  BY <1>1 DEF Spraying
<1>4. /\ JobOK /\ temp \in Seq(Bucket) /\ cur \in Nat \ {0} /\ DOMAIN temp = 1 .. Len(temp)
      /\ Len(temp) \in Nat \ {0} /\ Split(temp, 0, len)
  BY <1>3, BetweenSprays
<1>5. cur \in DOMAIN temp /\ temp[cur] \in Bucket
  BY <1>1, <1>4
<1>6. IdxLen(temp[cur]) \in Nat \ {0}
  <2>1. temp[cur].begin_idx \in Nat /\ temp[cur].end_idx \in Nat
    BY <1>5 DEF Bucket
  <2>2. temp[cur].begin_idx < temp[cur].end_idx
    BY <1>4, <1>5 DEF Split
  <2> QED BY <2>1, <2>2 DEF IdxLen
<1>7. S \in Nat \ {0}
  BY <1>4, CacheNumbers, JobFacts
<1>8. m \in 1 .. IdxLen(temp[cur])
  <2>1. m = IF S <= IdxLen(temp[cur]) THEN S ELSE IdxLen(temp[cur])
    BY <1>6, <1>7, MinMaxOfTwo
  <2> QED BY <1>6, <1>7, <2>1
<1>9. n \in Nat \ {0}
  <2>1. n \in 1 .. m
    BY <1>6, <1>8, SuitablePartitions
  <2> QED BY <1>6, <1>8, <2>1
<1>10. Rearranged(bucket, temp[cur])
  BY <1>2, <1>5, Randomized DEF Rearranged
<1>11. IdxLen(bucket) = IdxLen(temp[cur])
  BY <1>10 DEF Rearranged, IdxLen
<1>12. /\ pc \in {"first", "round"} /\ n = find_suitable_partitions(IdxLen(bucket), m)
       /\ m \in 1 .. IdxLen(bucket) /\ cur <= Len(temp)
  BY <1>1, <1>8, <1>11
<1>13. ShuffleInv /\ ~IsMelbourne
  OBVIOUS
<1> QED BY ONLY <1>2, <1>9, <1>10, <1>12, <1>13, StartSprayKeeps

-----------------------------------------------------------------------------
(* Aborts of the cache shuffle *)

\* A bucket that a spray reads from holds an element that is in no queue, so that
\* full queues and the element are one more than the queues hold.
LEMMA RangeIsLonger ==
  ASSUME ShuffleInv, ~IsMelbourne, pc = "read", NEW c \in Nat, Cardinality(Blocks(q)) = c,
         ~IsHole(temp[cur].data[read_idx + 1])
  PROVE  IdxLen(temp[cur]) > c
<1> PICK e : e = temp[cur].data[read_idx + 1]
  OBVIOUS
<1> PICK from : from = temp[cur].begin_idx
  OBVIOUS
<1> PICK to : to = temp[cur].end_idx
  OBVIOUS
<1> DEFINE z == <<0, 0>>
           T == Blocks(q) \cup {z}
           g == [x \in T |-> IF x = z THEN e.perm ELSE q[x[1]][x[2]].perm]
<1>1. Spraying
  BY DEF Spraying
<1>2. /\ TypeOK /\ SprayOK /\ Placement /\ Sources = temp /\ JobOK
      /\ cur \in DOMAIN temp /\ temp[cur] \in Bucket /\ DOMAIN temp = 1 .. Len(temp)
      /\ DOMAIN q = 1 .. Len(buckets) /\ Len(buckets) \in Nat /\ IsFiniteSet(Blocks(q))
      /\ q \in [1 .. Len(buckets) -> Seq(Elements)]
      /\ Split(temp, 0, len) /\ read_idx \in Nat /\ cur \in Nat
      /\ Len(temp[cur].data) \in Nat /\ DOMAIN temp[cur].data = 1 .. Len(temp[cur].data)
  BY <1>1, InSpray
<1>3. read_idx < Len(temp[cur].data)
  BY <1>2 DEF SprayOK
<1>4. read_idx + 1 \in DOMAIN temp[cur].data
  BY <1>2, <1>3
<1>5. from \in Nat /\ to \in Nat /\ from < to /\ e.perm \in from .. to - 1
  <2>1. from \in Nat /\ to \in Nat
    BY <1>2 DEF Bucket
  <2>2. from < to /\ (IsHole(e) \/ e.perm \in from .. to - 1)
    BY <1>2, <1>4 DEF Split
  <2> QED BY <2>1, <2>2
<1>6. \A b \in DOMAIN q : \A k \in DOMAIN q[b] : q[b][k].perm \in from .. to - 1 /\ ~IsHole(q[b][k])
  <2> SUFFICES ASSUME NEW b \in DOMAIN q, NEW k \in DOMAIN q[b]
               PROVE  q[b][k].perm \in from .. to - 1 /\ ~IsHole(q[b][k])
    OBVIOUS
  <2>1. q[b][k].perm \in from .. to - 1
    BY <1>2 DEF SprayOK
  <2>2. q[b][k].perm # -1
    BY <1>5, <2>1
  <2> QED BY <2>1, <2>2 DEF IsHole
<1>7. ASSUME NEW x \in Blocks(q)
      PROVE  /\ x[1] \in DOMAIN q /\ x[2] \in DOMAIN q[x[1]] /\ x = <<x[1], x[2]>> /\ x # z
             /\ <<"queue", x[1], x[2]>> \in Places
             /\ At(<<"queue", x[1], x[2]>>) = q[x[1]][x[2]]
  <2>1. PICK b \in DOMAIN q : x \in {b} \X DOMAIN q[b]
    BY DEF Blocks
  <2>2. x[1] = b /\ x[2] \in DOMAIN q[b] /\ x = <<x[1], x[2]>>
    BY <2>1
  <2>3. b # 0
    BY <1>2
  <2>4. pc # "done"
    OBVIOUS
  <2>5. <<"queue", b, x[2]>> \in Places /\ At(<<"queue", b, x[2]>>) = q[b][x[2]]
    BY <1>6, <2>2, <2>4, PlacesAre DEF PlacesHeld
  <2> QED BY <2>2, <2>3, <2>5
<1>8. /\ <<"source", cur, read_idx + 1>> \in Places
      /\ At(<<"source", cur, read_idx + 1>>) = e
  <2>1. ~(cur < cur) /\ ~(read_idx + 1 <= read_idx) /\ pc # "done"
    BY <1>2
  <2> QED BY <1>2, <1>4, <2>1, PlacesAre DEF PlacesHeld
<1>9. Alone
  BY <1>2 DEF Placement
<1>10. \A x \in T : g[x] \in from .. to - 1
  <2> SUFFICES ASSUME NEW x \in T PROVE g[x] \in from .. to - 1
    OBVIOUS
  <2>1. CASE x = z
    BY <1>5, <2>1
  <2>2. CASE x # z
    <3>1. x \in Blocks(q) /\ g[x] = q[x[1]][x[2]].perm
      BY <2>2
    <3> QED BY <1>6, <1>7, <3>1
  <2> QED BY <2>1, <2>2
<1>11. \A x \in Blocks(q) : g[x] = At(<<"queue", x[1], x[2]>>).perm
  BY <1>7
<1>12. g[z] = At(<<"source", cur, read_idx + 1>>).perm
  BY <1>8
<1>13. \A x \in T : x \in Blocks(q) \/ x = z
  OBVIOUS
<1>14. z \notin Blocks(q)
  BY <1>7
<1> HIDE DEF g, z
<1>15. ASSUME NEW x \in Blocks(q), NEW y \in Blocks(q), g[x] = g[y] PROVE x = y
  <2>1. <<"queue", x[1], x[2]>> = <<"queue", y[1], y[2]>>
    BY <1>7, <1>9, <1>11, <1>15 DEF Alone
  <2>2. x[1] = y[1] /\ x[2] = y[2]
    BY <2>1
  <2> QED BY <1>7, <2>2
<1>16. ASSUME NEW x \in Blocks(q) PROVE g[x] # g[z]
  <2>1. <<"queue", x[1], x[2]>> # <<"source", cur, read_idx + 1>>
    OBVIOUS
  <2> QED BY <1>7, <1>8, <1>9, <1>11, <1>12, <2>1 DEF Alone
<1>17. \A x, y \in T : g[x] = g[y] => x = y
  BY <1>13, <1>15, <1>16
<1>18. Cardinality(T) = c + 1
  BY <1>2, <1>14, FS_AddElement
<1> HIDE DEF T
<1>19. Cardinality(T) <= to - from
  BY ONLY <1>5, <1>10, <1>17, RangeHolds
<1> QED BY <1>5, <1>18, <1>19 DEF IdxLen

-----------------------------------------------------------------------------
(* The passes of a spray: reading *)

\* What a step of the spray leaves as it is when it changes neither source nor
\* next round: the call, and the ranges there.
LEMMA SprayStays ==
  ASSUME ShuffleInv, ~IsMelbourne, Spraying, UNCHANGED <<job, temp, cur, new_temp, spray>>
  PROVE  /\ ~IsMelbourne' /\ len' = len /\ JobOK' /\ Positions' = Positions
         /\ Elements' = Elements /\ Cells' = Cells /\ Bucket' = Bucket
         /\ Sources' = Sources /\ Tight' = Tight
         /\ Split(temp, 0, len)' /\ Split(new_temp, 0, IF cur <= Len(temp) THEN temp[cur].begin_idx ELSE len)'
<1>1. JobOK /\ Split(temp, 0, len) /\ Sources = temp /\ RangesSplit
  BY InSpray
<1>2. ~IsMelbourne' /\ len' = len /\ JobOK' /\ Positions' = Positions
      /\ Elements' = Elements /\ Cells' = Cells /\ Bucket' = Bucket
  BY <1>1, JobStays
<1>3. Sources' = Sources /\ Tight' = Tight
  BY <1>2 DEF Sources, Tight
<1>4. Split(temp, 0, len)' /\ Split(new_temp, 0, IF cur <= Len(temp) THEN temp[cur].begin_idx ELSE len)'
  BY <1>1, <1>2 DEF Split, RangesSplit
<1> QED BY <1>2, <1>3, <1>4

\* The parts of the invariant that the cache shuffle's steps of a spray keep alike.
LEMMA SprayGoesOn ==
  ASSUME ShuffleInv, ~IsMelbourne, Spraying, UNCHANGED <<job, temp, cur, new_temp, spray>>,
         SameRanges(buckets', buckets), pc' \in {"read", "write", "refill", "aborted"}
  PROVE  /\ \A b \in DOMAIN buckets' : Len(buckets'[b].data) > 0
         /\ SprayOK' => CacheOK'
         /\ Divided(buckets', temp[cur].begin_idx, IdxLen(temp[cur]), spray.idx_len)
         /\ \A b \in DOMAIN buckets' : Len(temp[cur].data) <= Len(buckets'[b].data) * spray.s
         /\ ~spray.tight => \A b \in DOMAIN buckets' : IdxLen(buckets'[b]) <= Len(buckets'[b].data)
<1>1. CacheOK /\ SprayOK
  BY InSpray
<1>2. \A b \in DOMAIN buckets' : Len(buckets'[b].data) > 0
  BY <1>1 DEF CacheOK, SameRanges
<1>3. Spraying'
  BY DEF Spraying
<1>4. SprayOK' => CacheOK'
  <2>1. pc' \in {"read", "write", "refill", "aborted"} /\ pc \in {"read", "write", "refill", "aborted"}
    BY DEF Spraying
  <2>2. /\ Len(temp) > 0 /\ cur <= Len(temp) + 1
        /\ spray \in [s : Nat, idx_len : Nat, tight : BOOLEAN]
        /\ \A b \in DOMAIN temp : Len(temp[b].data) > 0
        /\ \A b \in DOMAIN new_temp : Len(new_temp[b].data) > 0
        /\ (cur > 1 => new_temp # << >>) /\ len # 1
    BY <1>1, <2>1 DEF CacheOK, Spraying
  <2>3. len' = len
    BY DEF len
  <2> QED BY <1>2, <1>3, <2>1, <2>2, <2>3 DEF CacheOK
<1>5. Divided(buckets', temp[cur].begin_idx, IdxLen(temp[cur]), spray.idx_len)
  <2>1. Divided(buckets, temp[cur].begin_idx, IdxLen(temp[cur]), spray.idx_len)
    BY <1>1 DEF SprayOK
  <2> QED BY <2>1, DividedStays
<1>6. /\ \A b \in DOMAIN buckets : Len(temp[cur].data) <= Len(buckets[b].data) * spray.s
      /\ ~spray.tight => \A b \in DOMAIN buckets : IdxLen(buckets[b]) <= Len(buckets[b].data)
  BY <1>1 DEF SprayOK
<1> QED BY <1>2, <1>4, <1>5, <1>6 DEF SameRanges, IdxLen

\* An element of the pass goes to its bucket's queue, a hole is read over, or the
\* program gives up because the queues are full.
LEMMA SprayReadKeeps ==
  ASSUME ShuffleInv, ~IsMelbourne, SprayRead
  PROVE  ShuffleInv'
<1> PICK e : e = temp[cur].data[read_idx + 1]
  OBVIOUS
<1> PICK n : n = Len(buckets)
  OBVIOUS
<1> PICK from : from = temp[cur].begin_idx
  OBVIOUS
<1> PICK to : to = temp[cur].end_idx
  OBVIOUS
<1> PICK m : m = Len(temp[cur].data)
  OBVIOUS
<1> PICK s : s = spray.s
  OBVIOUS
<1>1. /\ pc = "read" /\ UNCHANGED <<job, write_idx, buckets, bucket_idx, arr_out, temp, cur, new_temp, spray>>
  BY DEF SprayRead
<1>2. Spraying
  BY <1>1 DEF Spraying
<1>3. /\ TypeOK /\ SprayOK /\ CacheOK /\ RangesSplit /\ QueuesInRange /\ Placement /\ JobOK /\ Sources = temp
      /\ cur \in DOMAIN temp /\ temp[cur] \in Bucket /\ cur \in Nat \ {0} /\ DOMAIN temp = 1 .. Len(temp)
      /\ temp \in Seq(Bucket) /\ buckets \in Seq(Bucket) /\ n \in Nat \ {0}
      /\ DOMAIN q = 1 .. n /\ DOMAIN buckets = 1 .. n /\ IsFiniteSet(Blocks(q)) /\ q \in [1 .. n -> Seq(Elements)]
      /\ Split(temp, 0, len) /\ Split(buckets, from, to)
      /\ read_idx \in Nat /\ i \in Nat /\ write_idx \in Nat /\ m \in Nat /\ DOMAIN temp[cur].data = 1 .. m
  BY <1>2, InSpray
<1>4. /\ read_idx < m /\ i < s /\ s \in Nat \ {0} /\ read_idx = write_idx * s + i
      /\ Cardinality(Blocks(q)) <= read_idx /\ bucket_idx = 1
      /\ Divided(buckets, from, to - from, spray.idx_len)
      /\ \A b \in DOMAIN q : \A k \in DOMAIN q[b] : q[b][k].perm \in from .. to - 1
      /\ \A b \in DOMAIN buckets : \A k \in DOMAIN buckets[b].data :
           k > write_idx => IsHole(buckets[b].data[k])
  BY <1>1, <1>3 DEF SprayOK, IdxLen
<1>5. /\ read_idx \in Nat /\ i \in Nat /\ write_idx \in Nat /\ m \in Nat /\ DOMAIN temp[cur].data = 1 .. m
      /\ read_idx < m /\ i < s /\ s \in Nat \ {0} /\ read_idx = write_idx * s + i
      /\ Cardinality(Blocks(q)) <= read_idx
  BY <1>3, <1>4
<1>6. read_idx + 1 \in DOMAIN temp[cur].data
  BY ONLY <1>5
<1>7. /\ ~IsMelbourne' /\ len' = len /\ JobOK' /\ Positions' = Positions
      /\ Elements' = Elements /\ Cells' = Cells /\ Bucket' = Bucket
      /\ Sources' = Sources /\ Tight' = Tight
      /\ Split(temp, 0, len)' /\ Split(new_temp, 0, IF cur <= Len(temp) THEN temp[cur].begin_idx ELSE len)'
  BY <1>1, <1>2, SprayStays
<1>8. RangesSplit'
  <2>1. Split(buckets, temp[cur].begin_idx, temp[cur].end_idx)'
    BY <1>1, <1>3, <1>7 DEF Split
  <2> QED BY <1>7, <2>1 DEF RangesSplit
<1>9. SameRanges(buckets', buckets)
  BY <1>1, <1>3 DEF SameRanges
<1>10. pc' \in {"read", "write", "refill", "aborted"}
  BY DEF SprayRead
<1>11. SprayOK' => CacheOK'
  BY <1>1, <1>2, <1>9, <1>10, SprayGoesOn
<1>12. /\ cur <= Len(temp) /\ \A b \in DOMAIN buckets : m <= Len(buckets[b].data) * s
       /\ ~spray.tight => \A b \in DOMAIN buckets : IdxLen(buckets[b]) <= Len(buckets[b].data)
  BY <1>3 DEF SprayOK
<1>13. pc # "done" /\ pc' # "done"
  BY <1>1, <1>10
<1>14. CASE ~IsHole(e) /\ QueueFull(q, Capacity(s))
  <2>1. pc' = "aborted" /\ UNCHANGED <<read_idx, i, q>>
    BY <1>14 DEF SprayRead
  <2>2. Cardinality(Blocks(q)) = 2 * s
    BY <1>14 DEF QueueFull, Capacity
  <2>3. 2 * s \in Nat
    BY <1>4
  <2>4. IdxLen(temp[cur]) > 2 * s
    <3>1. ~IsHole(temp[cur].data[read_idx + 1])
      BY <1>14
    <3> HIDE DEF IdxLen
    <3> QED BY <1>1, <2>2, <2>3, <3>1, RangeIsLonger
  <2>5. TypeOK'
    BY <1>1, <1>3, <1>7, <2>1 DEF TypeOK
  <2>6. SprayOK'
    <3>1. read_idx >= 2 * s
      BY <1>3, <1>4, <2>2, <2>3
    <3>2. Divided(buckets, temp[cur].begin_idx, IdxLen(temp[cur]), spray.idx_len)'
      BY <1>1, <1>4 DEF Divided, IdxLen
    <3>3. /\ \A b \in DOMAIN buckets' : Len(temp'[cur'].data) <= Len(buckets'[b].data) * spray'.s
          /\ ~spray'.tight => \A b \in DOMAIN buckets' : IdxLen(buckets'[b]) <= Len(buckets'[b].data)
          /\ cur' <= Len(temp') /\ Len(buckets') > 0 /\ spray'.s \in Nat \ {0}
      BY <1>1, <1>3, <1>4, <1>12
    <3>4. /\ \A b \in DOMAIN q' : \A k \in DOMAIN q'[b] :
               q'[b][k].perm \in temp'[cur'].begin_idx .. temp'[cur'].end_idx - 1
          /\ read_idx' <= Len(temp'[cur'].data)
      BY <1>1, <1>3, <1>4, <2>1
    <3>5. read_idx' >= 2 * spray'.s /\ IdxLen(temp'[cur']) > 2 * spray'.s
      BY <1>1, <2>1, <2>4, <3>1
    <3> QED BY <2>1, <3>2, <3>3, <3>4, <3>5 DEF SprayOK
  <2>7. QueuesInRange'
    BY <1>1, <1>3, <2>1 DEF QueuesInRange
  <2>8. Placement'
    BY <1>1, <1>3, <1>7, <1>13, <2>1, StaysPut
  <2> QED BY <1>7, <1>8, <1>11, <2>5, <2>6, <2>7, <2>8 DEF ShuffleInv
<1>15. CASE ~(~IsHole(e) /\ QueueFull(q, Capacity(s)))
  <2> PICK b : b = BucketOf(e.perm - from, spray.idx_len, n)
    OBVIOUS
  <2>1. Len(q) = n
    BY <1>3
  <2>2. /\ q' = IF IsHole(e) THEN q ELSE PushBack(q, b, e)
        /\ read_idx' = read_idx + 1 /\ i' = i + 1
        /\ pc' = IF i' < s /\ read_idx' < m THEN "read" ELSE "write"
    BY <1>15, <2>1 DEF SprayRead
  <2>3. ASSUME ~IsHole(e)
        PROVE  /\ e \in Elements /\ b \in 1 .. n /\ e.perm \in from .. to - 1
               /\ e.perm \in buckets[b].begin_idx .. buckets[b].end_idx - 1
               /\ q' \in [1 .. n -> Seq(Elements)] /\ Pushed(q', q, n, b, e)
               /\ IsFiniteSet(Blocks(q')) /\ Cardinality(Blocks(q')) = Cardinality(Blocks(q)) + 1
    <3>1. e \in Elements
      <4>1. e \in Cells
        BY <1>3, <1>6, SlotFacts
      <4> QED BY <1>3, <2>3, <4>1, ElementFacts
    <3>2. from \in Nat /\ to \in Nat
      BY <1>3 DEF Bucket
    <3>3. e.perm \in from .. to - 1
      BY <1>3, <1>6, <2>3 DEF Split
    <3> PICK x : x = e.perm - from
      OBVIOUS
    <3> PICK r : r = e.perm
      OBVIOUS
    <3>4. r \in from .. to - 1 /\ x = r - from
      BY <3>3
    <3>5. x \in 0 .. (to - from) - 1 /\ from + x = r
      BY ONLY <3>2, <3>4
    <3>6. x \in 0 .. (to - from) - 1 /\ from + x = e.perm
      BY <3>5
    <3>7. b \in DOMAIN buckets /\ from + x \in buckets[b].begin_idx .. buckets[b].end_idx - 1
      BY <1>4, <3>6 DEF Divided
    <3>8. b \in 1 .. n /\ q' = PushBack(q, b, e)
      BY <1>3, <2>2, <2>3, <3>7
    <3>9. q \in [1 .. n -> Seq(Elements)] /\ IsFiniteSet(Blocks(q))
      BY <1>3
    <3>10. /\ q' \in [1 .. n -> Seq(Elements)] /\ Pushed(q', q, n, b, e)
          /\ IsFiniteSet(Blocks(q')) /\ Cardinality(Blocks(q')) = Cardinality(Blocks(q)) + 1
      BY ONLY <3>1, <3>8, <3>9, PushBackFacts
    <3> QED BY <3>1, <3>3, <3>6, <3>7, <3>8, <3>10
  <2>4. /\ q' \in [1 .. n -> Seq(Elements)] /\ IsFiniteSet(Blocks(q'))
        /\ Cardinality(Blocks(q')) <= read_idx + 1 /\ DOMAIN q' = 1 .. n
    <3>1. CASE IsHole(e)
      <4>1. q' = q
        BY <2>2, <3>1
      <4>2. Cardinality(Blocks(q)) \in Nat
        BY <1>3, FS_CardinalityType
      <4>3. Cardinality(Blocks(q)) <= read_idx + 1
        BY <1>5, <4>2
      <4> QED BY <1>3, <4>1, <4>3
    <3>2. CASE ~IsHole(e)
      <4>1. Cardinality(Blocks(q)) \in Nat
        BY <1>3, FS_CardinalityType
      <4>2. Cardinality(Blocks(q')) <= read_idx + 1
        <5> PICK c : c = Cardinality(Blocks(q))
          OBVIOUS
        <5> PICK d : d = Cardinality(Blocks(q'))
          OBVIOUS
        <5>1. c \in Nat /\ c <= read_idx /\ read_idx \in Nat
          BY <1>5, <4>1
        <5>2. d = c + 1
          BY <2>3, <3>2
        <5>3. d <= read_idx + 1
          BY ONLY <5>1, <5>2
        <5> QED BY <5>3
      <4> QED BY <2>3, <3>2, <4>2
    <3> QED BY <3>1, <3>2
  <2>5. TypeOK'
    BY <1>1, <1>3, <1>7, <2>2, <2>4 DEF TypeOK
  <2>6. QueuesInRange'
    <3>1. CASE IsHole(e)
      BY <1>1, <1>3, <2>2, <3>1 DEF QueuesInRange
    <3>2. CASE ~IsHole(e)
      <4>1. /\ QueuesInRange /\ buckets' = buckets
            /\ q \in [1 .. n -> Seq(Elements)] /\ q' \in [1 .. n -> Seq(Elements)]
            /\ b \in 1 .. n /\ Pushed(q', q, n, b, e)
            /\ e.perm \in buckets[b].begin_idx .. buckets[b].end_idx - 1
        BY <1>1, <1>3, <2>3, <3>2
      <4> QED BY ONLY <4>1, QueuesStayInRange
    <3> QED BY <3>1, <3>2
  <2>7. Placement'
    <3>1. CASE IsHole(e)
      <4>1. IsHole(Sources[cur].data[read_idx + 1])
        BY <1>3, <3>1
      <4>2. \A a \in DOMAIN Sources : DOMAIN Sources[a].data \subseteq Nat
        BY <1>3, SlotFacts
      <4>3. q' = q
        BY <2>2, <3>1
      <4> QED BY <1>1, <1>3, <1>7, <1>13, <2>2, <4>1, <4>2, <4>3, StaysPut
    <3>2. CASE ~IsHole(e)
      <4>1. /\ e \in Elements /\ e = Sources[cur].data[read_idx + 1] /\ b \in DOMAIN q
            /\ q' = PushBack(q, b, e) /\ read_idx' = read_idx + 1
            /\ cur \in DOMAIN Sources /\ read_idx + 1 \in DOMAIN Sources[cur].data
        BY <1>3, <1>6, <2>2, <2>3, <3>2
      <4>2. UNCHANGED <<job, arr_out, buckets, bucket_idx, cur, new_temp>>
        BY <1>1
      <4> QED BY ONLY <1>3, <1>7, <1>13, <4>1, <4>2, TakesOne
    <3> QED BY <3>1, <3>2
  <2>8. SprayOK'
    <3>1. Divided(buckets, temp[cur].begin_idx, IdxLen(temp[cur]), spray.idx_len)'
      BY <1>1, <1>4 DEF Divided, IdxLen
    <3>2. /\ \A a \in DOMAIN buckets' : Len(temp'[cur'].data) <= Len(buckets'[a].data) * spray'.s
          /\ ~spray'.tight => \A a \in DOMAIN buckets' : IdxLen(buckets'[a]) <= Len(buckets'[a].data)
          /\ cur' <= Len(temp') /\ Len(buckets') > 0 /\ spray'.s \in Nat \ {0}
      BY <1>1, <1>3, <1>4, <1>12
    <3>3. \A a \in DOMAIN q' : \A k \in DOMAIN q'[a] :
               q'[a][k].perm \in temp'[cur'].begin_idx .. temp'[cur'].end_idx - 1
      <4>1. CASE IsHole(e)
        BY <1>1, <1>3, <1>4, <2>2, <4>1
      <4>2. CASE ~IsHole(e)
        <5> SUFFICES ASSUME NEW a \in 1 .. n, NEW k \in DOMAIN q'[a]
                     PROVE  q'[a][k].perm \in from .. to - 1
          BY <1>1, <2>4
        <5>1. CASE a # b
          <6>1. q'[a] = q[a]
            BY <2>3, <4>2, <5>1 DEF Pushed
          <6> QED BY <1>3, <1>4, <6>1
        <5>2. CASE a = b /\ k = Len(q[b]) + 1
          BY <2>3, <4>2, <5>2 DEF Pushed
        <5>3. CASE a = b /\ k # Len(q[b]) + 1
          <6> PICK c : c = Len(q[b])
            OBVIOUS
          <6>1. c \in Nat /\ DOMAIN q[b] = 1 .. c
            BY <1>3, <5>3, SeqFacts
          <6>2. k \in 1 .. c + 1
            BY <2>3, <4>2, <5>3 DEF Pushed
          <6>3. k \in 1 .. c
            BY <5>3, <6>1, <6>2
          <6>4. q'[a][k] = q[b][k]
            BY <2>3, <4>2, <5>3, <6>3 DEF Pushed
          <6>5. b \in DOMAIN q /\ k \in DOMAIN q[b]
            BY <1>3, <5>3, <6>1, <6>3
          <6>6. q[b][k].perm \in from .. to - 1
            BY <1>4, <6>5
          <6> QED BY <6>4, <6>6
        <5> QED BY <5>1, <5>2, <5>3
      <4> QED BY <4>1, <4>2
    <3>4. /\ read_idx' <= m /\ (pc' = "read" => read_idx' < m /\ i' < s)
          /\ pc' = "write" => i' > 0 /\ (i' = s \/ read_idx' = m)
      <4>1. /\ read_idx' = read_idx + 1 /\ i' = i + 1
            /\ pc' = IF i' < s /\ read_idx' < m THEN "read" ELSE "write"
        BY <2>2
      <4> QED BY ONLY <1>5, <4>1
    <3>5. read_idx' = write_idx * s + i'
      <4> PICK a : a = write_idx * s
        OBVIOUS
      <4>1. a \in Nat
        BY <1>5, ProductNat
      <4>2. /\ read_idx \in Nat /\ i \in Nat /\ read_idx = a + i
            /\ read_idx' = read_idx + 1 /\ i' = i + 1
        BY <1>5, <2>2
      <4>3. read_idx' = a + i'
        BY ONLY <4>1, <4>2
      <4> QED BY <1>1, <4>3
    <3>6. pc' \in {"read", "write"}
      BY <2>2
    <3> QED BY <1>1, <1>4, <2>2, <2>4, <3>1, <3>2, <3>3, <3>4, <3>5, <3>6 DEF SprayOK
  <2> QED BY <1>7, <1>8, <1>11, <2>5, <2>6, <2>7, <2>8 DEF ShuffleInv
<1> QED BY <1>14, <1>15

-----------------------------------------------------------------------------
(* The passes of a spray: writing *)

\* What stays of a queue when its first element goes.
RestOf(s) == IF s = << >> THEN s ELSE Tail(s)

\* The elements of t are those of s but the first.
FollowsFirst(t, s, E) ==
  /\ t \in Seq(E) /\ Len(t) \in Nat /\ Len(t) <= Len(s) /\ Len(s) \in Nat
  /\ DOMAIN t = 1 .. Len(t) /\ DOMAIN s = 1 .. Len(s) /\ DOMAIN t \subseteq Nat \ {0}
  /\ \A k \in Nat \ {0} : k \in DOMAIN t <=> k + 1 \in DOMAIN s
  /\ \A k \in DOMAIN t : t[k] = s[k + 1] /\ k + 1 \in DOMAIN s

\* The rest of a queue follows its first element.
LEMMA RestOfQueue ==
  ASSUME NEW E, NEW s \in Seq(E)
  PROVE  FollowsFirst(RestOf(s), s, E)
<1>1. Len(s) \in Nat /\ DOMAIN s = 1 .. Len(s) /\ (s = << >> <=> Len(s) = 0)
  BY SeqFacts
<1>2. CASE s = << >>
  <2>1. RestOf(s) = s /\ Len(s) = 0
    BY <1>1, <1>2 DEF RestOf
  <2> QED BY <1>1, <2>1 DEF FollowsFirst
<1>3. CASE s # << >>
  <2> PICK t : t = Tail(s)
    OBVIOUS
  <2>1. t = RestOf(s)
    BY <1>3 DEF RestOf
  <2>2. t \in Seq(E) /\ Len(t) = Len(s) - 1
    BY <1>1, <1>3
  <2>3. DOMAIN t = 1 .. Len(t)
    BY <2>2, SeqFacts
  <2>4. \A k \in 1 .. Len(s) - 1 : t[k] = s[k + 1]
    BY <1>1, <1>3
  <2>5. FollowsFirst(t, s, E)
    BY <1>1, <1>3, <2>2, <2>3, <2>4 DEF FollowsFirst
  <2> QED BY <2>1, <2>5
<1> QED BY <1>2, <1>3

\* Queues whose first elements go hold elements of the same ranges as before.
LEMMA RestInRange ==
  ASSUME NEW n, NEW qs \in [1 .. n -> Seq(Elements)], NEW rs \in [1 .. n -> Seq(Elements)],
         \A b \in 1 .. n : rs[b] = qs[b] \/ rs[b] = RestOf(qs[b]),
         NEW from, NEW to,
         \A b \in 1 .. n : \A k \in DOMAIN qs[b] : qs[b][k].perm \in from[b] .. to[b] - 1
  PROVE  \A b \in 1 .. n : \A k \in DOMAIN rs[b] : rs[b][k].perm \in from[b] .. to[b] - 1
<1> SUFFICES ASSUME NEW b \in 1 .. n, NEW k \in DOMAIN rs[b],
                    rs[b] = RestOf(qs[b])
             PROVE  rs[b][k].perm \in from[b] .. to[b] - 1
  OBVIOUS
<1>1. rs[b][k] = qs[b][k + 1] /\ k + 1 \in DOMAIN qs[b]
  <2> PICK s : s = qs[b]
    OBVIOUS
  <2> PICK t : t = rs[b]
    OBVIOUS
  <2>1. s \in Seq(Elements) /\ t = RestOf(s)
    OBVIOUS
  <2>2. k \in DOMAIN t
    OBVIOUS
  <2>3. t[k] = s[k + 1] /\ k + 1 \in DOMAIN s
    BY <2>1, <2>2, RestOfQueue DEF FollowsFirst
  <2> QED BY <2>3
<1> QED BY <1>1

\* Each bucket of a spray gets the next element of its queue, or a hole.
LEMMA WritePassKeeps ==
  ASSUME ShuffleInv, ~IsMelbourne, WritePass
  PROVE  ShuffleInv'
<1> PICK n : n = Len(buckets)
  OBVIOUS
<1> PICK w : w = write_idx
  OBVIOUS
<1> PICK m : m = Len(temp[cur].data)
  OBVIOUS
<1> PICK s : s = spray.s
  OBVIOUS
<1> DEFINE d == [b \in 1 .. n |-> [k \in DOMAIN buckets[b].data |->
                   IF k = w + 1 THEN NthOrHole(q[b], 1) ELSE buckets[b].data[k]]]
<1>1. /\ pc = "write" /\ UNCHANGED <<job, read_idx, bucket_idx, arr_out, temp, cur, new_temp, spray>>
      /\ i' = 0 /\ IF read_idx < m THEN pc' = "read" /\ write_idx' = w + 1
                                   ELSE pc' = "refill" /\ write_idx' = 0
      /\ q' = [b \in DOMAIN q |-> RestOf(q[b])]
      /\ buckets' = [b \in DOMAIN buckets |->
                       [buckets[b] EXCEPT !.data[w + 1] = NthOrHole(q[b], 1)]]
  BY DEF WritePass, RestOf
<1>2. Spraying /\ pc' \in {"read", "write", "refill", "aborted"}
  BY <1>1 DEF Spraying
<1>3. /\ TypeOK /\ SprayOK /\ CacheOK /\ RangesSplit /\ QueuesInRange /\ Placement /\ JobOK
      /\ buckets \in Seq(Bucket) /\ n \in Nat \ {0}
      /\ DOMAIN q = 1 .. n /\ DOMAIN buckets = 1 .. n /\ IsFiniteSet(Blocks(q)) /\ q \in [1 .. n -> Seq(Elements)]
      /\ Split(buckets, temp[cur].begin_idx, temp[cur].end_idx)
  BY <1>2, InSpray
<1>4. /\ \A b \in DOMAIN q : \A k \in DOMAIN q[b] : 
           q[b][k].perm \in temp[cur].begin_idx .. temp[cur].end_idx - 1
      /\ \A b \in 1 .. n : m <= Len(buckets[b].data) * s
      /\ \A b \in DOMAIN buckets : \A k \in DOMAIN buckets[b].data : k > w => IsHole(buckets[b].data[k])
      /\ cur <= Len(temp)
  BY <1>1, <1>3 DEF SprayOK
<1>5. /\ read_idx \in Nat /\ i \in Nat /\ w \in Nat /\ m \in Nat /\ s \in Nat \ {0}
      /\ Cardinality(Blocks(q)) <= read_idx /\ bucket_idx = 1 /\ read_idx = w * s + i
      /\ read_idx <= m /\ i > 0 /\ (i = s \/ read_idx = m)
  BY <1>1, <1>2, InSpray DEF SprayOK
<1>6. /\ ~IsMelbourne' /\ len' = len /\ JobOK' /\ Positions' = Positions
      /\ Elements' = Elements /\ Cells' = Cells /\ Bucket' = Bucket
      /\ Sources' = Sources /\ Tight' = Tight
      /\ Split(temp, 0, len)' /\ Split(new_temp, 0, IF cur <= Len(temp) THEN temp[cur].begin_idx ELSE len)'
  BY <1>1, <1>2, SprayStays
<1>7. \A b \in 1 .. n : /\ DOMAIN buckets[b].data = 1 .. Len(buckets[b].data)
                        /\ Len(buckets[b].data) \in Nat
                        /\ \A k \in DOMAIN buckets[b].data : buckets[b].data[k] \in Cells
  BY <1>3, SlotFacts
<1>8. \A b \in 1 .. n : w + 1 \in DOMAIN buckets[b].data
  <2> TAKE b \in 1 .. n
  <2> PICK slots : slots = Len(buckets[b].data)
    OBVIOUS
  <2>1. slots \in Nat /\ m <= slots * s
    BY <1>4, <1>7
  <2>2. w < slots
    <3> SUFFICES ASSUME slots <= w PROVE FALSE
      BY <1>5, <2>1
    <3>1. slots \in Nat /\ w \in Nat /\ s \in Nat /\ slots <= w
      BY <1>5, <2>1
    <3>2. slots * s <= w * s
      BY ONLY <3>1, ProductMonotone
    <3>3. slots * s \in Nat /\ w * s \in Nat
      BY ONLY <3>1, ProductNat
    <3> PICK x : x = slots * s
      OBVIOUS
    <3> PICK y : y = w * s
      OBVIOUS
    <3>4. m <= x /\ x <= y /\ x \in Nat /\ y \in Nat /\ read_idx = y + i
      BY <1>5, <2>1, <3>2, <3>3
    <3> QED BY ONLY <1>5, <3>4
  <2>3. w + 1 \in 1 .. slots
    BY <1>5, <2>1, <2>2
  <2> QED BY <1>7, <2>3
<1>9. \A b \in 1 .. n : \A k \in DOMAIN buckets[b].data :
        d[b][k] = IF k = w + 1 THEN NthOrHole(q[b], 1) ELSE buckets[b].data[k]
  OBVIOUS
<1>10. \A b \in 1 .. n : d[b] = [k \in DOMAIN buckets[b].data |-> d[b][k]]
  OBVIOUS
<1>11. \A b \in 1 .. n : [buckets[b] EXCEPT !.data[w + 1] = NthOrHole(q[b], 1)] = [buckets[b] EXCEPT !.data = d[b]]
  <2> TAKE b \in 1 .. n
  <2>1. [buckets[b].data EXCEPT ![w + 1] = NthOrHole(q[b], 1)] = d[b]
    OBVIOUS
  <2> QED BY <2>1
<1> HIDE DEF d
<1>12. IsHole(Hole) /\ Hole \in Cells /\ Elements \subseteq Cells
  BY DEF IsHole, Hole, Cells
<1>13. \A b \in 1 .. n : /\ Len(q[b]) \in Nat /\ DOMAIN q[b] = 1 .. Len(q[b])
                         /\ \A k \in DOMAIN q[b] : q[b][k] \in Elements
  BY <1>3, SeqFacts
<1>14. ASSUME NEW b \in 1 .. n
       PROVE  /\ 1 \in DOMAIN q[b] => d[b][w + 1] = q[b][1] /\ d[b][w + 1] \in Cells
              /\ 1 \notin DOMAIN q[b] => d[b][w + 1] = Hole
  <2>1. d[b][w + 1] = IF 1 <= Len(q[b]) THEN q[b][1] ELSE Hole
    BY <1>8, <1>9 DEF NthOrHole
  <2>2. 1 \in DOMAIN q[b] <=> 1 <= Len(q[b])
    BY <1>13
  <2> QED BY <1>12, <1>13, <2>1, <2>2
<1>15. CellsFor(d, buckets)
  <2> SUFFICES ASSUME NEW b \in 1 .. n, NEW k \in DOMAIN buckets[b].data PROVE d[b][k] \in Cells
    BY <1>3, <1>10 DEF CellsFor
  <2> QED BY <1>7, <1>9, <1>12, <1>14
<1>16. SameRanges(buckets', buckets) /\ \A b \in 1 .. n : buckets'[b].data = d[b]
  <2>1. buckets' = WithSlots(buckets, d)
    BY <1>1, <1>3, <1>11 DEF WithSlots
  <2>2. buckets \in Seq(Bucket)
    BY <1>3
  <2>3. SameRanges(buckets', buckets) /\ \A b \in DOMAIN buckets : buckets'[b].data = d[b]
    BY ONLY <2>2, <1>15, <2>1, SlotsWritten
  <2> QED BY <1>3, <2>3
<1>17. /\ buckets' \in Seq(Bucket) /\ Len(buckets') = n /\ DOMAIN buckets' = 1 .. n
       /\ \A b \in 1 .. n :
            /\ buckets'[b].begin_idx = buckets[b].begin_idx /\ buckets'[b].end_idx = buckets[b].end_idx
            /\ Len(buckets'[b].data) = Len(buckets[b].data)
            /\ DOMAIN buckets'[b].data = DOMAIN buckets[b].data
  BY <1>3, <1>16 DEF SameRanges
<1>18. /\ DOMAIN q' = 1 .. n
       /\ \A b \in 1 .. n : q'[b] = RestOf(q[b])
  BY <1>1, <1>3
<1>19. ASSUME NEW b \in 1 .. n
       PROVE  /\ q'[b] \in Seq(Elements) /\ Len(q'[b]) <= Len(q[b]) /\ DOMAIN q'[b] \subseteq Nat \ {0}
              /\ \A k \in Nat \ {0} : k \in DOMAIN q'[b] <=> k + 1 \in DOMAIN q[b]
              /\ \A k \in DOMAIN q'[b] : q'[b][k] = q[b][k + 1]
  <2> PICK a : a = q[b]
    OBVIOUS
  <2> PICK r : r = q'[b]
    OBVIOUS
  <2>1. a \in Seq(Elements) /\ r = RestOf(a)
    BY <1>3, <1>18
  <2>2. FollowsFirst(r, a, Elements)
    BY <2>1, RestOfQueue
  <2> QED BY <2>2 DEF FollowsFirst
<1>20. q' \in [1 .. n -> Seq(Elements)]
  <2>1. q' = [b \in 1 .. n |-> q'[b]]
    BY <1>1, <1>3
  <2> QED BY <1>19, <2>1
<1>21. IsFiniteSet(Blocks(q')) /\ Cardinality(Blocks(q')) <= read_idx
  <2>1. \A b \in 1 .. n : Len(q'[b]) <= Len(q[b])
    BY <1>19
  <2>2. q \in [1 .. n -> Seq(Elements)] /\ IsFiniteSet(Blocks(q))
    BY <1>3
  <2>3. IsFiniteSet(Blocks(q')) /\ Cardinality(Blocks(q')) <= Cardinality(Blocks(q))
    BY ONLY <1>20, <2>1, <2>2, FewerBlocks
  <2>4. Cardinality(Blocks(q')) \in Nat /\ Cardinality(Blocks(q)) \in Nat
    BY <2>2, <2>3, FS_CardinalityType
  <2> QED BY <1>5, <2>3, <2>4
<1>22. TypeOK'
  <2>1. write_idx' \in Nat /\ i' \in Nat
    BY <1>1, <1>5
  <2> QED BY <1>1, <1>3, <1>6, <1>17, <1>20, <1>21, <2>1 DEF TypeOK
<1>23. QueuesInRange'
  <2> PICK f : f = [b \in 1 .. n |-> buckets[b].begin_idx]
    OBVIOUS
  <2> PICK t : t = [b \in 1 .. n |-> buckets[b].end_idx]
    OBVIOUS
  <2>1. \A b \in 1 .. n : \A k \in DOMAIN q[b] : q[b][k].perm \in f[b] .. t[b] - 1
    BY <1>3 DEF QueuesInRange
  <2>2. q \in [1 .. n -> Seq(Elements)]
    BY <1>3
  <2>3. \A b \in 1 .. n : q'[b] = q[b] \/ q'[b] = RestOf(q[b])
    BY <1>18
  <2>4. \A b \in 1 .. n : \A k \in DOMAIN q'[b] : q'[b][k].perm \in f[b] .. t[b] - 1
    BY ONLY <1>20, <2>1, <2>2, <2>3, RestInRange
  <2> QED BY <1>17, <1>18, <2>4 DEF QueuesInRange
<1>24. RangesSplit'
  <2>1. ASSUME NEW b \in 1 .. n, NEW k \in DOMAIN buckets[b].data
        PROVE  \/ IsHole(d[b][k])
               \/ d[b][k].perm \in buckets[b].begin_idx .. buckets[b].end_idx - 1
    <3>1. CASE k # w + 1
      BY <1>3, <1>9, <3>1 DEF Split
    <3>2. CASE k = w + 1 /\ 1 \in DOMAIN q[b]
      <4>1. q[b][1].perm \in buckets[b].begin_idx .. buckets[b].end_idx - 1
        BY <1>3, <3>2 DEF QueuesInRange
      <4> QED BY <1>14, <3>2, <4>1
    <3>3. CASE k = w + 1 /\ 1 \notin DOMAIN q[b]
      BY <1>12, <1>14, <3>3
    <3> QED BY <3>1, <3>2, <3>3
  <2> PICK from : from = temp[cur].begin_idx
    OBVIOUS
  <2> PICK to : to = temp[cur].end_idx
    OBVIOUS
  <2>2. \A b \in 1 .. Len(buckets) :
              /\ buckets'[b].begin_idx = buckets[b].begin_idx /\ buckets'[b].end_idx = buckets[b].end_idx
              /\ \A k \in DOMAIN buckets'[b].data :
                   \/ IsHole(buckets'[b].data[k])
                   \/ buckets'[b].data[k].perm \in buckets[b].begin_idx .. buckets[b].end_idx - 1
    BY <1>16, <1>17, <2>1
  <2>3. Split(buckets, from, to) /\ Len(buckets') = Len(buckets)
    BY <1>3, <1>17
  <2>4. Split(buckets', from, to)
    BY ONLY <1>3, <1>17, <2>2, <2>3, SplitStays
  <2>5. Split(buckets, temp[cur].begin_idx, temp[cur].end_idx)'
    <3>1. from = temp'[cur'].begin_idx /\ to = temp'[cur'].end_idx
      BY <1>1
    <3> QED BY <2>4, <3>1
  <2> QED BY <1>6, <2>5 DEF RangesSplit
<1>25. Placement'
  <2>1. BatchTaken(w, 1)
    <3>1. ASSUME NEW b \in 1 .. n
          PROVE  /\ DOMAIN buckets[b].data \subseteq Nat
                 /\ DOMAIN buckets'[b].data = DOMAIN buckets[b].data
                 /\ DOMAIN q[b] \subseteq Nat \ {0} /\ DOMAIN q'[b] \subseteq Nat \ {0}
                 /\ \A k \in DOMAIN q[b] : k <= 1 => w + k \in DOMAIN buckets[b].data
      <4>1. \A k \in DOMAIN q[b] : k \in Nat \ {0}
        BY <1>13
      <4>2. \A k \in DOMAIN q[b] : k <= 1 => k = 1
        BY <4>1
      <4>3. DOMAIN buckets[b].data \subseteq Nat
        BY <1>7
      <4>4. DOMAIN buckets'[b].data = DOMAIN buckets[b].data
        BY <1>17
      <4>5. DOMAIN q[b] \subseteq Nat \ {0}
        BY <4>1
      <4>6. DOMAIN q'[b] \subseteq Nat \ {0}
        BY <1>19
      <4>7. \A k \in DOMAIN q[b] : k <= 1 => w + k \in DOMAIN buckets[b].data
        BY <1>8, <4>2
      <4> QED BY <4>3, <4>4, <4>5, <4>6, <4>7
    <3>2. ASSUME NEW b \in 1 .. n, NEW k \in DOMAIN buckets[b].data
          PROVE  /\ k <= w => buckets'[b].data[k] = buckets[b].data[k]
                 /\ k > w => IsHole(buckets[b].data[k])
                 /\ k > w /\ k <= w + 1 /\ k - w \in DOMAIN q[b] => buckets'[b].data[k] = q[b][k - w]
                 /\ k > w /\ ~(k <= w + 1 /\ k - w \in DOMAIN q[b]) => IsHole(buckets'[b].data[k])
      <4>1. w \in Nat
        BY <1>5
      <4>2. k \in Nat
        BY <1>7
      <4>3. k \in Nat /\ w \in Nat
        BY <4>1, <4>2
      <4>4. buckets'[b].data[k] = d[b][k]
        BY <1>16
      <4>5. CASE k <= w
        <5>1. k # w + 1 /\ ~(k > w)
          BY <4>3, <4>5
        <5> QED BY <1>9, <4>4, <5>1
      <4>6. CASE k = w + 1
        <5>1. ~(k <= w) /\ k > w /\ k <= w + 1 /\ k - w = 1
          BY <4>3, <4>6
        <5>2. IsHole(buckets[b].data[k])
          BY <1>3, <1>4, <5>1
        <5> QED BY <1>12, <1>14, <4>4, <4>6, <5>1, <5>2
      <4>7. CASE ~(k <= w) /\ k # w + 1
        <5>1. k > w /\ ~(k <= w + 1)
          BY <4>3, <4>7
        <5>2. IsHole(buckets[b].data[k])
          BY <1>3, <1>4, <5>1
        <5> QED BY <1>9, <4>4, <4>7, <5>1, <5>2
      <4> QED BY <4>5, <4>6, <4>7
    <3> QED BY <1>3, <1>17, <1>18, <1>19, <3>1, <3>2 DEF BatchTaken
  <2>2. pc # "done" /\ pc' # "done"
    BY <1>1
  <2>3. \A b \in DOMAIN buckets : ~(b < bucket_idx) /\ ~(b < bucket_idx')
    BY <1>1, <1>3, <1>5
  <2>4. UNCHANGED <<job, arr_out, read_idx, cur, new_temp>>
    BY <1>1
  <2>5. w \in Nat /\ 1 \in Nat
    BY <1>5
  <2> QED BY ONLY <1>3, <1>6, <2>1, <2>2, <2>3, <2>4, <2>5, BatchMoves
<1>26. SprayOK'
  <2>1. /\ Divided(buckets', temp[cur].begin_idx, IdxLen(temp[cur]), spray.idx_len)
        /\ \A b \in DOMAIN buckets' : Len(temp[cur].data) <= Len(buckets'[b].data) * spray.s
        /\ ~spray.tight => \A b \in DOMAIN buckets' : IdxLen(buckets'[b]) <= Len(buckets'[b].data)
        /\ UNCHANGED <<temp, cur, spray, read_idx, bucket_idx>>
    BY <1>1, <1>2, <1>16, SprayGoesOn
  <2>2. Divided(buckets, temp[cur].begin_idx, IdxLen(temp[cur]), spray.idx_len)'
    BY <2>1
  <2>3. \A b \in DOMAIN q' : \A k \in DOMAIN q'[b] :
          q'[b][k].perm \in temp[cur].begin_idx .. temp[cur].end_idx - 1
    <3> PICK f : f = [b \in 1 .. n |-> temp[cur].begin_idx]
      OBVIOUS
    <3> PICK t : t = [b \in 1 .. n |-> temp[cur].end_idx]
      OBVIOUS
    <3>1. \A b \in 1 .. n : \A k \in DOMAIN q[b] : q[b][k].perm \in f[b] .. t[b] - 1
      BY <1>3, <1>4
    <3>2. q \in [1 .. n -> Seq(Elements)]
      BY <1>3
    <3>3. \A b \in 1 .. n : q'[b] = q[b] \/ q'[b] = RestOf(q[b])
      BY <1>18
    <3>4. \A b \in 1 .. n : \A k \in DOMAIN q'[b] : q'[b][k].perm \in f[b] .. t[b] - 1
      BY ONLY <1>20, <3>1, <3>2, <3>3, RestInRange
    <3> QED BY <1>18, <3>4
  <2>4. Len(buckets') > 0 /\ s \in Nat \ {0} /\ read_idx <= m
    BY <1>3, <1>5, <1>17
  <2>5. CASE read_idx < m
    <3>1. pc' = "read" /\ write_idx' = w + 1 /\ i' = 0 /\ i' < s
      BY <1>1, <1>5, <2>5
    <3>2. read_idx = (w + 1) * s + 0
      <4> PICK x : x = w * s
        OBVIOUS
      <4>1. x \in Nat
        BY <1>5, ProductNat
      <4>2. w \in Nat /\ s \in Nat /\ read_idx = x + i /\ i = s
        BY <1>5, <2>5
      <4>3. (w + 1) * s = w * s + s
        BY ONLY <4>2
      <4> QED BY <4>1, <4>2, <4>3
    <3>3. \A b \in DOMAIN buckets' : \A k \in DOMAIN buckets'[b].data :
            k > w + 1 => IsHole(buckets'[b].data[k])
      <4> SUFFICES ASSUME NEW b \in 1 .. n, NEW k \in DOMAIN buckets[b].data, k > w + 1
                   PROVE  IsHole(d[b][k])
        BY <1>16, <1>17
      <4>1. w \in Nat
        BY <1>5
      <4>2. k \in Nat
        BY <1>7
      <4>3. k > w /\ k # w + 1
        BY <4>1, <4>2
      <4> QED BY <1>3, <1>4, <1>9, <4>3
    <3> QED BY <1>4, <1>5, <1>21, <2>1, <2>2, <2>3, <2>4, <2>5, <3>1, <3>2, <3>3 DEF SprayOK
  <2>6. CASE ~(read_idx < m)
    <3>1. pc' = "refill" /\ write_idx' = 0 /\ i' = 0 /\ read_idx = m
      BY <1>1, <1>5, <2>6
    <3>2. 1 <= Len(buckets') /\ 1 \in 1 .. n
      BY <1>3, <1>17
    <3>3. 0 < Len(buckets'[1].data)
      BY <1>1, <1>2, <1>16, <1>17, <3>2, SprayGoesOn
    <3>4. \A k \in 1 .. 0 : ~IsHole(buckets'[1].data[k])
      OBVIOUS
    <3>5. \A b \in 1 .. Len(buckets') : ~(b < 1)
      BY <1>3, <1>17
    <3>6. 1 <= Len(buckets') + 1
      BY <1>3, <1>17
    <3> QED BY <1>4, <1>5, <2>1, <2>2, <2>3, <2>4, <3>1, <3>2, <3>3, <3>4, <3>5, <3>6 DEF SprayOK
  <2> QED BY <2>5, <2>6
<1>27. CacheOK'
  BY <1>1, <1>2, <1>16, <1>26, SprayGoesOn
<1> QED BY <1>6, <1>22, <1>23, <1>24, <1>25, <1>27 DEF ShuffleInv

-----------------------------------------------------------------------------
(* The refill *)

\* The first element of a queue goes to a slot of its bucket, which was a hole.
FirstTaken(b, m) ==
  /\ b \in DOMAIN q /\ b \in DOMAIN buckets /\ 1 \in DOMAIN q[b] /\ m \in DOMAIN buckets[b].data
  /\ DOMAIN q' = DOMAIN q /\ \A c \in DOMAIN q : c # b => q'[c] = q[c]
  /\ DOMAIN buckets' = DOMAIN buckets
  /\ \A c \in DOMAIN buckets : /\ DOMAIN buckets'[c].data = DOMAIN buckets[c].data
                               /\ c # b => buckets'[c].data = buckets[c].data
  /\ \A k \in DOMAIN buckets[b].data : k # m => buckets'[b].data[k] = buckets[b].data[k]
  /\ IsHole(buckets[b].data[m]) /\ buckets'[b].data[m] = q[b][1]
  /\ DOMAIN q[b] \subseteq Nat \ {0} /\ DOMAIN q'[b] \subseteq Nat \ {0}
  /\ \A k \in Nat \ {0} : k \in DOMAIN q'[b] <=> k + 1 \in DOMAIN q[b]
  /\ \A k \in DOMAIN q'[b] : q'[b][k] = q[b][k + 1]

\* Such a step takes every element along.
LEMMA FirstMoves ==
  ASSUME TypeOK, Placement, ~IsMelbourne, ~IsMelbourne',
         UNCHANGED <<job, arr_out, read_idx, cur, new_temp>>,
         Sources' = Sources, Tight' = Tight, pc # "done", pc' # "done",
         NEW b, NEW m, FirstTaken(b, m)
  PROVE  Placement'
<1> DEFINE f == [x \in Places' |->
                  IF x = <<"bucket", b, m>> THEN <<"queue", b, 1>>
                  ELSE IF x[1] = "queue" /\ x[2] = b THEN <<"queue", b, x[3] + 1>> ELSE x]
           h == [x \in Places |->
                  IF x = <<"queue", b, 1>> THEN <<"bucket", b, m>>
                  ELSE IF x[1] = "queue" /\ x[2] = b THEN <<"queue", b, x[3] - 1>> ELSE x]
<1>1. PlacesHeld /\ PlacesHeld'
  BY PlacesAre, PlacesNext
<1>2. \A x \in Places' : f[x] = IF x = <<"bucket", b, m>> THEN <<"queue", b, 1>>
                                ELSE IF x[1] = "queue" /\ x[2] = b THEN <<"queue", b, x[3] + 1>> ELSE x
  OBVIOUS
<1>3. \A x \in Places : h[x] = IF x = <<"queue", b, 1>> THEN <<"bucket", b, m>>
                               ELSE IF x[1] = "queue" /\ x[2] = b THEN <<"queue", b, x[3] - 1>> ELSE x
  OBVIOUS
<1> HIDE DEF f, h
<1>4. \A c \in DOMAIN q : \A k \in DOMAIN q[c] : ~IsHole(q[c][k])
  <2>1. JobOK /\ q \in [1 .. Len(buckets) -> Seq(Elements)]
    BY DEF TypeOK
  <2>2. \A e \in Elements : ~IsHole(e)
    BY <2>1, ElementFacts
  <2>3. \A c \in DOMAIN q : \A k \in DOMAIN q[c] : q[c][k] \in Elements
    BY <2>1
  <2> QED BY <2>2, <2>3
<1>5. ASSUME NEW c, NEW k
      PROVE  /\ <<"source", c, k>> \in Places' <=> <<"source", c, k>> \in Places
             /\ <<"source", c, k>> \in Places => At(<<"source", c, k>>)' = At(<<"source", c, k>>)
             /\ <<"next", c, k>> \in Places' <=> <<"next", c, k>> \in Places
             /\ <<"next", c, k>> \in Places => At(<<"next", c, k>>)' = At(<<"next", c, k>>)
  BY <1>1 DEF PlacesHeld
<1>6. ASSUME NEW c, NEW k, <<"bucket", c, k>> # <<"bucket", b, m>>
      PROVE  /\ <<"bucket", c, k>> \in Places' <=> <<"bucket", c, k>> \in Places
             /\ <<"bucket", c, k>> \in Places => At(<<"bucket", c, k>>)' = At(<<"bucket", c, k>>)
  <2>1. c # b \/ k # m
    BY <1>6
  <2>2. c \in DOMAIN buckets /\ k \in DOMAIN buckets[c].data => buckets'[c].data[k] = buckets[c].data[k]
    BY <2>1 DEF FirstTaken
  <2>3. c \in DOMAIN buckets' <=> c \in DOMAIN buckets
    BY DEF FirstTaken
  <2>4. c \in DOMAIN buckets => (k \in DOMAIN buckets'[c].data <=> k \in DOMAIN buckets[c].data)
    BY DEF FirstTaken
  <2> QED BY <1>1, <2>2, <2>3, <2>4 DEF PlacesHeld
<1>7. ASSUME NEW c, NEW k, c # b
      PROVE  /\ <<"queue", c, k>> \in Places' <=> <<"queue", c, k>> \in Places
             /\ <<"queue", c, k>> \in Places => At(<<"queue", c, k>>)' = At(<<"queue", c, k>>)
  <2>1. (c \in DOMAIN q' <=> c \in DOMAIN q) /\ (c \in DOMAIN q => q'[c] = q[c])
    BY <1>7 DEF FirstTaken
  <2> QED BY <1>1, <2>1 DEF PlacesHeld
<1>8. /\ <<"bucket", b, m>> \in Places' /\ <<"bucket", b, m>> \notin Places
      /\ <<"queue", b, 1>> \in Places /\ At(<<"bucket", b, m>>)' = At(<<"queue", b, 1>>)
  <2>1. ~IsHole(q[b][1])
    BY <1>4 DEF FirstTaken
  <2> QED BY <1>1, <2>1 DEF PlacesHeld, FirstTaken
<1>9. ASSUME NEW k, <<"queue", b, k>> \in Places'
      PROVE  /\ k \in Nat \ {0} /\ <<"queue", b, k + 1>> \in Places
             /\ At(<<"queue", b, k>>)' = At(<<"queue", b, k + 1>>)
  <2>1. k \in DOMAIN q'[b] /\ At(<<"queue", b, k>>)' = q'[b][k]
    BY <1>1, <1>9 DEF PlacesHeld
  <2>2. k \in Nat \ {0}
    BY <2>1 DEF FirstTaken
  <2>3. b \in DOMAIN q /\ k + 1 \in DOMAIN q[b] /\ q'[b][k] = q[b][k + 1]
    BY <2>1, <2>2 DEF FirstTaken
  <2>4. ~IsHole(q[b][k + 1])
    BY <1>4, <2>3
  <2> QED BY <1>1, <2>1, <2>2, <2>3, <2>4 DEF PlacesHeld
<1>10. ASSUME NEW k, <<"queue", b, k>> \in Places, k # 1
       PROVE  k \in Nat \ {0, 1} /\ k - 1 \in Nat \ {0} /\ <<"queue", b, k - 1>> \in Places'
  <2>1. k \in DOMAIN q[b] /\ ~IsHole(q[b][k]) /\ b \in DOMAIN q
    BY <1>1, <1>10 DEF PlacesHeld
  <2>2. k \in Nat \ {0, 1}
    BY <1>10, <2>1 DEF FirstTaken
  <2> PICK p : p = k - 1
    OBVIOUS
  <2>3. p \in Nat \ {0} /\ p + 1 = k
    BY <2>2
  <2>4. p \in DOMAIN q'[b] /\ q'[b][p] = q[b][k] /\ b \in DOMAIN q'
    BY <2>1, <2>3 DEF FirstTaken
  <2>5. <<"queue", b, p>> \in Places'
    BY <1>1, <2>1, <2>4 DEF PlacesHeld
  <2> QED BY <2>2, <2>3, <2>5
<1>11. ASSUME NEW x \in Places' PROVE f[x] \in Places /\ At(x)' = At(f[x]) /\ h[f[x]] = x
  <2> PICK c, k : x \in {<<"source", c, k>>, <<"queue", c, k>>, <<"bucket", c, k>>, <<"next", c, k>>}
    BY <1>1 DEF PlacesHeld
  <2>1. CASE x = <<"source", c, k>> \/ x = <<"next", c, k>>
    <3>1. f[x] = x /\ x \in Places
      <4>1. x \in Places
        BY <1>5, <2>1
      <4>2. x # <<"bucket", b, m>> /\ x[1] # "queue"
        BY <2>1
      <4> QED BY <1>2, <4>1, <4>2
    <3>2. h[x] = x
      BY <1>3, <2>1, <3>1
    <3> QED BY <1>5, <2>1, <3>1, <3>2
  <2>2. CASE x = <<"bucket", c, k>> /\ x # <<"bucket", b, m>>
    <3>1. f[x] = x /\ x \in Places
      <4>1. x[1] # "queue"
        BY <2>2
      <4>2. x \in Places
        BY <1>6, <2>2
      <4> QED BY <1>2, <2>2, <4>1, <4>2
    <3>2. h[x] = x
      BY <1>3, <2>2, <3>1
    <3> QED BY <1>6, <2>2, <3>1, <3>2
  <2>3. CASE x = <<"queue", c, k>> /\ c # b
    <3>1. f[x] = x /\ x \in Places
      BY <1>2, <1>7, <2>3
    <3>2. h[x] = x
      BY <1>3, <2>3, <3>1
    <3> QED BY <1>7, <2>3, <3>1, <3>2
  <2>4. CASE x = <<"bucket", b, m>>
    <3>1. f[x] = <<"queue", b, 1>>
      BY <1>2, <2>4
    <3>2. h[<<"queue", b, 1>>] = <<"bucket", b, m>>
      BY <1>3, <1>8
    <3> QED BY <1>8, <2>4, <3>1, <3>2
  <2>5. CASE x = <<"queue", b, k>>
    <3>1. f[x] = <<"queue", b, k + 1>>
      BY <1>2, <2>5
    <3>2. k \in Nat \ {0} /\ <<"queue", b, k + 1>> \in Places /\ At(x)' = At(<<"queue", b, k + 1>>)
      BY <1>9, <2>5
    <3> PICK r : r = k + 1
      OBVIOUS
    <3>3. r # 1 /\ r - 1 = k
      BY <3>2
    <3>4. <<"queue", b, r>> # <<"queue", b, 1>> /\ <<"queue", b, r>> \in Places
      BY <3>2, <3>3
    <3>5. h[<<"queue", b, r>>] = <<"queue", b, r - 1>>
      BY <1>3, <3>4
    <3> QED BY <2>5, <3>1, <3>2, <3>3, <3>5
  <2> QED BY <2>1, <2>2, <2>3, <2>4, <2>5
<1>12. ASSUME NEW x \in Places PROVE h[x] \in Places' /\ f[h[x]] = x
  <2> PICK c, k : x \in {<<"source", c, k>>, <<"queue", c, k>>, <<"bucket", c, k>>, <<"next", c, k>>}
    BY <1>1 DEF PlacesHeld
  <2>1. CASE x = <<"source", c, k>> \/ x = <<"next", c, k>>
    <3>1. h[x] = x /\ x \in Places'
      BY <1>3, <1>5, <2>1
    <3> QED BY <1>2, <2>1, <3>1
  <2>2. CASE x = <<"bucket", c, k>>
    <3>1. x # <<"bucket", b, m>>
      BY <1>8
    <3>2. h[x] = x /\ x \in Places'
      BY <1>3, <1>6, <2>2, <3>1
    <3> QED BY <1>2, <2>2, <3>1, <3>2
  <2>3. CASE x = <<"queue", c, k>> /\ c # b
    <3>1. h[x] = x /\ x \in Places'
      BY <1>3, <1>7, <2>3
    <3> QED BY <1>2, <2>3, <3>1
  <2>4. CASE x = <<"queue", b, 1>>
    <3>1. h[x] = <<"bucket", b, m>>
      BY <1>3, <2>4
    <3> QED BY <1>2, <1>8, <2>4, <3>1
  <2>5. CASE x = <<"queue", b, k>> /\ k # 1
    <3>1. x # <<"queue", b, 1>>
      BY <2>5
    <3>2. h[x] = <<"queue", b, k - 1>>
      BY <1>3, <2>5, <3>1
    <3>3. k \in Nat \ {0, 1} /\ <<"queue", b, k - 1>> \in Places'
      BY <1>10, <2>5
    <3> PICK r : r = k - 1
      OBVIOUS
    <3>4. r + 1 = k
      BY <3>3
    <3>5. f[<<"queue", b, r>>] = <<"queue", b, r + 1>>
      BY <1>2, <3>3
    <3> QED BY <2>5, <3>2, <3>3, <3>4, <3>5
  <2> QED BY <2>1, <2>2, <2>3, <2>4, <2>5
<1>13. \A x, y \in Places' : f[x] = f[y] => x = y
  <2> SUFFICES ASSUME NEW x \in Places', NEW y \in Places', f[x] = f[y] PROVE x = y
    OBVIOUS
  <2>1. h[f[x]] = x /\ h[f[y]] = y
    BY <1>11
  <2> QED BY <2>1
<1>14. \A x \in Places : Tight' \/ \E y \in Places' : f[y] = x
  BY <1>12
<1>15. \A x \in Places' : f[x] \in Places /\ At(x)' = At(f[x])
  BY <1>11
<1>16. UNCHANGED <<job, arr_out>> /\ (Tight => Tight')
  OBVIOUS
<1> QED BY ONLY Placement, <1>13, <1>14, <1>15, <1>16, Moves

\* What a step of the refill does to the slots and the queues: that slot of the
\* bucket is full, or nothing is left in its queue.
Refilled(n, b, m) ==
  /\ SameRanges(buckets', buckets) /\ q' \in [1 .. n -> Seq(Elements)]
  /\ \A c \in 1 .. n : q'[c] = q[c] \/ q'[c] = RestOf(q[c])
  /\ \A c \in 1 .. n : c # b => q'[c] = q[c] /\ buckets'[c].data = buckets[c].data
  /\ \A k \in DOMAIN buckets[b].data : ~IsHole(buckets[b].data[k]) => ~IsHole(buckets'[b].data[k])
  /\ \A c \in 1 .. n : \A k \in DOMAIN buckets[c].data :
       \/ buckets'[c].data[k] = buckets[c].data[k]
       \/ 1 \in DOMAIN q[c] /\ buckets'[c].data[k] = q[c][1]
  /\ q[b] = << >> => q'[b] = << >>
  /\ q'[b] = << >> \/ ~IsHole(buckets'[b].data[m])

\* The slot that a turn of the refill looks at is full afterwards, or the queue of
\* its bucket has run out, and no element but the queue's first moves.
LEMMA RefillFills ==
  ASSUME ShuffleInv, ~IsMelbourne, Refill
  PROVE  Refilled(Len(buckets), bucket_idx, i + 1) /\ Placement'
<1> PICK n : n = Len(buckets)
  OBVIOUS
<1> PICK b : b = bucket_idx
  OBVIOUS
<1> PICK m : m = i + 1
  OBVIOUS
<1>1. /\ pc = "refill" /\ pc' = "refill" /\ b <= n
      /\ UNCHANGED <<job, read_idx, arr_out, temp, cur, new_temp, spray>>
      /\ IF IsHole(buckets[b].data[m]) /\ q[b] # << >>
         THEN /\ buckets' = [buckets EXCEPT ![b].data[m] = Head(q[b])]
              /\ q' = [q EXCEPT ![b] = Tail(@)]
         ELSE UNCHANGED <<buckets, q>>
  BY DEF Refill
<1>2. Spraying
  BY <1>1 DEF Spraying
<1>3. /\ TypeOK /\ SprayOK /\ Placement /\ JobOK
      /\ buckets \in Seq(Bucket) /\ n \in Nat \ {0} /\ bucket_idx \in Nat \ {0} /\ i \in Nat
      /\ DOMAIN q = 1 .. n /\ DOMAIN buckets = 1 .. n /\ q \in [1 .. n -> Seq(Elements)]
  BY <1>2, InSpray
<1>4. b \in 1 .. n
  BY <1>1, <1>3
<1>5. /\ ~IsMelbourne' /\ Sources' = Sources /\ Tight' = Tight
  BY <1>1, <1>2, SprayStays
<1>6. \A c \in 1 .. n : /\ DOMAIN buckets[c].data = 1 .. Len(buckets[c].data)
                        /\ \A k \in DOMAIN buckets[c].data : buckets[c].data[k] \in Cells
                        /\ Len(buckets[c].data) \in Nat
  BY <1>3, SlotFacts
<1>7. i < Len(buckets[b].data)
  BY <1>1, <1>3 DEF SprayOK
<1>8. m \in DOMAIN buckets[b].data
  <2> PICK slots : slots = Len(buckets[b].data)
    OBVIOUS
  <2>1. slots \in Nat /\ DOMAIN buckets[b].data = 1 .. slots /\ i < slots /\ i \in Nat
    BY <1>3, <1>4, <1>6, <1>7
  <2> QED BY <2>1
<1>9. CASE ~(IsHole(buckets[b].data[m]) /\ q[b] # << >>)
  <2>1. UNCHANGED <<buckets, q>>
    BY <1>1, <1>9
  <2>2. SameRanges(buckets', buckets)
    BY <1>3, <2>1 DEF SameRanges
  <2>3. Refilled(n, b, m)
    BY <1>3, <1>9, <2>1, <2>2 DEF Refilled
  <2>4. Placement'
    <3>1. PlacesHeld /\ PlacesHeld'
      BY PlacesAre, PlacesNext
    <3>2. /\ pc # "done" /\ pc' # "done" /\ Sources' = Sources /\ ~IsMelbourne /\ ~IsMelbourne'
          /\ UNCHANGED <<read_idx, cur, new_temp>>
      BY <1>1, <1>5
    <3>3. ASSUME NEW c, NEW k
          PROVE  /\ <<"source", c, k>> \in Places' <=> <<"source", c, k>> \in Places
                 /\ <<"source", c, k>> \in Places => At(<<"source", c, k>>)' = At(<<"source", c, k>>)
                 /\ <<"next", c, k>> \in Places' <=> <<"next", c, k>> \in Places
                 /\ <<"next", c, k>> \in Places => At(<<"next", c, k>>)' = At(<<"next", c, k>>)
      BY <3>1, <3>2 DEF PlacesHeld
    <3>4. ASSUME NEW c, NEW k
          PROVE  /\ <<"queue", c, k>> \in Places' <=> <<"queue", c, k>> \in Places
                 /\ <<"queue", c, k>> \in Places => At(<<"queue", c, k>>)' = At(<<"queue", c, k>>)
                 /\ <<"bucket", c, k>> \in Places' <=> <<"bucket", c, k>> \in Places
                 /\ <<"bucket", c, k>> \in Places => At(<<"bucket", c, k>>)' = At(<<"bucket", c, k>>)
      BY <2>1, <3>1, <3>2 DEF PlacesHeld
    <3>5. ASSUME NEW x \in Places' PROVE x \in Places /\ At(x)' = At(x)
      <4> PICK c, k : x \in {<<"source", c, k>>, <<"queue", c, k>>, <<"bucket", c, k>>, <<"next", c, k>>}
        BY <3>1 DEF PlacesHeld
      <4> QED BY <3>3, <3>4
    <3>6. ASSUME NEW x \in Places PROVE x \in Places'
      <4> PICK c, k : x \in {<<"source", c, k>>, <<"queue", c, k>>, <<"bucket", c, k>>, <<"next", c, k>>}
        BY <3>1 DEF PlacesHeld
      <4> QED BY <3>3, <3>4
    <3>7. UNCHANGED <<job, arr_out>> /\ (Tight => Tight') /\ Placement
      BY <1>1, <1>3, <1>5
    <3> QED BY ONLY <3>5, <3>6, <3>7, MovesNone
  <2> QED BY <2>3, <2>4
<1>10. CASE IsHole(buckets[b].data[m]) /\ q[b] # << >>
  <2> DEFINE d == [c \in 1 .. n |-> IF c = b THEN [buckets[b].data EXCEPT ![m] = Head(q[b])]
                                    ELSE buckets[c].data]
  <2>1. /\ buckets' = [buckets EXCEPT ![b].data[m] = Head(q[b])]
        /\ q' = [q EXCEPT ![b] = Tail(@)]
    BY <1>1, <1>10
  <2>2. /\ q[b] \in Seq(Elements) /\ DOMAIN q[b] = 1 .. Len(q[b]) /\ Len(q[b]) \in Nat \ {0}
        /\ 1 \in DOMAIN q[b] /\ q[b][1] \in Elements
    <3>1. q[b] \in Seq(Elements)
      BY <1>3, <1>4
    <3>2. /\ DOMAIN q[b] = 1 .. Len(q[b]) /\ Len(q[b]) \in Nat /\ Len(q[b]) # 0
          /\ \A k \in 1 .. Len(q[b]) : q[b][k] \in Elements
      BY <1>10, <3>1, SeqFacts
    <3>3. 1 \in 1 .. Len(q[b])
      BY <3>2
    <3> QED BY <3>1, <3>2, <3>3
  <2>3. Head(q[b]) = q[b][1]
    BY <2>2
  <2>4. q[b][1] \in Cells /\ ~IsHole(q[b][1])
    BY <1>3, <2>2, ElementFacts DEF Cells
  <2>5. /\ \A c \in 1 .. n : c # b => d[c] = buckets[c].data
        /\ d[b] = [buckets[b].data EXCEPT ![m] = q[b][1]]
    BY <1>4, <2>3
  <2>6. DOMAIN d = 1 .. n
    OBVIOUS
  <2> HIDE DEF d
  <2>7. \A k \in DOMAIN buckets[b].data : d[b][k] = IF k = m THEN q[b][1] ELSE buckets[b].data[k]
    BY <2>5
  <2>8. CellsFor(d, buckets)
    <3> SUFFICES ASSUME NEW c \in 1 .. n
                 PROVE  /\ d[c] = [k \in DOMAIN buckets[c].data |-> d[c][k]]
                        /\ \A k \in DOMAIN buckets[c].data : d[c][k] \in Cells
      BY <1>3 DEF CellsFor
    <3>1. CASE c = b
      BY <1>6, <2>4, <2>5, <2>7, <3>1
    <3>2. CASE c # b
      <4> PICK e : e = buckets[c].data
        OBVIOUS
      <4>1. e \in Seq(Cells)
        <5>1. buckets[c] \in Bucket
          BY <1>3, SlotFacts
        <5> QED BY <5>1 DEF Bucket
      <4>2. e = [k \in DOMAIN e |-> e[k]]
        BY <4>1
      <4> QED BY <1>6, <2>5, <3>2, <4>2
    <3> QED BY <3>1, <3>2
  <2>9. buckets' = WithSlots(buckets, d)
    <3>1. ASSUME NEW c \in 1 .. n PROVE buckets'[c] = [buckets[c] EXCEPT !.data = d[c]]
      <4>1. CASE c = b
        <5>1. buckets'[c] = [buckets[b] EXCEPT !.data = [buckets[b].data EXCEPT ![m] = Head(q[b])]]
          BY <1>3, <1>4, <2>1, <4>1
        <5> QED BY <2>3, <2>5, <4>1, <5>1
      <4>2. CASE c # b
        <5>1. buckets'[c] = buckets[c] /\ buckets[c] \in Bucket
          BY <1>3, <2>1, <4>2
        <5>2. buckets[c] = [buckets[c] EXCEPT !.data = buckets[c].data]
          BY <5>1 DEF Bucket
        <5> QED BY <2>5, <4>2, <5>1, <5>2
      <4> QED BY <4>1, <4>2
    <3>2. buckets' = [c \in 1 .. n |-> buckets'[c]]
      BY <1>3, <2>1
    <3> QED BY <1>3, <3>1, <3>2 DEF WithSlots
  <2>10. SameRanges(buckets', buckets) /\ \A c \in 1 .. n : buckets'[c].data = d[c]
    <3>1. buckets \in Seq(Bucket)
      BY <1>3
    <3>2. SameRanges(buckets', buckets) /\ \A c \in DOMAIN buckets : buckets'[c].data = d[c]
      BY ONLY <3>1, <2>8, <2>9, SlotsWritten
    <3> QED BY <1>3, <3>2
  <2>11. /\ \A c \in 1 .. n : c # b => q'[c] = q[c]
         /\ q'[b] = Tail(q[b]) /\ q' = [c \in 1 .. n |-> q'[c]] /\ DOMAIN q' = 1 .. n
    BY <1>3, <1>4, <2>1
  <2> PICK s : s = q[b]
    OBVIOUS
  <2> PICK t : t = q'[b]
    OBVIOUS
  <2>12. s \in Seq(Elements) /\ t = RestOf(s)
    BY <1>10, <2>2, <2>11 DEF RestOf
  <2>13. /\ t \in Seq(Elements) /\ Len(t) \in Nat /\ DOMAIN t = 1 .. Len(t)
         /\ \A k \in Nat \ {0} : k \in DOMAIN t <=> k + 1 \in DOMAIN s
         /\ \A k \in DOMAIN t : t[k] = s[k + 1] /\ k + 1 \in DOMAIN s
    <3>1. FollowsFirst(t, s, Elements)
      BY <2>12, RestOfQueue
    <3> QED BY <3>1 DEF FollowsFirst
  <2>14. DOMAIN t \subseteq Nat \ {0} /\ DOMAIN s \subseteq Nat \ {0}
    BY <2>2, <2>13
  <2>15. q' \in [1 .. n -> Seq(Elements)]
    <3>1. \A c \in 1 .. n : q'[c] \in Seq(Elements)
      BY <1>3, <2>11, <2>13
    <3> QED BY <2>11, <3>1
  <2>16. Refilled(n, b, m)
    <3>1. \A c \in 1 .. n : q'[c] = q[c] \/ q'[c] = RestOf(q[c])
      BY <2>11, <2>12
    <3>2. \A c \in 1 .. n : c # b => q'[c] = q[c] /\ buckets'[c].data = buckets[c].data
      BY <2>5, <2>10, <2>11
    <3>3. /\ \A k \in DOMAIN buckets[b].data : ~IsHole(buckets[b].data[k]) => ~IsHole(buckets'[b].data[k])
          /\ ~IsHole(buckets'[b].data[m])
      BY <1>4, <1>8, <2>4, <2>7, <2>10
    <3>4. \A c \in 1 .. n : \A k \in DOMAIN buckets[c].data :
            \/ buckets'[c].data[k] = buckets[c].data[k]
            \/ 1 \in DOMAIN q[c] /\ buckets'[c].data[k] = q[c][1]
      BY <1>4, <2>2, <2>5, <2>7, <2>10
    <3> QED BY <1>10, <2>10, <2>15, <3>1, <3>2, <3>3, <3>4 DEF Refilled
  <2>17. Placement'
    <3>1. FirstTaken(b, m)
      <4>1. /\ DOMAIN buckets' = DOMAIN buckets
            /\ \A c \in DOMAIN buckets : /\ DOMAIN buckets'[c].data = DOMAIN buckets[c].data
                                         /\ c # b => buckets'[c].data = buckets[c].data
        BY <1>3, <2>5, <2>10 DEF SameRanges
      <4>2. /\ \A k \in DOMAIN buckets[b].data : k # m => buckets'[b].data[k] = buckets[b].data[k]
            /\ buckets'[b].data[m] = q[b][1]
        BY <1>4, <1>8, <2>7, <2>10
      <4> QED BY <1>3, <1>4, <1>8, <1>10, <2>2, <2>11, <2>13, <2>14, <4>1, <4>2 DEF FirstTaken
    <3>2. UNCHANGED <<job, arr_out, read_idx, cur, new_temp>> /\ pc # "done" /\ pc' # "done"
      BY <1>1
    <3> QED BY <1>3, <1>5, <3>1, <3>2, FirstMoves
  <2> QED BY <2>16, <2>17
<1> QED BY <1>9, <1>10

\* A turn of the refill: the buckets come to their ends with nothing left in their
\* queues, or with no hole left in their slots.
LEMMA RefillKeeps ==
  ASSUME ShuffleInv, ~IsMelbourne, Refill
  PROVE  ShuffleInv'
<1> PICK n : n = Len(buckets)
  OBVIOUS
<1> PICK b : b = bucket_idx
  OBVIOUS
<1> PICK m : m = i + 1
  OBVIOUS
<1> PICK slots : slots = Len(buckets[b].data)
  OBVIOUS
<1>1. /\ pc = "refill" /\ pc' = "refill" /\ b <= n
      /\ UNCHANGED <<job, read_idx, arr_out, temp, cur, new_temp, spray>>
      /\ i' = IF m < slots THEN m ELSE 0
      /\ write_idx' = IF m < slots THEN write_idx
                      ELSE IF write_idx + 1 < slots THEN write_idx + 1 ELSE 0
      /\ bucket_idx' = IF m = slots /\ write_idx + 1 = slots THEN b + 1 ELSE b
  BY DEF Refill
<1>2. Spraying /\ pc' \in {"read", "write", "refill", "aborted"}
  BY <1>1 DEF Spraying
<1>3. /\ TypeOK /\ SprayOK /\ CacheOK /\ QueuesInRange /\ JobOK
      /\ buckets \in Seq(Bucket) /\ n \in Nat \ {0} /\ q \in [1 .. n -> Seq(Elements)] /\ IsFiniteSet(Blocks(q))
      /\ DOMAIN q = 1 .. n /\ DOMAIN buckets = 1 .. n
      /\ Split(buckets, temp[cur].begin_idx, temp[cur].end_idx)
  BY <1>2, InSpray
<1>4. b \in Nat \ {0} /\ i \in Nat /\ write_idx \in Nat
  BY <1>2, InSpray
<1>5. b \in 1 .. n
  BY <1>1, <1>3, <1>4
<1>6. /\ read_idx = Len(temp[cur].data) /\ i < slots
      /\ \/ q[b] = << >>
         \/ \A k \in 1 .. i : ~IsHole(buckets[b].data[k])
      /\ \A c \in 1 .. n : c < b => q[c] = << >> \/ Full(buckets[c].data)
      /\ \A c \in DOMAIN q : \A k \in DOMAIN q[c] :
           q[c][k].perm \in temp[cur].begin_idx .. temp[cur].end_idx - 1
      /\ cur <= Len(temp) /\ spray.s \in Nat \ {0} /\ read_idx <= Len(temp[cur].data)
  BY <1>1, <1>3 DEF SprayOK
<1>7. slots \in Nat /\ DOMAIN buckets[b].data = 1 .. slots
  BY <1>3, <1>5, SlotFacts
<1>8. m \in 1 .. slots /\ m \in Nat
  BY <1>4, <1>6, <1>7
<1>9. Refilled(n, b, m) /\ Placement'
  BY RefillFills
<1>10. /\ ~IsMelbourne' /\ len' = len /\ JobOK' /\ Positions' = Positions
       /\ Elements' = Elements /\ Cells' = Cells /\ Bucket' = Bucket
       /\ Split(temp, 0, len)' /\ Split(new_temp, 0, IF cur <= Len(temp) THEN temp[cur].begin_idx ELSE len)'
  BY <1>1, <1>2, SprayStays
<1>11. /\ SameRanges(buckets', buckets) /\ q' \in [1 .. n -> Seq(Elements)] /\ DOMAIN q' = 1 .. n
       /\ \A c \in 1 .. n : q'[c] = q[c] \/ q'[c] = RestOf(q[c])
  BY <1>9 DEF Refilled
<1>12. /\ buckets' \in Seq(Bucket) /\ Len(buckets') = n /\ DOMAIN buckets' = 1 .. n
       /\ \A c \in 1 .. n :
            /\ buckets'[c].begin_idx = buckets[c].begin_idx /\ buckets'[c].end_idx = buckets[c].end_idx
            /\ Len(buckets'[c].data) = Len(buckets[c].data)
            /\ DOMAIN buckets'[c].data = DOMAIN buckets[c].data
  BY <1>3, <1>11 DEF SameRanges
<1>13. IsFiniteSet(Blocks(q'))
  <2>1. \A c \in 1 .. n : Len(q'[c]) <= Len(q[c])
    <3> TAKE c \in 1 .. n
    <3> PICK s : s = q[c]
      OBVIOUS
    <3> PICK t : t = RestOf(s)
      OBVIOUS
    <3>1. s \in Seq(Elements) /\ t = RestOf(s)
      BY <1>3
    <3>2. Len(t) <= Len(s) /\ Len(s) \in Nat
      BY ONLY <3>1, RestOfQueue DEF FollowsFirst
    <3> QED BY <1>11, <3>2
  <2>2. q \in [1 .. n -> Seq(Elements)] /\ q' \in [1 .. n -> Seq(Elements)] /\ IsFiniteSet(Blocks(q))
    BY <1>3, <1>11
  <2> QED BY ONLY <2>1, <2>2, FewerBlocks
<1>14. TypeOK'
  <2>1. i' \in Nat /\ write_idx' \in Nat /\ bucket_idx' \in Nat \ {0}
    BY <1>1, <1>4, <1>8
  <2> QED BY <1>1, <1>3, <1>10, <1>11, <1>12, <1>13, <2>1 DEF TypeOK
<1>15. QueuesInRange'
  <2> PICK f : f = [c \in 1 .. n |-> buckets[c].begin_idx]
    OBVIOUS
  <2> PICK t : t = [c \in 1 .. n |-> buckets[c].end_idx]
    OBVIOUS
  <2>1. \A c \in 1 .. n : \A k \in DOMAIN q[c] : q[c][k].perm \in f[c] .. t[c] - 1
    BY <1>3 DEF QueuesInRange
  <2>2. q \in [1 .. n -> Seq(Elements)]
    BY <1>3
  <2>3. \A c \in 1 .. n : \A k \in DOMAIN q'[c] : q'[c][k].perm \in f[c] .. t[c] - 1
    BY ONLY <1>11, <2>1, <2>2, RestInRange
  <2> QED BY <1>11, <1>12, <2>3 DEF QueuesInRange
<1>16. RangesSplit'
  <2>1. ASSUME NEW c \in 1 .. n, NEW k \in DOMAIN buckets[c].data
        PROVE  \/ IsHole(buckets'[c].data[k])
               \/ buckets'[c].data[k].perm \in buckets[c].begin_idx .. buckets[c].end_idx - 1
    <3>1. CASE buckets'[c].data[k] = buckets[c].data[k]
      BY <1>3, <3>1 DEF Split
    <3>2. CASE 1 \in DOMAIN q[c] /\ buckets'[c].data[k] = q[c][1]
      <4>1. q[c][1].perm \in buckets[c].begin_idx .. buckets[c].end_idx - 1
        BY <1>3, <3>2 DEF QueuesInRange
      <4> QED BY <3>2, <4>1
    <3> QED BY <1>9, <3>1, <3>2 DEF Refilled
  <2> PICK from : from = temp[cur].begin_idx
    OBVIOUS
  <2> PICK to : to = temp[cur].end_idx
    OBVIOUS
  <2>2. \A c \in 1 .. Len(buckets) :
              /\ buckets'[c].begin_idx = buckets[c].begin_idx /\ buckets'[c].end_idx = buckets[c].end_idx
              /\ \A k \in DOMAIN buckets'[c].data :
                   \/ IsHole(buckets'[c].data[k])
                   \/ buckets'[c].data[k].perm \in buckets[c].begin_idx .. buckets[c].end_idx - 1
    BY <1>12, <2>1
  <2>3. Split(buckets, from, to) /\ Len(buckets') = Len(buckets) /\ buckets \in Seq(Bucket)
    BY <1>3, <1>12
  <2>4. Split(buckets', from, to)
    BY ONLY <1>12, <2>2, <2>3, SplitStays
  <2>5. Split(buckets, temp[cur].begin_idx, temp[cur].end_idx)'
    <3>1. from = temp'[cur'].begin_idx /\ to = temp'[cur'].end_idx
      BY <1>1
    <3> QED BY <2>4, <3>1
  <2> QED BY <1>10, <2>5 DEF RangesSplit
<1>17. /\ \A c \in DOMAIN buckets' : Len(buckets'[c].data) > 0
       /\ SprayOK' => CacheOK'
       /\ Divided(buckets', temp[cur].begin_idx, IdxLen(temp[cur]), spray.idx_len)
       /\ \A c \in DOMAIN buckets' : Len(temp[cur].data) <= Len(buckets'[c].data) * spray.s
       /\ ~spray.tight => \A c \in DOMAIN buckets' : IdxLen(buckets'[c]) <= Len(buckets'[c].data)
  BY <1>1, <1>2, <1>11, SprayGoesOn
<1>18. SprayOK'
  <2>1. Divided(buckets, temp[cur].begin_idx, IdxLen(temp[cur]), spray.idx_len)'
    BY <1>1, <1>17
  <2>2. \A c \in DOMAIN q' : \A k \in DOMAIN q'[c] :
          q'[c][k].perm \in temp[cur].begin_idx .. temp[cur].end_idx - 1
    <3> PICK f : f = [c \in 1 .. n |-> temp[cur].begin_idx]
      OBVIOUS
    <3> PICK t : t = [c \in 1 .. n |-> temp[cur].end_idx]
      OBVIOUS
    <3>1. \A c \in 1 .. n : \A k \in DOMAIN q[c] : q[c][k].perm \in f[c] .. t[c] - 1
      BY <1>3, <1>6
    <3>2. q \in [1 .. n -> Seq(Elements)]
      BY <1>3
    <3>3. \A c \in 1 .. n : \A k \in DOMAIN q'[c] : q'[c][k].perm \in f[c] .. t[c] - 1
      BY ONLY <1>11, <3>1, <3>2, RestInRange
    <3> QED BY <1>11, <3>3
  <2>3. /\ \A c \in 1 .. n : c # b => q'[c] = q[c] /\ buckets'[c].data = buckets[c].data
        /\ \A k \in 1 .. slots : ~IsHole(buckets[b].data[k]) => ~IsHole(buckets'[b].data[k])
        /\ q[b] = << >> => q'[b] = << >>
        /\ q'[b] = << >> \/ ~IsHole(buckets'[b].data[m])
    BY <1>7, <1>9 DEF Refilled
  <2>4. q'[b] = << >> \/ \A k \in 1 .. m : ~IsHole(buckets'[b].data[k])
    <3> SUFFICES ASSUME q'[b] # << >>, NEW k \in 1 .. m
                 PROVE  ~IsHole(buckets'[b].data[k])
      OBVIOUS
    <3>1. CASE k = m
      BY <2>3, <3>1
    <3>2. CASE k # m
      <4>1. k \in 1 .. i /\ k \in 1 .. slots
        BY <1>4, <1>7, <1>8, <3>2
      <4>2. q[b] # << >>
        BY <2>3
      <4> QED BY <1>6, <2>3, <4>1, <4>2
    <3> QED BY <3>1, <3>2
  <2>5. \A c \in 1 .. n : c < b => q'[c] = << >> \/ Full(buckets'[c].data)
    <3> TAKE c \in 1 .. n
    <3>1. c < b => c # b
      BY <1>5
    <3> QED BY <1>6, <2>3, <3>1
  <2>6. Len(buckets') > 0
    BY <1>3, <1>12
  <2>7. CASE m < slots
    <3>1. i' = m /\ bucket_idx' = b
      BY <1>1, <1>7, <1>8, <2>7
    <3>2. i' < Len(buckets'[bucket_idx'].data) /\ bucket_idx' <= Len(buckets') + 1
      BY <1>1, <1>4, <1>5, <1>3, <1>12, <2>7, <3>1
    <3>3. q'[bucket_idx'] = << >> \/ \A k \in 1 .. i' : ~IsHole(buckets'[bucket_idx'].data[k])
      BY <2>4, <3>1
    <3>4. \A c \in 1 .. Len(buckets') : c < bucket_idx' => q'[c] = << >> \/ Full(buckets'[c].data)
      BY <1>12, <2>5, <3>1
    <3> QED BY <1>1, <1>6, <1>17, <2>1, <2>2, <2>6, <3>2, <3>3, <3>4 DEF SprayOK
  <2>8. CASE ~(m < slots) /\ write_idx + 1 # slots
    <3>1. i' = 0 /\ bucket_idx' = b
      BY <1>1, <2>8
    <3>2. i' < Len(buckets'[bucket_idx'].data) /\ bucket_idx' <= Len(buckets') + 1
      BY <1>3, <1>5, <1>12, <1>17, <3>1
    <3>3. \A k \in 1 .. i' : ~IsHole(buckets'[bucket_idx'].data[k])
      BY <3>1
    <3>4. \A c \in 1 .. Len(buckets') : c < bucket_idx' => q'[c] = << >> \/ Full(buckets'[c].data)
      BY <1>12, <2>5, <3>1
    <3> QED BY <1>1, <1>6, <1>17, <2>1, <2>2, <2>6, <3>2, <3>3, <3>4 DEF SprayOK
  <2>9. CASE ~(m < slots) /\ write_idx + 1 = slots
    <3>1. m = slots
      BY <1>7, <1>8, <2>9
    <3>2. i' = 0 /\ bucket_idx' = b + 1
      BY <1>1, <2>9, <3>1
    <3>3. bucket_idx' <= Len(buckets') + 1 /\ bucket_idx' \in Nat \ {0}
      BY <1>3, <1>5, <1>12, <3>2
    <3>4. bucket_idx' <= Len(buckets') => i' < Len(buckets'[bucket_idx'].data)
      <4>1. bucket_idx' <= n => bucket_idx' \in DOMAIN buckets'
        BY <1>3, <1>12, <3>3
      <4> QED BY <1>12, <1>17, <3>2, <4>1
    <3>5. \A k \in 1 .. i' : ~IsHole(buckets'[bucket_idx'].data[k])
      BY <3>2
    <3>6. \A c \in 1 .. Len(buckets') : c < bucket_idx' => q'[c] = << >> \/ Full(buckets'[c].data)
      <4> SUFFICES ASSUME NEW c \in 1 .. n, c < b + 1
                   PROVE  q'[c] = << >> \/ Full(buckets'[c].data)
        BY <1>12, <3>2
      <4>1. CASE c = b
        <5>1. DOMAIN buckets'[b].data = 1 .. m
          BY <1>5, <1>7, <1>12, <3>1
        <5> QED BY <2>4, <4>1, <5>1 DEF Full
      <4>2. CASE c # b
        <5>1. c < b
          BY <1>4, <4>2
        <5> QED BY <2>5, <5>1
      <4> QED BY <4>1, <4>2
    <3> QED BY <1>1, <1>6, <1>17, <2>1, <2>2, <2>6, <3>3, <3>4, <3>5, <3>6 DEF SprayOK
  <2> QED BY <2>7, <2>8, <2>9
<1> QED BY <1>9, <1>10, <1>14, <1>15, <1>16, <1>17, <1>18 DEF ShuffleInv

-----------------------------------------------------------------------------
(* Every step *)

\* A program that has ended, or waits, leaves the invariant as it is.
LEMMA StutterKeeps ==
  ASSUME ShuffleInv, UNCHANGED vars
  PROVE  ShuffleInv'
<1>1. UNCHANGED <<job, pc, read_idx, i, write_idx, q, buckets, bucket_idx, arr_out,
                  temp, cur, new_temp, spray>>
  BY DEF vars, cacheOnly
<1>2. /\ IsMelbourne' = IsMelbourne /\ JobOK' = JobOK /\ len' = len
      /\ Positions' = Positions /\ Elements' = Elements /\ Cells' = Cells /\ Bucket' = Bucket
      /\ num_of_bucket' = num_of_bucket /\ p_log_len' = p_log_len
      /\ bucket_idx_len' = bucket_idx_len
  BY <1>1, JobStays
<1>3. TypeOK'
  BY <1>1, <1>2 DEF ShuffleInv, TypeOK
<1>4. IsMelbourne => MelbourneOK'
  <2>1. ASSUME IsMelbourne PROVE MelbourneOK
    BY <2>1 DEF ShuffleInv
  <2>2. Divided(buckets, 0, len, bucket_idx_len)' <=> Divided(buckets, 0, len, bucket_idx_len)
    BY <1>1, <1>2
  <2> QED BY <1>1, <1>2, <2>1, <2>2 DEF MelbourneOK
<1>5. ~IsMelbourne => CacheOK'
  <2>1. ASSUME ~IsMelbourne PROVE CacheOK
    BY <2>1 DEF ShuffleInv
  <2>2. Spraying' <=> Spraying
    BY <1>1 DEF Spraying
  <2>3. SprayOK => SprayOK'
    BY <1>1 DEF SprayOK
  <2> QED BY <1>1, <1>2, <2>1, <2>2, <2>3 DEF CacheOK
<1>6. RangesSplit' /\ QueuesInRange'
  BY <1>1, <1>2 DEF ShuffleInv, RangesSplit, QueuesInRange
<1>7. Placement'
  <2>1. Sources' = Sources /\ Tight' = Tight
    BY <1>1, <1>2 DEF Sources, Tight
  <2>2. Stores' = Stores
    BY <1>1, <2>1 DEF Stores
  <2>3. Slots' = Slots
    BY <2>2 DEF Slots
  <2>4. \A x : At(x)' = At(x) /\ Passed(x)' = Passed(x)
    BY <1>1, <1>2, <2>2 DEF At, Passed
  <2>5. \A x : x \in Places' <=> x \in Places
    BY <2>3, <2>4 DEF Places
  <2>6. UNCHANGED <<job, arr_out>> /\ Placement
    BY <1>1 DEF ShuffleInv
  <2> QED BY <2>1, <2>4, <2>5, <2>6, MovesNone
<1> QED BY <1>2, <1>3, <1>4, <1>5, <1>6, <1>7 DEF ShuffleInv

\* Every step of either program keeps the invariant.
LEMMA StepKeeps ==
  ASSUME ShuffleInv, [Next]_vars
  PROVE  ShuffleInv'
<1>1. CASE Melbourne
  <2>1. IsMelbourne /\ UNCHANGED cacheOnly /\ MelbourneNext
    BY <1>1 DEF Melbourne
  <2>2. CASE Distribute
    BY <2>1, <2>2, DistributeKeeps
  <2>3. CASE WriteOutput
    BY <2>1, <2>3, WriteOutputKeeps
  <2>4. CASE MelbourneCleanup
    BY <2>1, <2>4, MelbourneCleanupKeeps
  <2>5. CASE MelbourneReturn
    BY <2>1, <2>5, MelbourneReturnKeeps
  <2> QED BY <2>1, <2>2, <2>3, <2>4, <2>5 DEF MelbourneNext
<1>2. CASE Cache
  <2>1. ~IsMelbourne /\ CacheNext
    BY <1>2 DEF Cache
  <2>2. CASE CopyOne
    BY <2>1, <2>2, CopyOneKeeps
  <2>3. CASE FirstSpray
    BY <2>1, <2>3, FirstSprayKeeps
  <2>4. CASE Respray
    BY <2>1, <2>4, ResprayKeeps
  <2>5. CASE Keep
    BY <2>1, <2>5, KeepKeeps
  <2>6. CASE SprayRead
    BY <2>1, <2>6, SprayReadKeeps
  <2>7. CASE WritePass
    BY <2>1, <2>7, WritePassKeeps
  <2>8. CASE Refill
    BY <2>1, <2>8, RefillKeeps
  <2>9. CASE EndSpray
    BY <2>1, <2>9, EndSprayKeeps
  <2>10. CASE EndRound
    BY <2>1, <2>10, EndRoundKeeps
  <2>11. CASE CacheCleanup
    BY <2>1, <2>11, CacheCleanupKeeps
  <2>12. CASE CacheReturn
    BY <2>1, <2>12, CacheReturnKeeps
  <2> QED BY <2>1, <2>2, <2>3, <2>4, <2>5, <2>6, <2>7, <2>8, <2>9, <2>10, <2>11, <2>12 DEF CacheNext
<1>3. CASE Terminating \/ UNCHANGED vars
  BY <1>3, StutterKeeps DEF Terminating
<1> QED BY <1>1, <1>2, <1>3 DEF Next

\* In every reachable state the invariant holds, for every permutation, blow-up
\* factor, slack and memory: what the two programs read, queue, write, refill and
\* clean up never loses or doubles an element or takes it out of its range.
THEOREM ShufflesAreInvariant == Spec => []ShuffleInv
<1>1. Init => ShuffleInv
  BY MelbourneStarts, CacheStarts DEF Init
<1>2. ShuffleInv /\ [Next]_vars => ShuffleInv'
  BY StepKeeps
<1> QED BY <1>1, <1>2, PTL DEF Spec

\* However ranges are divided and rounded, buckets divide the range of the bucket
\* that is sprayed, or the output (init_empty_shuffle_buckets, find_suitable_partitions).
THEOREM RangesAlwaysSplit == Spec => []RangesSplit
<1>1. ShuffleInv => RangesSplit
  BY DEF ShuffleInv
<1> QED BY <1>1, ShufflesAreInvariant, PTL

\* The Melbourne shuffle aborts only where a batch has more elements than a bucket
\* has slots for one, the cache shuffle only past the second pass of a spray over a
\* range longer than its queues.
THEOREM AbortsAreTight == Spec => []AbortsOnlyWhenTight
<1>1. ShuffleInv => AbortsOnlyWhenTight
  <2> SUFFICES ASSUME ShuffleInv, pc = "aborted" PROVE AbortsOnlyWhenTight
    BY DEF AbortsOnlyWhenTight
  <2>1. CASE IsMelbourne
    BY <2>1 DEF ShuffleInv, MelbourneOK, AbortsOnlyWhenTight
  <2>2. CASE ~IsMelbourne
    <3>1. Spraying
      BY DEF Spraying
    <3>2. SprayOK
      BY <2>2, <3>1, InSpray
    <3> QED BY <2>2, <3>2 DEF SprayOK, AbortsOnlyWhenTight
  <2> QED BY <2>1, <2>2
<1> QED BY <1>1, ShufflesAreInvariant, PTL

\* A shuffle that returns has taken every element to its place; after a tight spray a
\* place may be left as it was, but never gets another's element.
THEOREM ReturnsDelivered == Spec => []Delivered
<1>1. ShuffleInv => Delivered
  <2> SUFFICES ASSUME ShuffleInv, pc = "done", NEW v \in 0 .. len - 1
               PROVE  LET at == arr_out[job.perm[v + 1]]
                      IN at = v \/ (Tight /\ at = -1)
    BY DEF Delivered
  <2>1. JobOK /\ Present /\ PlacedRight
    BY DEF ShuffleInv, TypeOK, Placement
  <2>2. /\ len \in Nat \ {0} /\ DOMAIN job.perm = 1 .. len
        /\ job.perm \in [1 .. len -> Positions]
        /\ \A k, m \in 1 .. len : job.perm[k] = job.perm[m] => k = m
    BY <2>1, JobFacts
  <2>3. Places = {}
    BY DEF Places, Passed
  <2> PICK k : k = v + 1
    OBVIOUS
  <2> PICK at : at = arr_out[job.perm[v + 1]]
    OBVIOUS
  <2>4. k \in 1 .. len /\ k - 1 = v /\ job.perm[k] \in Positions
    BY <2>2
  <2>5. Tight \/ at = v
    BY <2>1, <2>2, <2>3, <2>4 DEF Present
  <2>6. at = -1 \/ (at \in Positions /\ job.perm[at + 1] = job.perm[k])
    BY <2>1, <2>4 DEF PlacedRight
  <2>7. ASSUME at \in Positions, job.perm[at + 1] = job.perm[k] PROVE at = v
    <3>1. at + 1 \in 1 .. len /\ at \in Int
      BY <2>2, <2>7 DEF Positions
    <3>2. at + 1 = k
      BY <2>2, <2>4, <2>7, <3>1
    <3> QED BY <2>4, <3>1, <3>2
  <2> QED BY <2>5, <2>6, <2>7
<1> QED BY <1>1, ShufflesAreInvariant, PTL

-----------------------------------------------------------------------------
(* Counting the elements *)

\* A set whose elements have values of their own has as many values as elements.
LEMMA OneValueEach ==
  ASSUME NEW A, IsFiniteSet(A), NEW f, \A x, y \in A : f[x] = f[y] => x = y,
         NEW B, \A x \in A : f[x] \in B, \A y \in B : \E x \in A : f[x] = y
  PROVE  IsFiniteSet(B) /\ Cardinality(B) = Cardinality(A)
<1> DEFINE h == [x \in A |-> f[x]]
<1>1. h \in [A -> B] /\ \A x \in A : h[x] = f[x]
  OBVIOUS
<1> HIDE DEF h
<1>2. h \in Injection(A, B)
  BY <1>1 DEF Injection, IsInjective
<1>3. h \in Surjection(A, B)
  BY <1>1 DEF Surjection
<1>4. h \in Bijection(A, B)
  BY <1>2, <1>3 DEF Bijection
<1>5. ExistsBijection(A, B)
  BY <1>4 DEF ExistsBijection
<1> QED BY <1>5, FS_Bijection

\* At any time an element is in one place of the input, the queues and the buckets, or
\* in the output; none is lost but what a tight spray leaves.
THEOREM ElementsConserved == Spec => []Conserved
<1>1. ASSUME ShuffleInv PROVE Conserved
  <2> DEFINE A == {At(x).value : x \in Places}
             B == {arr_out[j] : j \in Placed}
  <2>1. JobOK /\ TypeOK /\ Alone /\ NotPlaced /\ PlacedRight /\ Present /\ DOMAIN arr_out = Positions
    BY <1>1 DEF ShuffleInv, TypeOK, Placement
  <2>2. /\ len \in Nat \ {0} /\ DOMAIN job.perm = 1 .. len
        /\ job.perm \in [1 .. len -> Positions]
        /\ \A k, m \in 1 .. len : job.perm[k] = job.perm[m] => k = m
    BY <2>1, JobFacts
  <2>3. \A x \in Places : At(x) \in Elements
    BY <2>1, PlacesHold
  <2>4. /\ \A e \in Elements : /\ e.value \in Positions /\ e.perm \in Positions
                               /\ job.perm[e.value + 1] = e.perm
        /\ \A k \in 1 .. len : \E e \in Elements : e.value = k - 1 /\ e.perm = job.perm[k]
        /\ \A e, f \in Elements : e.perm = f.perm => e = f
    BY <2>1, ElementFacts
  <2>5. \A j \in Placed : /\ j \in Positions /\ arr_out[j] # -1 /\ arr_out[j] \in Positions
                          /\ job.perm[arr_out[j] + 1] = j
    BY <2>1 DEF Placed, PlacedRight
  <2>6. IsFiniteSet(Positions)
    <3>1. 0 \in Int /\ len - 1 \in Int
      BY <2>2
    <3>2. IsFiniteSet(0 .. len - 1)
      BY ONLY <3>1, FS_Interval
    <3> QED BY <3>2 DEF Positions
  <2>7. IsFiniteSet(Places)
    <3> DEFINE g == [x \in Places |-> At(x).perm]
    <3>1. g \in [Places -> Positions] /\ \A x \in Places : g[x] = At(x).perm
      BY <2>3, <2>4
    <3> HIDE DEF g
    <3>2. \A x, y \in Places : g[x] = g[y] => x = y
      BY <2>1, <3>1 DEF Alone
    <3>3. g \in Injection(Places, Positions)
      BY <3>1, <3>2 DEF Injection, IsInjective
    <3> QED BY <2>6, <3>3, FS_Injection
  <2>8. IsFiniteSet(Placed)
    <3>1. Placed \subseteq Positions
      BY <2>1 DEF Placed
    <3> QED BY <2>6, <3>1, FS_Subset
  <2>9. IsFiniteSet(A) /\ Cardinality(A) = Cardinality(Places)
    <3> DEFINE g == [x \in Places |-> At(x).value]
    <3>1. \A x \in Places : g[x] = At(x).value
      OBVIOUS
    <3> HIDE DEF g
    <3>2. \A x, y \in Places : g[x] = g[y] => x = y
      <4> SUFFICES ASSUME NEW x \in Places, NEW y \in Places, g[x] = g[y] PROVE x = y
        OBVIOUS
      <4>1. At(x).perm = At(y).perm
        BY <2>3, <2>4, <3>1
      <4> QED BY <2>1, <4>1 DEF Alone
    <3>3. /\ \A x \in Places : g[x] \in A
          /\ \A y \in A : \E x \in Places : g[x] = y
      BY <3>1
    <3> HIDE DEF A
    <3> QED BY ONLY <2>7, <3>2, <3>3, OneValueEach
  <2>10. IsFiniteSet(B) /\ Cardinality(B) = Cardinality(Placed)
    <3>1. \A j, m \in Placed : arr_out[j] = arr_out[m] => j = m
      BY <2>5
    <3>2. /\ \A j \in Placed : arr_out[j] \in B
          /\ \A y \in B : \E j \in Placed : arr_out[j] = y
      OBVIOUS
    <3> HIDE DEF B
    <3> QED BY ONLY <2>8, <3>1, <3>2, OneValueEach
  <2>11. A \cap B = {}
    <3> SUFFICES ASSUME NEW x \in Places, NEW j \in Placed, At(x).value = arr_out[j] PROVE FALSE
      OBVIOUS
    <3>1. At(x).perm = j
      BY <2>3, <2>4, <2>5
    <3> QED BY <2>1, <2>5, <3>1 DEF NotPlaced
  <2>12. Tight \/ A \cup B = 0 .. len - 1
    <3> SUFFICES ASSUME ~Tight PROVE A \cup B = Positions
      BY DEF Positions
    <3>1. A \cup B \subseteq Positions
      BY <2>3, <2>4, <2>5
    <3>2. ASSUME NEW v \in Positions PROVE v \in A \cup B
      <4> PICK k : k = v + 1
        OBVIOUS
      <4>1. k \in 1 .. len /\ k - 1 = v /\ v # -1
        BY <2>2 DEF Positions
      <4>2. CASE arr_out[job.perm[k]] = k - 1
        <5>1. job.perm[k] \in Placed
          BY <2>1, <2>2, <4>1, <4>2 DEF Placed
        <5> QED BY <4>1, <4>2, <5>1
      <4>3. CASE \E x \in Places : At(x).perm = job.perm[k]
        <5>1. PICK x \in Places : At(x).perm = job.perm[k]
          BY <4>3
        <5>2. PICK e \in Elements : e.value = k - 1 /\ e.perm = job.perm[k]
          BY <2>4, <4>1
        <5>3. At(x) = e
          BY <2>3, <2>4, <5>1, <5>2
        <5> QED BY <4>1, <5>2, <5>3
      <4> QED BY <2>1, <2>2, <4>1, <4>2, <4>3 DEF Present
    <3> QED BY <3>1, <3>2
  <2>13. Cardinality(A \cup B) = Cardinality(Places) + Cardinality(Placed)
    <3> HIDE DEF A, B
    <3>1. Cardinality(A \cup B) = Cardinality(A) + Cardinality(B) - Cardinality({})
      BY <2>9, <2>10, <2>11, FS_Union
    <3>2. Cardinality({}) = 0 /\ Cardinality(A) \in Nat /\ Cardinality(B) \in Nat
      BY <2>9, <2>10, FS_EmptySet, FS_CardinalityType
    <3> QED BY <2>9, <2>10, <3>1, <3>2
  <2> QED BY <2>12, <2>13 DEF Conserved
<1> QED BY <1>1, ShufflesAreInvariant, PTL

=============================================================================
