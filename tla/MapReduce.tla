------------------------------ MODULE MapReduce ------------------------------
(***************************************************************************)
(* mapreduce_rt with its two programs, word count and a step of k-means.   *)
(* A pair has an integer key and a sequence of integers.  Each call of      *)
(* melbourne_shuffle between them does what BucketShuffles shows of it.     *)
(***************************************************************************)
EXTENDS KMeans, ShuffleBuckets

KV(key, value) == [key |-> key, value |-> value]

Total(numbers) == FoldLeft(LAMBDA sum, x : sum + x, 0, numbers)

(* The part of the input that a mapper gets.                                 *)
Part(input, start, pt_size) == SubSeq(input, start + 1, start + pt_size)

map_wc(kv) == KV(kv.value[1], <<1>>)

map_kmeans(kv, centers) == KV(NearestCenter(kv.value, centers), kv.value)

(* Fault to seed: both mappers get a full half, as if the length were even.  *)
RoundedHalves(input) ==
  LET half == (Len(input) + 1) \div 2
  IN Part(input, 0, half) \o Part(input, Len(input) - half, half)

(* What two mappers read, the first half of the input and the rest.          *)
MapperInput(input) ==
  LET half == Len(input) \div 2
  IN Part(input, 0, half) \o Part(input, half, half + (Len(input) % 2))

(* A batch may be larger than its share of a bucket; for one element it is.  *)
ShuffleMayAbort(n) == CeilLog2(n) < find_suitable_partitions(n, CeilSqrt(n))

gen_random_sequence(n) == fisher_yates_shuffle([i \in 1 .. n |-> i])

(* What melbourne_shuffle returns: an element is at the place perm gives it.  *)
Permuted(arr, perm) ==
  LET from == AntiFunction(perm) IN [i \in DOMAIN arr |-> arr[from[i]]]

(* Fault to seed: an element is taken from the place perm gives it.          *)
PlaceByInverse(interm, perm, p) == [i \in DOMAIN interm |-> interm[perm[i]].value[p]]

(* The numbers at place p of the values, shuffled by a call of their own.     *)
ShuffledPlace(interm, perm, p) ==
  Permuted([i \in DOMAIN interm |-> interm[i].value[p]], perm)

(* The keys are shuffled, then each place of the values, by one permutation,  *)
(* and the pairs are put together again.                                      *)
Shuffled(interm, perm) ==
  LET keys   == Permuted([i \in DOMAIN interm |-> interm[i].key], perm)
      values == [p \in DOMAIN interm[1].value |-> ShuffledPlace(interm, perm, p)]
  IN [i \in DOMAIN interm |-> KV(keys[i], [p \in DOMAIN values |-> values[p][i]])]

(* The permutations by which a shuffle of n elements may go through.          *)
ShufflePerms(n) == IF n = 1 THEN {} ELSE gen_random_sequence(n)

Shuffles(interm) == {Shuffled(interm, perm) : perm \in ShufflePerms(Len(interm))}

ReducerInput(interm, parity) == SelectSeq(interm, LAMBDA kv : kv.key % 2 = parity)

(* The values of a key, in the order they came.                              *)
TableAt(kvs, key) ==
  LET pairs == SelectSeq(kvs, LAMBDA kv : kv.key = key)
  IN [k \in DOMAIN pairs |-> pairs[k].value]

reduce_wc(values) == <<Total([k \in DOMAIN values |-> values[k][1]])>>

reduce_kmeans(values) ==
  [c \in 1 .. 2 |-> Total([k \in DOMAIN values |-> values[k][c]]) \div Len(values)]

Reduced(program, values) == IF program = "wc" THEN reduce_wc(values) ELSE reduce_kmeans(values)

(* A key that the output already has keeps its value.                        *)
emit(output, results) == output @@ results

reducer(program, kvs, output) ==
  emit(output, [key \in {kvs[k].key : k \in DOMAIN kvs} |-> Reduced(program, TableAt(kvs, key))])

(* The one section of wordcnt adds to what the output holds.                 *)
wordcnt(input, output) ==
  FoldLeft(LAMBDA counts, w : [counts EXCEPT ![w] = @ + 1], output, input)
=============================================================================
