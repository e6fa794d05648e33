------------------------------ MODULE Programs ------------------------------
(***************************************************************************)
(* A caller of the sorts, searches and mining programs, and of the one     *)
(* program of the PAO library.  A call names its program and its input; a  *)
(* step is one section or phase of the program, and takes what is random   *)
(* or unspecified in it as it comes.                                       *)
(***************************************************************************)
EXTENDS MergeSort, SortingNet, Searches, GraphSC, PAORuntime

CONSTANTS
  Calls,         \* the calls, records with the fields of their program
  MaxIterations  \* of kmeans; the code's is 100000

VARIABLES
  call,   \* the call that is served
  pc,     \* the next phase; "returned" or "aborted", or "faulting" for ever
  local   \* the locals of the program

vars == <<call, pc, local>>

Init == call \in Calls /\ pc = "called" /\ local = << >>

Running(program, phase) == call.program = program /\ pc = phase

Becomes(phase, value) == pc' = phase /\ local' = value /\ UNCHANGED call

-----------------------------------------------------------------------------
(* merge_sort sorts a random order of its input.                             *)
MergeSortCall ==
  /\ Running("merge_sort", "called")
  /\ \E arr \in fisher_yates_shuffle(call.input) :
       LET sort == _merge_sort(arr, call.blow_up_factor)
       IN Becomes(IF sort.status = "sorted" THEN "returned" ELSE "aborted",
                  [arr |-> arr, out |-> sort.out, status |-> sort.status])

SortingNetCall ==
  /\ Running("merger", "called")
  /\ Becomes("returned", merger(Len(call.input), 0,
                                [i \in 0 .. Len(call.input) - 1 |-> call.input[i + 1]]))

(* A read-only map is made and searched in a later section, and so is the     *)
(* array of its keys.                                                         *)
SearchCall ==
  /\ Running("search", "called")
  /\ LET keys == [k \in 0 .. Len(call.input) - 1 |-> call.input[k + 1][1]]
         made == ROData(call.input, 2)
         data == [x \in reset_nob(made) |-> made[x]]
         idx  == find(data, 2, call.key)
     IN IF Unsorted(call.input) THEN Becomes("aborted", << >>)
        ELSE Becomes("returned",
               [idx    |-> idx,
                entry  |-> IF idx = -1 THEN << >> ELSE <<get_key(data, idx), get_value(data, idx)>>,
                middle |-> search(keys, Len(call.input), call.key)])

-----------------------------------------------------------------------------
KMeansStart ==
  /\ Running("kmeans", "called")
  /\ Becomes("map", [centers |-> SubSeq(call.input, 1, call.k), ids |-> << >>, iteration |-> 1])

KMeansMap ==
  /\ Running("kmeans", "map")
  /\ Becomes("reduce", [local EXCEPT !.ids = _kmeans_map(call.input, local.centers)])

(* The section of _kmeans_reduce.  The division by zero is an exception in   *)
(* its transaction, which is tried again for ever.                            *)
KMeansReduce ==
  /\ Running("kmeans", "reduce")
  /\ LET new_centers == _kmeans_reduce(call.input, local.ids, call.k)
     IN IF DividesByZero(call.input, local.ids, call.k) THEN Becomes("faulting", local)
        ELSE IF _kmeans_stop(local.centers, new_centers) THEN Becomes("returned", local)
        ELSE IF local.iteration = MaxIterations THEN Becomes("gave up", local)
        ELSE Becomes("map", [local EXCEPT !.centers = new_centers, !.iteration = @ + 1])

-----------------------------------------------------------------------------
MapReduceCalls == {"wc", "kmeans_mr"}

Mapped(kv) == IF call.program = "wc" THEN map_wc(kv)
              ELSE map_kmeans(kv, SubSeq([i \in DOMAIN call.input |-> call.input[i].value], 1, call.k))

MapPhase ==
  /\ call.program \in MapReduceCalls /\ pc = "called"
  /\ LET input == MapperInput(call.input)
     IN Becomes("shuffle", [interm |-> [k \in DOMAIN input |-> Mapped(input[k])], output |-> << >>])

ShufflePhase ==
  /\ call.program \in MapReduceCalls /\ pc = "shuffle"
  /\ \/ ShuffleMayAbort(Len(local.interm)) /\ Becomes("aborted", local)
     \/ \E shuffled \in Shuffles(local.interm) :
          Becomes("reduce", [local EXCEPT !.interm = shuffled])

(* Reducer 0 gets the even keys, reducer 1 the odd ones.                      *)
ReducePhase ==
  /\ call.program \in MapReduceCalls /\ pc = "reduce"
  /\ Becomes("returned",
       [local EXCEPT !.output =
          reducer(call.program, ReducerInput(local.interm, 1),
                  reducer(call.program, ReducerInput(local.interm, 0), @))])

WordcntCall ==
  /\ Running("wordcnt", "called")
  /\ Becomes("returned", wordcnt(call.input, call.output))

-----------------------------------------------------------------------------
ScatterPhase ==
  /\ Running("graphsc", "called")
  /\ \/ ShuffleMayAbort(Len(call.input)) /\ Becomes("aborted", local)
     \/ \E graph \in ScatterSorted(call.input) : Becomes("gather", _scatter(graph))

GatherPhase ==
  /\ Running("graphsc", "gather")
  /\ \/ ShuffleMayAbort(Len(local)) /\ Becomes("aborted", local)
     \/ \E graph \in GatherSorted(local) : Becomes("returned", _gather(graph))

-----------------------------------------------------------------------------
(* pao_naive_shuffle: arr_in, perm_in and arr_out are the arrays 1, 2 and 3.  *)
PAOStart ==
  /\ Running("pao", "called")
  /\ LET rt == init_array(init_array(init_array(init_pao_runtime(call.before), FALSE, call.input),
                                     FALSE, call.perm), TRUE, [i \in DOMAIN call.input |-> 0])
         begun == begin_leaky_sec(rt)
     IN Becomes("write", [rt |-> begun, i |-> 0, xbegin |-> [rt |-> begun, i |-> 0]])

PAOWrite ==
  /\ Running("pao", "write") /\ local.i < Len(call.input)
  /\ LET to   == read_at(local.rt, local.rt.arrays[2], local.i)
         from == read_at(to[2], to[2].arrays[1], local.i)
     IN Becomes("write", [local EXCEPT !.rt = write_at(from[2], from[2].arrays[3], to[1], from[1]),
                                       !.i = @ + 1])

(* The abort handler starts the transaction again.                            *)
PAOAbort ==
  /\ Running("pao", "write")
  /\ Becomes("write", [local EXCEPT !.rt = local.xbegin.rt, !.i = local.xbegin.i])

PAOEnd ==
  /\ Running("pao", "write") /\ local.i = Len(call.input)
  /\ Becomes("returned", [local EXCEPT !.rt = end_tx(@)])

Stopped == pc \in {"returned", "aborted", "faulting", "gave up"} /\ UNCHANGED vars

Next ==
  \/ MergeSortCall \/ SortingNetCall \/ SearchCall
  \/ KMeansStart \/ KMeansMap \/ KMeansReduce
  \/ MapPhase \/ ShufflePhase \/ ReducePhase \/ WordcntCall
  \/ ScatterPhase \/ GatherPhase
  \/ PAOStart \/ PAOWrite \/ PAOAbort \/ PAOEnd \/ Stopped

Spec == Init /\ [][Next]_vars

-----------------------------------------------------------------------------
Returned(program) == call.program = program /\ pc = "returned"

Count(x, s) == Cardinality({k \in DOMAIN s : s[k] = x})

SameElements(s, t) == \A x \in Range(s) \cup Range(t) : Count(x, s) = Count(x, t)

NonDecreasing(s) == \A i, j \in DOMAIN s : i < j => s[i] <= s[j]

(* Through queues of any size, merge_sort returns its input sorted or not at *)
(* all, and its last check, for unprocessed data, never fails.                *)
MergeSorts ==
  /\ Returned("merge_sort") => NonDecreasing(local.out) /\ SameElements(local.out, call.input)
  /\ call.program = "merge_sort" /\ pc = "aborted" => local.status # "unprocessed data"

(* merge_sort aborts only for an order in which one side of some merge runs   *)
(* ahead of the other by nearly the size of the queues.                       *)
AbortsOnlyUnbalanced ==
  call.program = "merge_sort" /\ pc = "aborted" /\ IsInjective(local.arr)
    => ~BalancedSort(local.arr, call.blow_up_factor)

(* The network sorts every input whose length is a power of two, by all       *)
(* inputs of two keys, and values stay with their keys.                       *)
NetworkSorts ==
  Returned("merger") =>
    /\ NonDecreasing([i \in DOMAIN local |-> local[i].key])
    /\ SameElements(local, call.input)

(* Whatever the size of the array, the searches find a key that is there, and *)
(* the map says so of one that is not.                                        *)
SearchesFind ==
  Returned("search") =>
    IF \E k \in DOMAIN call.input : call.input[k][1] = call.key
    THEN /\ local.idx # -1 /\ local.entry = call.input[local.idx + 1]
         /\ local.entry[1] = call.key
         /\ call.input[local.middle + 1][1] = call.key
    ELSE local.idx = -1

PointsOf(id) == {i \in DOMAIN call.input : local.ids[i] = id}

(* When kmeans returns, every point has the id of a centre nearest to it, and *)
(* the centres are the means of the ids' points, in both coordinates that of   *)
(* the first.  Which centre has which id is another matter: the sort between   *)
(* two rounds orders the centres and leaves the ids.                           *)
CentersFixed ==
  Returned("kmeans") =>
    LET Mean(id) == Quotient(MapThenSumSet(LAMBDA i : call.input[i][1], PointsOf(id)),
                             Cardinality(PointsOf(id)))
    IN /\ \A i \in DOMAIN call.input, other \in 1 .. call.k :
            _kmeans_distance(call.input[i], local.centers[local.ids[i] + 1])
              <= _kmeans_distance(call.input[i], local.centers[other])
       /\ SameElements(local.centers, [j \in 1 .. call.k |-> <<Mean(j - 1), Mean(j - 1)>>])

(* Different points to start from each keep a point in the first round, so     *)
(* that the division by zero of a centre without points waits for a later one. *)
FirstRoundDivides ==
  call.program = "kmeans" /\ pc = "faulting" /\ local.iteration = 1
    => ~IsInjective(SubSeq(call.input, 1, call.k))

(* Two mappers, a shuffle and two reducers count each word of the input, and  *)
(* so does wordcnt, on top of what is in its output.                          *)
CountsRight ==
  /\ Returned("wc") =>
       LET words == [k \in DOMAIN call.input |-> call.input[k].value[1]]
       IN /\ DOMAIN local.output = ToSet(words)
          /\ \A w \in ToSet(words) : local.output[w] = <<Count(w, words)>>
  /\ Returned("wordcnt") =>
       \A w \in DOMAIN local : local[w] = call.output[w] + Count(w, call.input)

Nearest(p, centers) ==
  {j \in DOMAIN centers : \A l \in DOMAIN centers :
     _kmeans_distance(p, centers[j]) <= _kmeans_distance(p, centers[l])}

(* Although keys and both coordinates are shuffled apart and shared out to two *)
(* reducers, a round of k-means on the mapreduce runtime gives each centre     *)
(* that is the first nearest one of a point the mean of those points, in both  *)
(* coordinates, and no other centre a mean.  (The round of kmeans gives the    *)
(* mean of x for both.)                                                        *)
MeansRight ==
  Returned("kmeans_mr") =>
    LET points  == [i \in DOMAIN call.input |-> call.input[i].value]
        centers == SubSeq(points, 1, call.k)
        Of(id)  == {i \in DOMAIN points : Min(Nearest(points[i], centers)) = id + 1}
        Mean(id, c) == MapThenSumSet(LAMBDA i : points[i][c], Of(id)) \div Cardinality(Of(id))
    IN /\ DOMAIN local.output = {id \in 0 .. call.k - 1 : Of(id) # {}}
       /\ \A id \in DOMAIN local.output : local.output[id] = <<Mean(id, 1), Mean(id, 2)>>

InEdges(v) == {k \in DOMAIN call.input : call.input[k].is_v = 0 /\ call.input[k].dst_v = v}

DataOf(v) == (CHOOSE ve \in ToSet(call.input) : ve.is_v = 1 /\ ve.src_v = v).data

(* However the shuffles and sorts order equal entries, a vertex ends with the *)
(* sum of the data its predecessors began with, an edge counted each time.    *)
VerticesSummed ==
  Returned("graphsc") =>
    \A k \in DOMAIN local :
      local[k].is_v = 1 =>
        local[k].data = MapThenSumSet(LAMBDA e : DataOf(call.input[e].src_v), InEdges(local[k].dst_v))

(* The copies of a pair of read-only arrays hold arrays of this length.       *)
PAOFits == Len(call.input) <= OB_SIZE \div 2

(* Wherever an earlier runtime left the cursors, the copies of the arrays and *)
(* their structs stay out of each other's way: writes through one array never  *)
(* change another one's copy or any struct.                                    *)
PAOApart ==
  call.program = "pao" /\ pc = "write" /\ PAOFits =>
    \A j \in DOMAIN local.rt.arrays :
      LET ob == local.rt.arrays[j]
      IN /\ \A x \in ob.at .. ob.at + ObjectInts - 1 : local.rt.mem[x] = Struct
         /\ ~ob.rw => \A k \in DOMAIN CopyOf(ob) : local.rt.mem[CopyOf(ob)[k]] = ob.data[k + 1]

(* Aborts and earlier runtimes notwithstanding, pao_naive_shuffle permutes     *)
(* arrays that fit their copies.                                               *)
PAOShuffles ==
  Returned("pao") /\ PAOFits =>
    \A i \in DOMAIN call.input : local.rt.arrays[3].data[call.perm[i] + 1] = call.input[i]
=============================================================================
