# CMO in TLA+

A verification development for the cache-miss-oblivious (CMO) runtime and the
library built on it.  The program is sequential C++ that runs inside an SGX
enclave and hides which data it touches: inside a *leaky section* all accesses
go to a copy of the data in a piece of memory laid out so that it stays in the
L1 cache, under a hardware transaction (TSX) that aborts when a line is
evicted.  What makes it hard is not threads but layout arithmetic, chunks of
several iterators that move together, transactions that may be taken back at any
instruction and retried, and the many small data structures built on top.

## 1. Inventory

| Component | Source | State | Operations | Interacts with |
|---|---|---|---|---|
| CMO runtime | `src/lib/cmo.cpp`, `include/cmo.h` | cursors, vectors of objects, object structs, ALLOC record, shadow memory, the transaction | `init_*`, `begin/end_leaky_sec`, `ob_*_next`, `nob_*_at`, `reset_*`, `cmo_abort`, `free_cmo_runtime`; the hardware's aborts | called by everything below; calls nothing |
| Memory pool | `include/cmo_mempool.h` | header, list of free and list of used blocks in one int array | `alloc_block`, `free_block`, read, write, enumerate, `reset_nob` | on a NobArray |
| SimpleQueue | `include/cmo_queue.h` | ring and packed indices in one int array | `enqueue`, `dequeue`, `front`, `size`, `reset_nob` | on a NobArray |
| MultiQueue | `include/cmo_queue.h` | a list for each queue and one of free blocks, in one int array | push, pop, read at both ends, `full`, `reset_nob` | on a NobArray |
| AVL tree, set, map | `include/cmo_avltree.h` | root, size; nodes in a memory pool | `insert`, `remove`, `find`, `set_value`, enumerate | on the pool |
| Array, ROArray | `include/cmo_array.h` | length, size and elements in one int array | read, write, `write_leaky`, `reset_nob` | on a NobArray |
| ROSet, ROMap | `include/cmo_readonly_set_map.h` | a sorted ROArray | `find`, `get_*` | on ROArray |
| Block copies | `include/cmo_mem.h` | none | `read_element`, `write_element` | used by all containers |
| Shuffles | `src/algo/{naive,melbourne,cache}_shuffle.cpp`, `shuffle_bucket.*` | program locals, buckets | one function each | on the runtime, MultiQueue |
| Sorts | `src/algo/merge_sort.cpp`, `sorting_net.cpp` | program locals | one function each | merge sort on the runtime and SimpleQueue |
| Queries and mining | `bs.cpp`, `element_count.cpp`, `wordcnt*.cpp`, `kmeans*.cpp`, `mapreduce.cpp`, `sketch.cpp`, `trace_back.cpp`, `graphsc.cpp` | program locals | one function each | on the runtime, Array, AVLMap |
| PAO library | `src/pao_lib/pao.cpp`, `src/pao_algo` | an older runtime, with an index in place of the iterator | as the runtime | stands alone |
| Enclave shell, utilities | `sgx/`, `src/lib/utils.cpp` | none | ecalls, random numbers, conditional moves | calls the algorithms |
| Build options | `cmo.cpp` under `PFO`, `DUMMY`, no `OLD_ALLOC` | none | alternatives that the checked-in build turns off | none |

What makes the parts correct, and what is hard about them:

* **Runtime.**  A client must see plain arrays: iterators deliver each element
  once and in order, writes land once and in order, an abort undoes all of a
  transaction or none of it.  Hard: one iterator that uses up its chunk moves the
  chunks of all; the copy-back takes whole chunks; an abort may come at any
  instruction, and the shares of the cache sets are floors of a division.  And
  its purpose: no two ints of the shadow memory coincide, and what a
  transaction touches fits the ways of the L1 cache.
* **Containers.**  Each is an abstract type (bounded FIFO, double-ended queues,
  pool, dictionary) in an array of ints with packed 16-bit addresses.  Hard:
  the order of link updates, blocks that move from one list to another, wrap-around,
  capacity 1, a length word that a later section reads back, rotations and the
  removal of a node with two children.
* **Algorithms.**  Each is a sequential client with one or more sections.  Hard:
  queues and buckets sized for a random input, sections that hardly fit, objects used
  outside their section, aborts of the transaction in the middle of an expression.

`hazards` in PROJECT.json has these line by line.

## 2. Modules and the code

| Module | Models |
|---|---|
| `ShadowLayout` | the geometry: `cal_ob`, `cal_ob_rw`, `cal_nob`, `cal_read_nob`, the division of the sets by `begin_leaky_sec`, slot sizes |
| `CMORuntime` | the runtime: an action is a call of the client (`init_*`, `begin_leaky_sec`, `ob_read_next`, ...) or an abort of the transaction; `begin_tx` and `end_tx` are operators the calls use |
| `ObliviousArrays` | what the runtime promises: arrays and positions, no shadow memory, a section that may fall back to an earlier state |
| `NaiveShuffle` | `naive_shuffle` as the client: its calls, its locals (restored by an abort), the open order in which C++ evaluates two arguments |
| `PackedWords` | two 16-bit fields in an int; elements of whole ints |
| `SimpleQueue`, `FIFO` | the ring, word by word; what it promises |
| `LinkedBlocks` | the list surgery that pool and queues share; `Chain`, the blocks next addresses reach |
| `MemoryPool`, `BlockPool` | the pool, word by word; what it promises |
| `MultiQueue`, `Queues` | the queues, word by word; what they promise |
| `AVLTree`, `Dictionary` | the tree over BlockPool's blocks, with recursive operators after the member functions; what AVLMap promises |
| `ElementCount` | both sections of `element_count` over `AVLTree` |
| `ShuffleBuckets` | `shuffle_bucket.*`: how a range of places is divided (`find_suitable_partitions`, the ranges of the buckets, the bucket of a place), a bucket's slots, `randomize_shuffle_bucket`, the queues, the clean-up into the output |
| `ShuffleState` | the locals that both shuffles have |
| `MelbourneShuffle`, `CacheShuffle` | the two programs, a turn of a loop a step where an abort can come between turns, otherwise a section: batches into queues and on into buckets; sprays of ranges, the refill slot by slot, the clean-up bucket by bucket |
| `BucketShuffles` | a caller of either, and what both must do |
| `MergeSort` | `merge_sort`: the halves, the merge with its prefetch and its queues |
| `SortingNet` | `sorting_net.cpp`: `bitonicSort`, `merger`, the swaps of pairs |
| `CMOArray` | `Array` and `ROArray` in their array of ints, over sections |
| `Searches` | `ROSet` and `ROMap` on `CMOArray`; `bs.cpp` |
| `KMeans` | `kmeans.cpp`: map, reduce on `CMOArray`, the sort of the centres, the stop |
| `MapReduce` | `mapreduce.cpp` with its programs: `wordcnt*.cpp`, the map and reduce of `kmeans_mr.cpp` |
| `GraphSC` | `graphsc.cpp`: scatter, gather and the orders they sort by |
| `PAORuntime` | `pao.cpp`, the older runtime, with its cursors left from earlier runtimes |
| `Programs` | a caller of the programs from `MergeSort` to `PAORuntime`: a step is a section or phase |
| `IntegerDivision` | lemmas on div and mod |
| `CMORuntimeProofs` | theorems about the layout, the runtime and its refinement of ObliviousArrays |
| `NaiveShuffleProofs` | theorems about `naive_shuffle` on the runtime, on top of those |
| `SimpleQueueProofs` | theorems about the ring |
| `LinkedBlocksProofs` | lemmas on lists in an array: what next addresses reach, what each piece of surgery does to the list, to other lists and to elements |
| `MultiQueueProofs`, `MemoryPoolProofs` | theorems about the queues and the pool, from those lemmas |
| `BucketShufflesProofs` | theorems about the division of a range and about both shuffles |
| `MC*` | values of the constants for TLC; each `.cfg` names the run's bounds in its first line |

Composition is by layer.  The runtime is shown to implement ObliviousArrays, so
containers are modelled on a plain array (`data`), with `reset_nob` recording
the length each new section registers; an abort takes a container back with its
array, because its whole state is in the array.  `MemoryPool` is shown to
implement `BlockPool`, and `AVLTree` uses that pool; `ElementCount` extends
`AVLTree`.  `NaiveShuffle` is composed with the runtime itself, not with its abstraction,
because the locals of the program are part of what an abort restores.  The other
algorithms use the runtime's promise, plain arrays: there a section without its
aborts is enough, since an abort takes the client back to an earlier state of the
section (`ImplementsObliviousArrays`).  Likewise the bucket shuffles use the promise of
MultiQueue (queues that share a bound) and the merges that of SimpleQueue.  PAO is not the
runtime that was shown to keep the promise, so its program is modelled with its aborts.  A caller module
(`BucketShuffles`, `Programs`) serves one call, whose input is its initial state.
What is random (`fisher_yates_shuffle`, the shuffles inside mapreduce and graphsc)
or unspecified (the order an unstable sort gives to equal entries) is every outcome for short
sequences; `MaxArranged` names the length above which it is a few arrangements only.

Correspondence of the runtime's state: `meta_pos`, `cur_ob`, `cur_ob_rw`, `cur_nob`, `shadow_mem`,
`shadow_mem_len`, `shadow_mem_pos`, `iter_pos`, `alloc` are the fields of the same name;
`vec` abstracts the four vectors to their size and total length, `obj` has
kind, length and place in the vector, `data` is the client's array, `shadow` is
`g_shadow_mem`, `chk` what the processor saves at `xbegin`, `ret` the last value
returned.  `phase` is where the client is; `trapped` is an `xend` outside a
transaction.

Operators whose comment begins *Fault to seed* are no part of the model: each is a
plausible bug, and `mutants` in PROJECT.json names the property that notices
when it takes the place of the definition after it.

## 3. Runs

| Run | Question | Bounds and why they are enough |
|---|---|---|
| `sections` | Does a client see plain arrays over two sections, with chunks ready, copies of what is only read never stale (`CopiesMatch`), commits final, no two ints in one place, and no set over its ways, through chunk moves and aborts? | two objects of any kind, of lengths 1 and 3: two iterators whose chunks move together (slots of 1 to 3), an iterator beside an array, a writer of 1 that gets no set beside a reader of 3; rewinds and leaky writes between sections.  Larger geometries and more objects are the theorems' business |
| `naive_shuffle` | Is the array shuffled, is no work done twice, does the program end? | every permutation of up to four, five (one set left), six (none left) and nine (refused) elements; two aborts per transaction |
| `starved_shuffle` | *(violation)* Does a section without sets for the iterators end? | six elements |
| `simple_queue` | Is the ring a FIFO? | three elements of two ints, so that it wraps with every fill |
| `memory_pool` | Are the lists a pool? | four blocks: a first, a last and two inner ones to free |
| `pool_reset` | *(violation)* Does a later section cover a pool that blocks were freed of? | three blocks |
| `multi_queue` | Are the lists double-ended queues that share a bound? | two queues, three blocks of two ints |
| `single_block_queues` | *(violation)* Does `full()` say so when the only block is in use? | one block |
| `avl_tree` | Is the tree balanced, ordered, without leaks, a dictionary? | six nodes for seven keys: rotations in a remove that move an inner subtree (from five nodes on), a full pool that lacks a key; two values for every key, so that one lost or moved to another key shows.  `VIEW UpToAddresses` (in `MCAVLTree`) takes trees for the same that differ only in which addresses their nodes have and in the order those were allocated in: the operations use addresses as links only, and the properties do not name them |
| `element_count` | Are the counts right, and is a wrong number of elements refused? | arrays of up to six of four keys, three stated |
| `bucket_shuffles` | Is each element in one place at any time and at the right one in the end, are the ranges sound, are aborts confined to tight queues, does the program end? | every permutation of up to five elements, and lucky and unlucky ones of 6 to 26: 26 is the first length at which a Melbourne batch can exceed its share with factor 1, 10 to 22 give uneven ranges and two rounds of sprays; with and without slack (`epsilon`); passes of one element up; 40, 49 and 64 elements for sprays whose last bucket has more positions than slots, or none has |
| `programs` | Do the sorts sort, the searches find, the mining programs compute what they say, and does PAO keep its arrays apart? | merges of up to 7 elements in every order, 16 in nine chosen ones that run a side ahead by 0 to 8, 32 in a few; networks on every 0-1 input of 2, 4 and 8 (the 0-1 principle); searches of every sequence of up to 4 of five keys and of 5 to 9 elements; three to five points with up to three centres; up to four words; three vertices and three edges; PAO after zero to three earlier runtimes, with arrays that fit and one (5) that does not.  Keys, each place of the values of `mapreduce`, and the four fields of `graphsc` are shuffled apart and put together again, as the code does; a caller of `kmeans_mr` sees one round, whose means are compared with those of the points in both coordinates (`MeansRight`) |

Bounds that are in the modules: `MaxObjects` (objects of a runtime; the callers
have five at most), `MaxSections`, `MaxRetries` (aborts of a transaction),
`MaxLen` (the array of element_count), `Capacity`, `NumQueues`, `MaxArranged` (above), `MaxIterations`
(rounds of kmeans: 6, where the code has 100000; a call that needs more ends as
"gave up" and no property speaks of it).  `OB_SIZE`, `META_SIZE`, `ObjectInts` and `ShadowInts`
scale PAO's memory down: 8, 8, 2 and 64 ints, in the code's proportions of several copies to the
cursors and more than one object to a copy's room.

**Fairness.**  `NaiveShuffle` and `BucketShuffles` have a liveness property.  Both assume weak
fairness of the program's own step, as the processor runs a sequential program.  `NaiveShuffle`
has aborts, and assumes that one transaction is aborted `MaxRetries` times at most.  That is what
the layout is for: a transaction of lines that fit the L1 cache (`L1Resident`,
proved) aborts only for interrupts and the like.  Where a fault inside the
transaction causes the aborts (`Faults`), the bound does not apply, and this is how
`starved_shuffle` fails to end.  `ShufflesEnd` leaves out cache shuffles whose pass holds one element
(`mem_cap` 2 or 3), which spray for ever (section 4).

**Deadlock** is checked in every run but `avl_tree`, whose process stops with the
abort of an insert into a full pool.  The callers of the algorithms stutter
explicitly once the program has returned or aborted.

## 4. What the runs found

* *`begin_leaky_sec` accepts a section with no set left for its iterators*
  (`starved_shuffle`, `cmo.cpp:369`).  The first access divides by zero inside the
  transaction; the exception aborts it and the handler retries for ever.  With the
  sizes of the code, naive_shuffle does this for 4880 to 4959 elements.  All other
  lengths end (`Ends`); the million elements of `test/naive_shuffle.cpp` are
  refused, so that the test cannot return.  The share of the writers is a floor, too
  (`cmo.cpp:368`): writers that are more than 61 times shorter than the readers get no set
  and fault in the same way.  The run `sections` has such a pair; no program of the
  repository has one.
* *`free_block` writes over the header of the pool* (`pool_reset`, `cmo_mempool.h:106`).
  The neighbour that the first or the last block does not have is address 0, the word from which
  `reset_nob` takes the length.  The one caller that resets a pool,
  `element_count`, never frees a block.
* *With one block, `full()` is never true* (`single_block_queues`, `cmo_queue.h:128`;
  the same test is in `cmo_mempool.h:58`).

Met while modelling, part of the models, and no run of their own, because no document
or test promises anything else:

* *Shuffles.*  Where a bucket has fewer slots than positions, `cache_shuffle` drops what is left in its
  queues after the refill and returns with places of the output never written, or aborts.
  `Conserved` and `Delivered` call such a spray tight, and say what holds in either case.  It is not only unlucky
  permutations or calls without slack (`epsilon` 0): slots are rounded up and ranges to the nearest
  (`cache_shuffle.cpp:17`), and the last range takes what is left.  With 49 elements, `mem_cap` 14 and
  `epsilon` 1/4 the 9 buckets have 7 slots, the last of them for 9 positions, and every permutation loses two
  elements, although no queue is ever full.  (The call is in `bucket_shuffles`.  `test/cache_shuffle.cpp` uses sizes for
  which every bucket has two slots and one position.)
  With `mem_cap` 2 or 3 it sprays ranges that never get shorter.  `melbourne_shuffle` of
  one element always aborts (its logarithm is 0, so the share of a bucket is none), and so do
  `mapreduce` and `graphsc`; otherwise its permutation can make it abort only where
  the share is smaller than the number of buckets (`AbortsOnlyWhenTight`; that `begin_leaky_sec` refuses queues
  too long for the cache, `cmo.cpp:347`, is no part of `BucketShuffles`).
* *Sorts.*  `merge_sort` with factor 1 always aborts; its test for an
  empty queue looks at the index already read, so that it may abort when everything was
  read; length 0 is halved for ever.  `merger` stops only for lengths that halving takes to 2.
* *Mining.*  The y iterator of `kmeans` reads the array of x (`kmeans.cpp:79`), so that both coordinates of a new centre are
  the mean of x: the model does the same and `CentersFixed` says so.  `kmeans_mr` takes the mean of y for the second
  one (`kmeans_mr.cpp:110`, `MeansRight`), so that the two programs agree on the first coordinate of a round only.
  No document or test says what either returns.
  The centres are sorted between rounds and the ids are not, so that at the end an id
  may name a centre that is not its points' mean (`CentersFixed` says what does hold).  A centre without
  points divides by zero inside the transaction, which is retried for ever
  (not in the first round: `FirstRoundDivides`).  `kmeans_mr.cpp:112` divides by an
  unsigned number, wrong for negative sums.  An edge whose vertex is missing leaves
  its sum to the next vertex of `graphsc`.  `wordcnt` adds to what its output holds.
  `mapreduce` of no input reads the first entry.  `bs.cpp` returns the last middle for an absent key.
* *PAO.*  `iter_pos` never advances, so chunks never move, and an array longer than half
  of `OB_SIZE` reads its neighbour's copy (`PAOFits`).  The cursors begin where the last
  runtime left them.

## 5. What is proved

| Theorem | Statement | Assumptions |
|---|---|---|
| `WrapInjective`, `WrapApart` | offsets of one region, and of disjoint regions, never share an index | `GeometryAssumption` |
| `DivideIsPartition` | the regions are disjoint sets beside the metadata, whatever the lengths | and `CapacityAssumption` |
| `Invariance` | `Spec => []IInv` | and `ClientAssumption`, `ContentsAssumption` |
| `TypeCorrectness`, `NoAliasing`, `L1Residence`, `ChunksReady`, `CommitsStay`, `CopiesNeverStale` | the properties of the run `sections` | the same |
| `Refinement` | the runtime implements `ObliviousArrays` | the same |
| `ShuffleShuffles`, `ShuffleRetries` | `naive_shuffle` puts every element where the permutation sends it, and is taken back by an abort to where its transaction began (`Shuffled`, `LocalsMatch`) | and `ShuffleAssumption` |
| `RingInvariant`, `QueueIsFIFO`, `FrontTheorem` | the three properties of `simple_queue` | `ElementAssumption`, `RingAssumption` |
| `QueuesHold`, `QueuesAreDeques`, `EndsAreReturned` | the three properties of `multi_queue` | `ElementAssumption`, `QueuesAssumption`, `Capacity >= 2` |
| `FullTellsExhaustion` | `full()` is true once the queues hold every block | the same |
| `PoolHolds`, `PoolIsBlockPool` | the two properties of `memory_pool` | `ElementAssumption`, `PoolAssumption`, `Capacity >= 2` |
| `RangesNotEmpty`, `PositionsInRange` | the buckets of a shuffle divide any array into ranges that are not empty, and every place lies in the range of its bucket | none on constants; lengths and numbers of buckets are positive |
| `ShufflesAreInvariant` | `Spec => []ShuffleInv` for both bucket shuffles | `MelbourneAssumption`, `CacheAssumption` |
| `RangesAlwaysSplit`, `AbortsAreTight`, `ReturnsDelivered`, `ElementsConserved` | the four invariants of `bucket_shuffles` | the same |

They hold for every geometry of the cache, every number and length of objects, every number of
queues, every capacity and element size, every permutation, length and parameter of a shuffle that the assumptions allow.  TLC evaluates the
assumptions in the runs.  `ShuffleAssumption` says that the program may register its three objects and
that `perm_in` holds a permutation, as its callers see to.  `Capacity >= 2` is no convenience: the constructors link a
single block to an address behind the array, and `single_block_queues` shows what
becomes of it.  `FullTellsExhaustion` says that this is the only case.

*Runtime.*  `NoAlias` is not inductive: where an int lies depends on how
`begin_leaky_sec` divided the sets and on the objects' places in their vectors.  `IInv` adds
`VectorsOK` (the vectors number their objects and lay them end to end), `CursorsOK`
(every section starts to lay out at 0), `SlotsOK` (the division is a partition
and each slot is where the vectors say) and `ChunksOK` (chunk, slot and rest of
the array; a chunk is used up only at the end of the array).  `NoAlias` then
follows from `DivideIsPartition` and the two lemmas on wrapping, `L1Resident`
from the depth of a region in pages, `ChunkReady` and `CommittedStable`
from `ChunksOK`.

*Refinement of the runtime.*  `IInv` says where a chunk is but not what is in it, and without
that a read proves nothing.  `RInv` adds `CopiesMatch`: in a section the
copies of a reader's chunk and of a read-only array are the client's ints, and so are those
in the shadow memory the processor has saved.  (Copies of writers and of
arrays need no such fact: the mapping takes their content from the copies.)  The client's view
of a state, `Seen`, and of the saved one, `Saved`, are records of contents, positions and the value returned.
Each call is shown to change `Seen` as the abstract call does: one write changes one int
of one object, because of `NoAlias`; moving the chunks and copying them back changes nothing but the
position (`StepView`, for all iterators alike).  What begins a transaction
makes `Saved` the view it began with, and an abort makes `Seen` equal `Saved`.

*naive_shuffle.*  Its specification is the runtime's, step by step, so `RInv` holds in it (`RuntimeStep`).
`ShuffleInv` adds that program and runtime are at the same place (`InStep`); that
the view `Seen` matches the locals `i` and `args` (positions are `i`, or `i + 1` for an argument already
evaluated; the first `i` elements are placed); and that the view `Saved` matches the saved locals in the same way.
The last is what makes it inductive: an abort replaces both at once.

*SimpleQueue.*  `RingOK` is inductive.  The refinement maps the queue to the
elements at `front + k` modulo the capacity; each step is a lemma on the indices of
a ring (`RingPlace`) and on blocks that do not overlap (`BlocksApart`).

*Lists.*  `ListOf`, which says that neighbours point to each other, is not
inductive: it admits cycles beside the list, out of which blocks would never come.  The
invariants `QueueInv` and `PoolInv` speak of sequences instead: each list links a
sequence of different blocks in its order, no block is in two, every block is in one (`Lists`, `InLists`).
The sequences are no history variable.  They are `Chain`, what the code's own `next_address` enumerates
from the array, and `ChainOfList` proves that a linked sequence is what is enumerated (by taking the least place at
which the two would differ, since induction over an operator is out of the provers' reach).
`TakeFirst`, `TakeLast`, `PutFirst`, `PutLast` and the pool's `Unlink` are shown to be `Removal` and
`Insertion` of one place of one sequence, and to write no other word but, for `Unlink`, word 0.
The operations follow by composing two of them: after the first the moving block is in no list,
after the second again in one.  Elements are apart from links (`ElementApart`), so a list operation
keeps every element and a write of an element every link.  `PoolInv` says nothing of word 0, which `free_block` writes
over; `QueueInv` keeps it, because `MultiQueue::reset_nob` reads it, and counts free blocks against `count`.
TLC checked both invariants on the instances of `multi_queue` and `memory_pool` before they were proved.

*Bucket shuffles.*  With c the ceiling of length over buckets and n the number of
buckets `find_suitable_partitions` gives, n·c >= length > (n - 1)·c; so every range begins
inside the array, and a place divided by the rounded length names a bucket whose range holds it.
The two assumptions are that callers pass permutations of arrays that are not empty, and a `mem_cap` of at least 2.

The four invariants are not inductive.  That no clean-up writes a second element to a place depends on where the
elements are in every earlier phase, and that the queues do not overflow on how many have been read.  `ShuffleInv` has

* for each program what its phase knows of counters, queues and holes (`MelbourneOK`, `CacheOK`, `SprayOK`): which slots
  the passes to come will find empty, that queues hold no more than was read, and that the refill leaves a bucket
  only with its queue empty or its slots full;
* `Divided`: each position has the bucket that the code computes for it, and this bucket's range holds it;
  `QueuesInRange` says the same of what is in the queues;
* `Placement`: no two elements that wait, in whatever store, want one position; that position is not written;
  what is written is right; and every element waits or is written unless a spray was tight.

`Placement` replaces the counts of `Conserved`, about which a step says nothing directly.  For each kind of step a map from the
places that hold elements afterwards to those that did before is shown to be injective and to keep the elements
(`Moves`; most of them by a left inverse), and then `Placement` follows for all steps alike.  A step may drop an
element only when a spray was tight.  For `EndSpray` this is a pigeonhole argument (`NothingLeft`): a bucket with a slot
for every position of its range, all of them full, has the whole range in its slots, so nothing is left for its queue.  The
abort of the cache shuffle is another (`RangeIsLonger`): full queues and the element just read are more than
2·s different positions of the range.  `Conserved` then counts: values and positions determine each other
(`OneValueEach`).  TLC checked `ShuffleInv` on instances of
`bucket_shuffles` before it was proved.

*Only model-checked:*

* liveness (`Ends`, `ShufflesEnd`), which is out of TLAPS's reach;
* the tree and `element_count` (`TreeOK`, `NoLeak`, `ImplementsDictionary`, `Counted`): the member functions are
  recursive operators, about which the provers can show nothing;
* everything in `Programs`: folds, selections and recursive functions over
  the input, whose value for every input is an induction over data.

## 6. Not modelled, and the plan

Integers are unbounded where the callers stay far from the bounds (lengths,
positions); the packed fields have their width, and the assumptions keep addresses
below 2^15, which every section enforces (an array of more than 63 sets is refused).
Not modelled:

* the byte tail of elements that are not of whole ints (`cmo_mem.h:22`): its counter is
  never initialised; all callers use whole ints, and the models assume that it begins at 0
  or above, so that no tail is copied;
* the loop of `kmeans_mr`, which uses `aux->center_x` after freeing it and never clears its
  output; one round of it is in `MapReduce`;
* `sketch`, whose array is registered inside a section and so has no shadow memory: its
  first access faults inside the transaction for ever;
* `trace_back`, which reads outside its input, and whose writes never reach `arr_out`;
* the build options that the checked-in headers turn off; the enclave shell, the
  scripts and the data of the measurements.

What remains, in order:

1. The runtime's actions outside a section for the objects of `sketch` and `trace_back`,
   as a client that shows both faults.
2. The loop of `kmeans_mr` with its freed centres as open values.
