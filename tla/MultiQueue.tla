----------------------------- MODULE MultiQueue -----------------------------
(***************************************************************************)
(* MultiQueue of include/cmo_queue.h: several queues and a list of free    *)
(* blocks in the int array of a NobArray.  The clients are the shuffles,   *)
(* which abort the process rather than push when the blocks are used up,   *)
(* and look whether a queue is empty before they take from it.             *)
(***************************************************************************)
EXTENDS LinkedBlocks

CONSTANT NumQueues

VARIABLES
  data,     \* the array the queues live in, as the section sees it
  nob_len,  \* the length of the NobArray over it
  ret,      \* the element front() or back() last returned, or NoElement
  count     \* the elements the client has pushed and not popped

mvars == <<data, nob_len, ret, count>>

NoElement == [k \in {} |-> Word(0, 0)]

\* The queues, and the list of free blocks.
QueueIds == 0 .. NumQueues - 1
FreeList == -1

\* The word of metadata of a queue.
List(queue_id) == 3 + queue_id

DataLen == 3 + NumQueues + Capacity * BlockSize
Blocks  == BlocksFrom(3 + NumQueues)

\* Nothing is above the array but the word that queues of one block in all
\* write to.
ASSUME QueuesAssumption == NumQueues \in Nat \ {0} /\ DataLen \in 1 .. Half - 1

Addresses == 0 .. DataLen

empty(m, queue_id) == begin_addr(m, List(queue_id)) = 0
full(m)            == empty(m, FreeList)

\* The constructor.  The elements are not initialised.
Constructed(junk) ==
  [x \in Addresses |->
     CASE x = 0 -> Word(0, DataLen)
       [] x = 1 -> Word(NumQueues, Capacity)
       [] x = List(FreeList) -> Word(3 + NumQueues, DataLen - BlockSize)
       [] x \in {List(q) : q \in QueueIds} -> Word(0, 0)
       [] x \in Blocks -> Linked(3 + NumQueues, x)
       [] OTHER -> junk]

Init ==
  /\ \E junk \in {e[0] : e \in Element} : data = Constructed(junk)
  /\ nob_len = DataLen
  /\ ret = NoElement
  /\ count = 0

reset_nob ==
  /\ nob_len' = data[0].hi * Full + data[0].lo
  /\ UNCHANGED <<data, ret, count>>

\* The array after alloc_block, with the element written to the block it took.
Filled(e) ==
  write_element(TakeFirst(data, List(FreeList)),
                begin_addr(data, List(FreeList)) + 1, e)

push_front(queue_id, e) ==
  /\ ~full(data)
  /\ data' = PutFirst(Filled(e), List(queue_id), begin_addr(data, List(FreeList)))
  /\ count' = count + 1
  /\ UNCHANGED <<nob_len, ret>>

push_back(queue_id, e) ==
  /\ ~full(data)
  /\ data' = PutLast(Filled(e), List(queue_id), begin_addr(data, List(FreeList)))
  /\ count' = count + 1
  /\ UNCHANGED <<nob_len, ret>>

\* Fault to seed: the block goes back to the free list before its queue lets
\* go of it.
pop_front_freed_first(queue_id) ==
  /\ ~empty(data, queue_id)
  /\ data' = TakeFirst(PutFirst(data, List(FreeList), begin_addr(data, List(queue_id))),
                       List(queue_id))
  /\ count' = count - 1
  /\ UNCHANGED <<nob_len, ret>>

pop_front(queue_id) ==
  /\ ~empty(data, queue_id)
  /\ data' = PutFirst(TakeFirst(data, List(queue_id)),
                      List(FreeList), begin_addr(data, List(queue_id)))
  /\ count' = count - 1
  /\ UNCHANGED <<nob_len, ret>>

pop_back(queue_id) ==
  /\ ~empty(data, queue_id)
  /\ data' = PutFirst(TakeLast(data, List(queue_id)),
                      List(FreeList), end_addr(data, List(queue_id)))
  /\ count' = count - 1
  /\ UNCHANGED <<nob_len, ret>>

front(queue_id) ==
  /\ ~empty(data, queue_id)
  /\ ret' = read_element(data, begin_addr(data, List(queue_id)) + 1)
  /\ UNCHANGED <<data, nob_len, count>>

\* Fault to seed: back() reads the block of the first element.
back_at_front(queue_id) ==
  /\ ~empty(data, queue_id)
  /\ ret' = read_element(data, begin_addr(data, List(queue_id)) + 1)
  /\ UNCHANGED <<data, nob_len, count>>

back(queue_id) ==
  /\ ~empty(data, queue_id)
  /\ ret' = read_element(data, end_addr(data, List(queue_id)) + 1)
  /\ UNCHANGED <<data, nob_len, count>>

Next ==
  \/ reset_nob
  \/ \E q \in QueueIds :
       \/ pop_front(q) \/ pop_back(q) \/ front(q) \/ back(q)
       \/ \E e \in Element : push_front(q, e) \/ push_back(q, e)

Spec == Init /\ [][Next]_mvars

-----------------------------------------------------------------------------
(* Properties *)

\* The blocks of a queue or of the free list, as next addresses reach them.
BlocksOf(queue_id) ==
  LET c == Chain(data, List(queue_id)) IN {c[k] : k \in 1 .. Len(c)}

\* Every block is linked, to and fro, into exactly one of the queues and the
\* free list, and every section covers the whole array.
QueuesOK ==
  /\ data \in [Addresses -> Words]
  /\ nob_len = DataLen
  /\ \A q \in QueueIds \cup {FreeList} : ListOf(data, List(q), BlocksOf(q))
  /\ \A q, p \in QueueIds \cup {FreeList} :
       q # p => BlocksOf(q) \cap BlocksOf(p) = {}
  /\ UNION {BlocksOf(q) : q \in QueueIds \cup {FreeList}} = Blocks

\* The queues as their client sees them.
ElementAt(b) == read_element(data, b + 1)
Contents ==
  [q \in QueueIds |->
     LET c == Chain(data, List(q)) IN [k \in 1 .. Len(c) |-> ElementAt(c[k])]]

Deques == INSTANCE Queues WITH
  Elements <- Element, Bound <- Capacity, contents <- Contents

\* The lists are double-ended queues: what is pushed at one end comes off at
\* either in its order, and one queue never disturbs another.
ImplementsQueues == Deques!Spec

\* front() and back() return the elements that were pushed to the ends of the
\* queue, whatever was taken from its other end and from other queues.
EndsReturned ==
  [][\A q \in QueueIds :
       /\ front(q) => ret' = Contents[q][1]
       /\ back(q) => ret' = Contents[q][Len(Contents[q])]]_mvars

\* The comment on full(): "return true if the entire MultiQueue is full, i.e.,
\* no more free block".
FullWhenExhausted ==
  (UNION {BlocksOf(q) : q \in QueueIds} = Blocks) => full(data)

=============================================================================
