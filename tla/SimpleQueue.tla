---------------------------- MODULE SimpleQueue ----------------------------
(***************************************************************************)
(* SimpleQueue of include/cmo_queue.h: a ring of elements in a NobArray,   *)
(* after three ints of metadata.  The client is src/algo/merge_sort.cpp,   *)
(* which aborts the process rather than enqueue on a full queue or dequeue *)
(* from an empty one.                                                      *)
(***************************************************************************)
EXTENDS PackedWords, Sequences

CONSTANT Capacity

\* The constructor refuses a capacity above 2^16 - 1; one of 2^15 or more fits
\* no section (see PackedWords).
ASSUME RingAssumption ==
  /\ Capacity \in 1 .. Half - 1
  /\ ElementSize \in 1 .. Full - 1

VARIABLES
  data,     \* the array the queue lives in, as the section sees it
  nob_len,  \* the length of the NobArray over it
  ret       \* the element front() last returned, or NoElement

qvars == <<data, nob_len, ret>>

NoElement == [k \in {} |-> Word(0, 0)]

DataLen == 3 + Capacity * ElementSize

-----------------------------------------------------------------------------
(* Accessors *)

capacity(m)  == m[1].hi
size(m)      == m[2].hi
front_idx(m) == m[2].lo
empty(m)     == size(m) = 0
full(m)      == size(m) = capacity(m)

\* Fault to seed: the places are one int each.
addr_unscaled(m, k) == ((front_idx(m) + k) % capacity(m)) + 3

\* Where the element k places behind the front lies.
addr(m, k) == ((front_idx(m) + k) % capacity(m)) * m[1].lo + 3

-----------------------------------------------------------------------------
(* Operations *)

\* The constructor.  The elements are not initialised.
Constructed(junk) ==
  [x \in 0 .. DataLen - 1 |->
     CASE x = 0 -> Word(DataLen \div Full, DataLen % Full)
       [] x = 1 -> Word(Capacity, ElementSize)
       [] x = 2 -> Word(0, 0)
       [] OTHER -> junk]

Init ==
  /\ \E junk \in {e[0] : e \in Element} : data = Constructed(junk)
  /\ nob_len = DataLen
  /\ ret = NoElement

\* A new section over what the last one left.
reset_nob ==
  /\ nob_len' = data[0].hi * Full + data[0].lo
  /\ UNCHANGED <<data, ret>>

enqueue(e) ==
  /\ ~full(data)
  /\ data' = [write_element(data, addr(data, size(data)), e) EXCEPT
                ![2] = Word(size(data) + 1, front_idx(data))]
  /\ UNCHANGED <<nob_len, ret>>

\* Fault to seed: front() takes the place behind the last element.
front_behind_last ==
  /\ ~empty(data)
  /\ ret' = read_element(data, addr(data, size(data)))
  /\ UNCHANGED <<data, nob_len>>

front ==
  /\ ~empty(data)
  /\ ret' = read_element(data, front_idx(data) * data[1].lo + 3)
  /\ UNCHANGED <<data, nob_len>>

\* Fault to seed: the index of the front runs past the end of the ring.
dequeue_past_end ==
  /\ ~empty(data)
  /\ data' = [data EXCEPT ![2] = Word(size(data) - 1,
                                      (front_idx(data) + 1) % (capacity(data) + 1))]
  /\ UNCHANGED <<nob_len, ret>>

dequeue ==
  /\ ~empty(data)
  /\ data' = [data EXCEPT ![2] = Word(size(data) - 1,
                                      (front_idx(data) + 1) % capacity(data))]
  /\ UNCHANGED <<nob_len, ret>>

Next ==
  \/ \E e \in Element : enqueue(e)
  \/ front \/ dequeue \/ reset_nob

Spec == Init /\ [][Next]_qvars

-----------------------------------------------------------------------------
(* Properties *)

\* The queue as its client sees it: the elements from the front on.
ContentsOf(m) == [k \in 1 .. size(m) |-> read_element(m, addr(m, k - 1))]
Contents == ContentsOf(data)

Fifo == INSTANCE FIFO WITH
  Elements <- Element, Bound <- Capacity, contents <- Contents

\* The ring is a bounded first-in first-out queue, wherever its front has got to.
ImplementsFIFO == Fifo!Spec

\* The metadata stay what the constructor wrote, the length and the front stay
\* inside the ring, and every section covers the whole array.
RingOK ==
  /\ data \in [0 .. DataLen - 1 -> Words]
  /\ data[0] = Word(DataLen \div Full, DataLen % Full)
  /\ data[1] = Word(Capacity, ElementSize)
  /\ size(data) \in 0 .. Capacity
  /\ front_idx(data) \in 0 .. Capacity - 1
  /\ nob_len = DataLen

\* front() returns the oldest element, which stays until it is dequeued.
FrontIsOldest == [][ret' # ret => ret' = Contents[1]]_qvars

=============================================================================
