------------------------------- MODULE Queues -------------------------------
(***************************************************************************)
(* What MultiQueue promises its client: several double-ended queues with a *)
(* bound on the elements of all of them together.                          *)
(***************************************************************************)
EXTENDS Integers, Sequences, SequencesExt

CONSTANTS Elements, QueueIds, Bound

VARIABLES
  contents,  \* the elements of each queue
  count      \* how many there are

vars == <<contents, count>>

Init == contents = [q \in QueueIds |-> << >>] /\ count = 0

Push == count < Bound /\ count' = count + 1

PushFront(q, e) == Push /\ contents' = [contents EXCEPT ![q] = <<e>> \o @]
PushBack(q, e)  == Push /\ contents' = [contents EXCEPT ![q] = Append(@, e)]

Pop(q) == contents[q] # << >> /\ count' = count - 1

PopFront(q) == Pop(q) /\ contents' = [contents EXCEPT ![q] = Tail(@)]
PopBack(q)  == Pop(q) /\ contents' = [contents EXCEPT ![q] = Front(@)]

Next ==
  \E q \in QueueIds :
    \/ PopFront(q) \/ PopBack(q)
    \/ \E e \in Elements : PushFront(q, e) \/ PushBack(q, e)

Spec == Init /\ [][Next]_vars

=============================================================================
