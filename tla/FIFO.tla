-------------------------------- MODULE FIFO --------------------------------
(***************************************************************************)
(* What SimpleQueue promises its client: a bounded first-in first-out      *)
(* queue, of which the client sees the elements it takes from the front.   *)
(***************************************************************************)
EXTENDS Integers, Sequences

CONSTANTS Elements, Bound

VARIABLE contents

Init == contents = << >>

Enqueue(e) == Len(contents) < Bound /\ contents' = Append(contents, e)

Dequeue == contents # << >> /\ contents' = Tail(contents)

Next == (\E e \in Elements : Enqueue(e)) \/ Dequeue

Spec == Init /\ [][Next]_contents

=============================================================================
