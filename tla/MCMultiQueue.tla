--------------------------- MODULE MCMultiQueue ---------------------------
(* Two queues over a few blocks with elements of two ints.                   *)
EXTENDS MultiQueue

MCElement == {[k \in 0 .. ElementSize - 1 |-> Word(v, k)] : v \in 20 .. 21}
=============================================================================
