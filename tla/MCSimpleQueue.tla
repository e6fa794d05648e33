--------------------------- MODULE MCSimpleQueue ---------------------------
(* Rings of up to a few elements of two ints, run around more than once.     *)
EXTENDS SimpleQueue

MCElement == {[k \in 0 .. ElementSize - 1 |-> Word(v, k)] : v \in 1 .. 3}
=============================================================================
