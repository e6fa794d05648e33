--------------------------- MODULE MCMemoryPool ---------------------------
(* Pools of a few blocks with elements of two ints.                          *)
EXTENDS MemoryPool

MCElement == {[k \in 0 .. ElementSize - 1 |-> Word(v, k)] : v \in 20 .. 21}
=============================================================================
