---------------------------- MODULE MCCMORuntime ----------------------------
(* CMORuntime for model checking: every array starts with contents that tell *)
(* its object and its position, and the written values are none of these.    *)
EXTENDS CMORuntime

MCValue == 0 .. 99
MCContents(s, n) == {[i \in 0 .. n - 1 |-> 10 * (s + 1) + i]}
=============================================================================
