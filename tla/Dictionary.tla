----------------------------- MODULE Dictionary -----------------------------
(***************************************************************************)
(* What AVLMap promises its client: a bounded map, in which an insert does *)
(* not replace the value of a key that is there already.                   *)
(***************************************************************************)
EXTENDS Integers, FiniteSets, Functions

CONSTANTS Keys, Values, Bound

VARIABLE map

Init == map = [k \in {} |-> 0]

Insert(k, v) ==
  /\ k \notin DOMAIN map
  /\ Cardinality(DOMAIN map) < Bound
  /\ map' = [l \in DOMAIN map \cup {k} |-> IF l = k THEN v ELSE map[l]]

Remove(k) == k \in DOMAIN map /\ map' = Restrict(map, DOMAIN map \ {k})

SetValue(k, v) == k \in DOMAIN map /\ map' = [map EXCEPT ![k] = v]

Next ==
  \E k \in Keys : Remove(k) \/ \E v \in Values : Insert(k, v) \/ SetValue(k, v)

Spec == Init /\ [][Next]_map

=============================================================================
