---------------------------- MODULE ElementCount ----------------------------
(***************************************************************************)
(* element_count of src/algo/element_count.cpp: count the elements of an   *)
(* array in an AVLMap in one section, and list the map in another one.     *)
(* The iterators are the plain arrays CMORuntime shows them to be, and the *)
(* capacity of the map is the parameter uniq_elememts.                     *)
(***************************************************************************)
EXTENDS AVLTree

CONSTANT MaxLen  \* bound: the length of the array

uniq_elememts == Capacity

VARIABLES
  pc,       \* the section the program is in
  arr_in,   \* the parameter arr_in
  i,        \* the loop variable
  addr,     \* the block the enumeration has got to
  result    \* the parameter result, as far as it is written

evars == <<tvars, pc, arr_in, i, addr, result>>

\* The code tells an element that is there from a new one by its address.
CountElement ==
  /\ pc = "count" /\ i < Len(arr_in)
  /\ LET element == arr_in[i + 1] IN
     IF find(element) = 0
     THEN insert(element, 1)
     ELSE set_value(element, tree.node[find(element)].value + 1)
  /\ i' = i + 1
  /\ UNCHANGED <<pc, arr_in, addr, result>>

CountAborts ==
  /\ pc = "count" /\ i < Len(arr_in)
  /\ find(arr_in[i + 1]) = 0 /\ insert_aborts
  /\ pc' = "aborted"
  /\ UNCHANGED <<arr_in, i, addr, result>>

\* The address of the block the pool enumerates after the n-th.
next_address(n) == IF n < Len(tree.used) THEN tree.used[n + 1] ELSE 0

\* Fault to seed: the enumeration starts at the root of the tree.
EndCountAtRoot ==
  /\ pc = "count" /\ i = Len(arr_in)
  /\ IF tree.size # uniq_elememts
     THEN pc' = "aborted" /\ UNCHANGED <<i, addr>>
     ELSE pc' = "list" /\ addr' = tree.root /\ i' = 1
  /\ UNCHANGED <<tvars, arr_in, result>>

\* The end of the first section and the beginning of the second one.
EndCount ==
  /\ pc = "count" /\ i = Len(arr_in)
  /\ IF tree.size # uniq_elememts
     THEN pc' = "aborted" /\ UNCHANGED <<i, addr>>
     ELSE pc' = "list" /\ addr' = next_address(0) /\ i' = 1
  /\ UNCHANGED <<tvars, arr_in, result>>

List ==
  /\ pc = "list" /\ addr # 0
  /\ result' = Append(result, <<tree.node[addr].key, tree.node[addr].value>>)
  /\ addr' = next_address(i) /\ i' = i + 1
  /\ UNCHANGED <<tvars, pc, arr_in>>

EndList ==
  /\ pc = "list" /\ addr = 0
  /\ pc' = "done"
  /\ UNCHANGED <<tvars, arr_in, i, addr, result>>

Done == pc \in {"done", "aborted"} /\ UNCHANGED evars

CountInit ==
  /\ Init
  /\ arr_in \in UNION {[1 .. n -> Keys] : n \in 0 .. MaxLen}
  /\ pc = "count" /\ i = 0 /\ addr = 0 /\ result = << >>

Program == CountElement \/ CountAborts \/ EndCount \/ List \/ EndList

CountSpec == CountInit /\ [][Program \/ Done]_evars

-----------------------------------------------------------------------------
(* Properties *)

Occurrences(e) == Cardinality({j \in 1 .. Len(arr_in) : arr_in[j] = e})

\* When element_count returns, it has listed every element of the array once,
\* with the number of its occurrences; it returns if the caller's count of
\* different elements was right, and aborts if not.
Counted ==
  /\ pc = "done" =>
       /\ Cardinality(ToSet(arr_in)) = uniq_elememts
       /\ Len(result) = uniq_elememts
       /\ ToSet(result) = {<<e, Occurrences(e)>> : e \in ToSet(arr_in)}
  /\ pc = "aborted" => Cardinality(ToSet(arr_in)) # uniq_elememts

=============================================================================
