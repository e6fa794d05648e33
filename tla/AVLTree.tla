------------------------------ MODULE AVLTree ------------------------------
(***************************************************************************)
(* AVLTree and AVLMap of include/cmo_avltree.h: a balanced search tree     *)
(* whose nodes are the blocks of a memory pool.  The pool is the one       *)
(* MemoryPool shows to implement BlockPool: used blocks in the order of    *)
(* allocation, free ones handed out last in, first out.                    *)
(*                                                                         *)
(* The operators follow the member functions: each takes the tree before   *)
(* and gives the tree after, with the address the function returns.        *)
(***************************************************************************)
EXTENDS Integers, Sequences, SequencesExt, FiniteSets, FiniteSetsExt

CONSTANTS
  Capacity,  \* the nodes of the pool
  Keys,      \* the keys the client uses
  Values     \* the values it gives them

\* With one block, full() stays false (MemoryPool, FullWhenExhausted).
ASSUME TreeAssumption == Capacity \in Nat \ {0, 1} /\ Keys \subseteq Int

VARIABLES
  tree,     \* root and size of extra_data, the nodes, the lists of the pool
  aborted   \* whether cmo_abort has ended the process

tvars == <<tree, aborted>>

Addresses == 1 .. Capacity
Sides == {"left", "right"}
Opposite(s) == IF s = "left" THEN "right" ELSE "left"

\* What a free block holds is never read.
Blank == [key |-> 0, value |-> 0, height |-> 0, child |-> [s \in Sides |-> 0]]

EmptyTree ==
  [root |-> 0, size |-> 0, node |-> [a \in Addresses |-> Blank],
   used |-> << >>, free |-> [k \in 1 .. Capacity |-> k]]

Result(t, addr) == [tree |-> t, addr |-> addr]

-----------------------------------------------------------------------------
(* Member functions *)

node_height(t, addr) == IF addr = 0 THEN 0 ELSE t.node[addr].height

\* By how much the subtree at side s of a node is the higher one.
Excess(t, addr, s) ==
  IF addr = 0 THEN 0
  ELSE node_height(t, t.node[addr].child[s])
         - node_height(t, t.node[addr].child[Opposite(s)])

with_height(t, addr) ==
  [t EXCEPT !.node[addr].height =
     1 + Max({node_height(t, t.node[addr].child[s]) : s \in Sides})]

\* Fault to seed: the height of the node that came up is computed first.
rotate_height_order(t, addr, s) ==
  LET up == t.node[addr].child[s]
      u  == [t EXCEPT !.node[up].child[Opposite(s)] = addr,
                      !.node[addr].child[s] = t.node[up].child[Opposite(s)]]
  IN  Result(with_height(with_height(u, up), addr), up)

\* left_rotate for s = "right", right_rotate for s = "left": the child at side
\* s comes up, and the node becomes its other child.
rotate(t, addr, s) ==
  LET up == t.node[addr].child[s]
      u  == [t EXCEPT !.node[up].child[Opposite(s)] = addr,
                      !.node[addr].child[s] = t.node[up].child[Opposite(s)]]
  IN  Result(with_height(with_height(u, addr), up), up)

rotate_twice(t, addr, s) ==
  LET r == rotate(t, t.node[addr].child[s], Opposite(s))
  IN  rotate([r.tree EXCEPT !.node[addr].child[s] = r.addr], addr, s)

\* The side whose subtree is too high, or none.
too_high(t, addr) ==
  IF Excess(t, addr, "left") > 1 THEN "left"
  ELSE IF Excess(t, addr, "right") > 1 THEN "right"
  ELSE "none"

side_of(k, l) == IF k < l THEN "left" ELSE "right"

full(t) == t.free = << >>

alloc_block(t) ==
  [t EXCEPT !.used = Append(@, Head(t.free)), !.free = Tail(@)]

\* Fault to seed: the block is not given back to the pool.
free_block_lost(t, addr) ==
  [t EXCEPT !.used = SelectSeq(@, LAMBDA a : a # addr), !.node[addr] = Blank]

free_block(t, addr) ==
  [t EXCEPT !.used = SelectSeq(@, LAMBDA a : a # addr), !.free = <<addr>> \o @,
            !.node[addr] = Blank]

RECURSIVE insert_at(_, _, _, _)
insert_at(t, addr, k, v) ==
  IF addr = 0
  THEN LET a == Head(t.free) IN
       Result([alloc_block(t) EXCEPT
                 !.size = @ + 1,
                 !.node[a] = [Blank EXCEPT !.key = k, !.value = v, !.height = 1]], a)
  ELSE IF k = t.node[addr].key THEN Result(t, addr)
  ELSE LET s == side_of(k, t.node[addr].key)
           r == insert_at(t, t.node[addr].child[s], k, v)
           u == with_height([r.tree EXCEPT !.node[addr].child[s] = r.addr], addr)
           h == too_high(u, addr)
       IN  IF h = "none" THEN Result(u, addr)
           ELSE IF side_of(k, u.node[u.node[addr].child[h]].key) = h
           THEN rotate(u, addr, h)
           ELSE rotate_twice(u, addr, h)

RECURSIVE find_min_key_node(_, _)
find_min_key_node(t, addr) ==
  IF t.node[addr].child["left"] = 0 THEN addr
  ELSE find_min_key_node(t, t.node[addr].child["left"])

\* Fault to seed: the node that takes another key keeps its value.
take_key(n, next) == [n EXCEPT !.key = next.key]

\* A node with the key and the value of another one, and its own links.
take_entry(n, next) == [n EXCEPT !.key = next.key, !.value = next.value]

RECURSIVE remove_at(_, _, _)
remove_at(t, addr, k) ==
  IF addr = 0 THEN Result(t, 0)
  ELSE
    LET n == t.node[addr] IN
    IF k = n.key /\ \E s \in Sides : n.child[s] = 0
    THEN Result([free_block(t, addr) EXCEPT !.size = @ - 1],
                IF n.child["left"] = 0 THEN n.child["right"] ELSE n.child["left"])
    ELSE LET \* The least node of the right subtree takes the place of a removed one.
             next == t.node[find_min_key_node(t, n.child["right"])]
             gone == k = n.key
             s == IF gone THEN "right" ELSE side_of(k, n.key)
             r == remove_at(t, n.child[s], IF gone THEN next.key ELSE k)
             m == [(IF gone THEN take_entry(n, next) ELSE n)
                     EXCEPT !.child[s] = r.addr]
             u == with_height([r.tree EXCEPT !.node[addr] = m], addr)
             h == too_high(u, addr)
         IN  IF h = "none" THEN Result(u, addr)
             ELSE IF Excess(u, u.node[addr].child[h], h) >= 0
             THEN rotate(u, addr, h)
             ELSE rotate_twice(u, addr, h)

\* The address of the node with key k, 0 if there is none.
RECURSIVE find_from(_, _, _)
find_from(t, addr, k) ==
  IF addr = 0 THEN 0
  ELSE IF k = t.node[addr].key THEN addr
  ELSE find_from(t, t.node[addr].child[side_of(k, t.node[addr].key)], k)

find(k) == find_from(tree, tree.root, k)

-----------------------------------------------------------------------------
(* Operations of the map *)

Init == tree = EmptyTree /\ aborted = FALSE

\* insert_at reaches the full pool only with a key that is not there.
insert(k, v) ==
  /\ ~aborted
  /\ find(k) = 0 => ~full(tree)
  /\ LET r == insert_at(tree, tree.root, k, v)
     IN  tree' = [r.tree EXCEPT !.root = r.addr]
  /\ UNCHANGED aborted

\* The insert of a key that is not there; the keys are no more limited than the
\* ints, so that there always is one.
insert_aborts ==
  /\ ~aborted /\ full(tree)
  /\ aborted' = TRUE
  /\ UNCHANGED tree

remove(k) ==
  /\ ~aborted
  /\ LET r == remove_at(tree, tree.root, k)
     IN  tree' = [r.tree EXCEPT !.root = r.addr]
  /\ UNCHANGED aborted

set_value(k, v) ==
  /\ ~aborted
  /\ find(k) # 0
  /\ tree' = [tree EXCEPT !.node[find(k)].value = v]
  /\ UNCHANGED aborted

Next ==
  \/ insert_aborts
  \/ \E k \in Keys :
       remove(k) \/ \E v \in Values : insert(k, v) \/ set_value(k, v)

Spec == Init /\ [][Next]_tvars

-----------------------------------------------------------------------------
(* Properties *)

\* The addresses below a node, itself included, along the child links.
RECURSIVE Below(_)
Below(addr) ==
  IF addr = 0 THEN {}
  ELSE {addr} \cup UNION {Below(tree.node[addr].child[s]) : s \in Sides}

\* is_balance_at, and that the heights it goes by are the true ones.
Balanced ==
  \A a \in Below(tree.root) :
    /\ tree.node[a].height
         = 1 + Max({node_height(tree, tree.node[a].child[s]) : s \in Sides})
    /\ Excess(tree, a, "left") \in -1 .. 1

\* Every key of a left subtree is less than its node's, every key of a right
\* subtree more.
Ordered ==
  \A a \in Below(tree.root) :
    /\ \A b \in Below(tree.node[a].child["left"]) : tree.node[b].key < tree.node[a].key
    /\ \A b \in Below(tree.node[a].child["right"]) : tree.node[b].key > tree.node[a].key

\* The tree is a balanced search tree after every insert and remove, so that
\* the recursion is never deeper than the height a balanced tree can have.
TreeOK == Balanced /\ Ordered

\* No block is lost and none is in two lists: the blocks the pool enumerates,
\* which is how element_count reads the map, are the nodes of the tree, and
\* size() counts them.
NoLeak ==
  /\ ToSet(tree.used) = Below(tree.root)
  /\ ToSet(tree.used) \cup ToSet(tree.free) = Addresses
  /\ Len(tree.used) + Len(tree.free) = Capacity
  /\ tree.size = Len(tree.used)

\* The map as its client sees it, through find.
Map ==
  [k \in {l \in Keys : find(l) # 0} |-> tree.node[find(k)].value]

Dict == INSTANCE Dictionary WITH Bound <- Capacity, map <- Map

\* The tree is a bounded map: what was inserted is found with the value last
\* given to it until it is removed, through all the rotations.
ImplementsDictionary == Dict!Spec

=============================================================================
