----------------------------- MODULE MCAVLTree -----------------------------
(* Trees of a few nodes, over more keys than they have room for.  Which       *)
(* addresses the nodes have makes no difference to what the operations do, so *)
(* that TLC may take for the same two trees that differ in nothing else.      *)
EXTENDS AVLTree

RECURSIVE Shape(_)
Shape(addr) ==
  IF addr = 0 THEN << >>
  ELSE <<[tree.node[addr] EXCEPT !.child = [s \in Sides |-> Shape(@[s])]]>>

(* The view: the tree without its addresses, the keys of the used blocks, how  *)
(* many addresses the two lists have and how many different ones, so that a    *)
(* block lost or in two lists shows.                                          *)
UpToAddresses ==
  <<Shape(tree.root), tree.size, {tree.node[a].key : a \in ToSet(tree.used)}, Len(tree.used),
    Len(tree.free), Cardinality(ToSet(tree.used) \cup ToSet(tree.free)), aborted>>
=============================================================================
