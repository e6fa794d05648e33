------------------------------- MODULE GraphSC -------------------------------
(***************************************************************************)
(* graphsc: one round of scatter and gather over a list of vertices and    *)
(* edges.  A vertex v has v as source and destination.  std::sort may put  *)
(* equal entries in any order, so that a sort gives a set of lists.         *)
(***************************************************************************)
EXTENDS MapReduce

VE(src_v, dst_v, is_v, data) == [src_v |-> src_v, dst_v |-> dst_v, is_v |-> is_v, data |-> data]

comp_scatter(e1, e2) ==
  e1.src_v < e2.src_v \/ (e1.src_v = e2.src_v /\ e1.is_v > e2.is_v)

(* Fault to seed: a vertex comes before its edges in both sorts.            *)
comp_vertex_first(e1, e2) ==
  e1.dst_v < e2.dst_v \/ (e1.dst_v = e2.dst_v /\ e1.is_v > e2.is_v)

comp_gather(e1, e2) ==
  e1.dst_v < e2.dst_v \/ (e1.dst_v = e2.dst_v /\ e1.is_v < e2.is_v)

(* Each of the four fields is shuffled by a call of its own, all by the same  *)
(* permutation.                                                               *)
ShuffledGraph(graph, perm) ==
  LET field == [f \in {"src_v", "dst_v", "is_v", "data"} |->
                  Permuted([k \in DOMAIN graph |-> graph[k][f]], perm)]
  IN [k \in DOMAIN graph |->
        VE(field["src_v"][k], field["dst_v"][k], field["is_v"][k], field["data"][k])]

shuffle(graph) == {ShuffledGraph(graph, perm) : perm \in ShufflePerms(Len(graph))}

ScatterSorted(graph) ==
  {g \in shuffle(graph) : \A k \in 2 .. Len(g) : ~comp_scatter(g[k], g[k - 1])}

GatherSorted(graph) ==
  {g \in shuffle(graph) : \A k \in 2 .. Len(g) : ~comp_gather(g[k], g[k - 1])}

(* An edge takes the data of the vertex before it.                           *)
_scatter(graph) ==
  FoldLeft(LAMBDA s, ve : IF ve.is_v = 1 THEN <<Append(s[1], ve), ve.data>>
                          ELSE <<Append(s[1], [ve EXCEPT !.data = s[2]]), s[2]>>,
           <<<< >>, 0>>, graph)[1]

(* A vertex takes the sum of the edges since the vertex before it.           *)
_gather(graph) ==
  FoldLeft(LAMBDA s, ve : IF ve.is_v = 1 THEN <<Append(s[1], [ve EXCEPT !.data = s[2]]), 0>>
                          ELSE <<Append(s[1], ve), s[2] + ve.data>>,
           <<<< >>, 0>>, graph)[1]
=============================================================================
