----------------------------- MODULE MCPrograms -----------------------------
(* All short inputs of each program over a few values.                       *)
EXTENDS Programs

Seqs(S, lens) == UNION {[1 .. n -> S] : n \in lens}

(* The half of 1 .. 16 that has 1 .. j and of the others the smallest odd     *)
(* ones, in an order whose smaller merges are balanced, and the other half.   *)
RunsAhead(j) ==
  LET Sorted(T) == SelectSeq([k \in 1 .. 16 |-> k], LAMBDA x : x \in T)
      odd  == SubSeq(Sorted({x \in j + 1 .. 16 : x % 2 = 1}), 1, 8 - j)
      S    == 1 .. j \cup ToSet(odd)
      rank == <<1, 5, 3, 7, 2, 6, 4, 8>>
      Spread(T) == [k \in 1 .. 8 |-> Sorted(T)[rank[k]]]
  IN Spread(S) \o Spread(1 .. 16 \ S)

MergeSortCalls ==
  {[program |-> "merge_sort", input |-> i, blow_up_factor |-> b] :
     i \in {[k \in 1 .. n |-> k] : n \in 1 .. 7} \cup {<<1, 1, 2, 2>>, <<1, 2, 2, 2, 3>>, <<1, 1, 1, 1, 1, 1>>},
     b \in 1 .. 3}
    \cup {[program |-> "merge_sort", input |-> i, blow_up_factor |-> 2] :
           i \in {RunsAhead(j) : j \in 0 .. 8} \cup {[k \in 1 .. 32 |-> k]}}

(* The value of an entry is its place in the input.                          *)
NetCalls ==
  {[program |-> "merger", input |-> [i \in DOMAIN s |-> [key |-> s[i], value |-> i]]] :
     s \in Seqs({0, 1}, {2, 4, 8})}

SearchCalls ==
  {[program |-> "search", input |-> [k \in DOMAIN s |-> <<s[k], k>>], key |-> key] :
     s \in Seqs(0 .. 4, 0 .. 4) \cup {[k \in 1 .. n |-> k] : n \in 5 .. 9}, key \in 0 .. 10}

Points == {<<0, 0>>, <<0, 3>>, <<2, 1>>, <<4, 4>>, <<5, 0>>}

(* kmeans_mr divides a sum by an unsigned number, so it is called without the  *)
(* negative ones.                                                             *)
AllPoints == Points \cup {<<-3, 6>>, <<9, -7>>, <<-8, -3>>}

KMeansCalls ==
  {[program |-> "kmeans", input |-> i, k |-> k] : i \in Seqs(AllPoints, {3, 4}) \cup {<<<<-8, -3>>, <<-3, 6>>, <<0, 3>>, <<9, -7>>, <<9, -7>>>>},
     k \in 1 .. 3}

KMeansMRCalls ==
  {[program |-> "kmeans_mr", input |-> [n \in DOMAIN i |-> KV(n - 1, i[n])], k |-> k] :
     i \in Seqs(Points, {3}), k \in 1 .. 3}

WordCalls ==
  {[program |-> "wc", input |-> [n \in DOMAIN i |-> KV(n, <<i[n]>>)]] : i \in Seqs(0 .. 2, 1 .. 4)}
    \cup {[program |-> "wordcnt", input |-> i, output |-> o] :
            i \in Seqs(0 .. 2, 0 .. 4), o \in [0 .. 2 -> {0, 1}]}

Vertices(data) == [v \in DOMAIN data |-> VE(v, v, 1, data[v])]

(* The data of an edge is not set by the caller.                              *)
GraphCalls ==
  {[program |-> "graphsc", input |-> Vertices(d) \o [e \in DOMAIN es |-> VE(es[e][1], es[e][2], 0, 9)]] :
     d \in {<<1, 2>>, <<1, 2, 4>>},
     es \in Seqs((1 .. 2) \X (1 .. 2), 0 .. 3)}
    \cup {[program |-> "graphsc", input |-> Vertices(<<7>>)]}

(* Fresh memory and what one, two or three runtimes left; a length of 5 does   *)
(* not fit.                                                                    *)
PAOCalls ==
  {[program |-> "pao", perm |-> [k \in DOMAIN p |-> p[k] - 1], input |-> [k \in DOMAIN p |-> 10 * k], before |-> n] :
     p \in UNION {Permutations(1 .. len) : len \in {1, 2, 4}} \cup {<<3, 5, 1, 2, 4>>}, n \in 0 .. 3}

MCCalls == MergeSortCalls \cup NetCalls \cup SearchCalls \cup KMeansCalls \cup KMeansMRCalls
             \cup WordCalls \cup GraphCalls \cup PAOCalls
=============================================================================
