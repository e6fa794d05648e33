--------------------------- MODULE MCNaiveShuffle ---------------------------
(* naive_shuffle on every permutation of up to four elements, and on longer  *)
(* arrays in their own order, for how a section that hardly fits ends.        *)
EXTENDS NaiveShuffle

MCValue == 0 .. 99

Identity(n) == [j \in 0 .. n - 1 |-> j]

Permutations(n) ==
  IF n > 4 THEN {Identity(n)}
  ELSE {f \in [0 .. n - 1 -> 0 .. n - 1] :
          \A j, k \in 0 .. n - 1 : f[j] = f[k] => j = k}

MCContents(s, n) ==
  CASE s = d -> {[j \in 0 .. n - 1 |-> 10 + j]}
    [] s = p -> Permutations(n)
    [] s = o -> {[j \in 0 .. n - 1 |-> 0]}
=============================================================================
