------------------------------- MODULE KMeans -------------------------------
(***************************************************************************)
(* The steps of kmeans on points with integer coordinates, and those of     *)
(* kmeans_mr that are functions of their input.  Centres are records in an *)
(* Array; ids count from 0.                                                 *)
(***************************************************************************)
EXTENDS CMOArray, SequencesExt, FiniteSetsExt

(* C++ truncates towards zero.                                               *)
Quotient(a, b) == IF a >= 0 THEN a \div b ELSE -((-a) \div b)

(* Fault to seed: points are compared by their first coordinate.            *)
DistanceOfX(p, c) == (p[1] - c[1]) * (p[1] - c[1])

_kmeans_distance(p, c) == (p[1] - c[1]) * (p[1] - c[1]) + (p[2] - c[2]) * (p[2] - c[2])

(* The id of the first of the centres at the least distance: the conditional *)
(* moves keep an earlier one unless the new one is nearer.                    *)
NearestCenter(p, centers) ==
  FoldLeft(LAMBDA id, j : IF _kmeans_distance(p, centers[j + 1]) < _kmeans_distance(p, centers[id + 1])
                          THEN j ELSE id,
           0, [j \in 1 .. Len(centers) |-> j - 1])

_kmeans_map(points, centers) == [i \in DOMAIN points |-> NearestCenter(points[i], centers)]

Center(data, i) == read(data, i, 3)

Below(c, d) == c[1] < d[1] \/ (c[1] = d[1] /\ c[2] < d[2])

Swap(data, i, j) == write(write(data, i, Center(data, j)), j, Center(data, i))

(* Moves the centres below the last one to the front and puts that after     *)
(* them; the array, and where it went.                                       *)
_kmeans_sort_centers_partition(centers, low, high) ==
  LET pivot == Center(centers, high)
      moved == FoldLeft(LAMBDA m, j : IF Below(Center(m[1], j), pivot)
                                      THEN <<Swap(m[1], m[2] + 1, j), m[2] + 1>> ELSE m,
                        <<centers, low - 1>>, [k \in 1 .. high - low |-> low + k - 1])
  IN <<Swap(moved[1], moved[2] + 1, high), moved[2] + 1>>

RECURSIVE _kmeans_sort_centers(_, _, _)
_kmeans_sort_centers(centers, low, high) ==
  IF low >= high THEN centers
  ELSE LET m == _kmeans_sort_centers_partition(centers, low, high)
       IN _kmeans_sort_centers(_kmeans_sort_centers(m[1], low, m[2] - 1), m[2] + 1, high)

(* Adds every point to its centre.  The iterator over y reads x_in, so the   *)
(* second coordinate of a centre is the sum of first coordinates.             *)
Sums(points, ids, k) ==
  FoldLeft(LAMBDA centers, i :
             LET c == Center(centers, ids[i])
             IN write(centers, ids[i], <<c[1] + points[i][1], c[2] + points[i][1], c[3] + 1>>),
           NewArray(k, 3, 0), [i \in 1 .. Len(points) |-> i])

(* A centre that got no point is divided by its count of 0.                   *)
DividesByZero(points, ids, k) == \E id \in 0 .. k - 1 : Center(Sums(points, ids, k), id)[3] = 0

Means(centers) ==
  FoldLeft(LAMBDA data, i :
             LET c == Center(data, i)
             IN write(data, i, <<Quotient(c[1], c[3]), Quotient(c[2], c[3]), c[3]>>),
           centers, [i \in 1 .. size(centers) |-> i - 1])

(* The new centres, sorted.                                                   *)
_kmeans_reduce(points, ids, k) ==
  LET sorted == _kmeans_sort_centers(Means(Sums(points, ids, k)), 0, k - 1)
  IN [i \in 1 .. k |-> SubSeq(Center(sorted, i - 1), 1, 2)]

(* Fault to seed: only the first coordinates are compared.                  *)
StopByX(centers, new_centers) == \A i \in DOMAIN centers : centers[i][1] = new_centers[i][1]

_kmeans_stop(centers, new_centers) == \A i \in DOMAIN centers : centers[i] = new_centers[i]
=============================================================================
