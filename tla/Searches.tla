------------------------------ MODULE Searches ------------------------------
(***************************************************************************)
(* The searches in sorted arrays: ROSet and ROMap, which differ in the     *)
(* elements they keep, and the two loops of bs.cpp.                        *)
(***************************************************************************)
EXTENDS CMOArray, SequencesExt

(* The constructors of both: each element is stored, then compared with the  *)
(* one before it; abort_message ends the process when the keys go down.       *)
Unsorted(elements) == \E k \in 2 .. Len(elements) : elements[k][1] < elements[k - 1][1]

ROData(elements, block_size) ==
  FoldLeft(LAMBDA data, k : write(data, k - 1, elements[k]),
           NewArray(Len(elements), block_size, 0), [k \in 1 .. Len(elements) |-> k])

RECURSIVE find_at(_, _, _, _, _)
find_at(data, block_size, key, left, right) ==
  IF right < left THEN -1
  ELSE LET mid == (left + right) \div 2
           e   == read(data, mid, block_size)
       IN IF e[1] = key THEN mid
          ELSE IF e[1] > key THEN find_at(data, block_size, key, left, mid - 1)
          ELSE find_at(data, block_size, key, mid + 1, right)

(* ROMap::find, and ROSet::find as whether it is not -1.                      *)
find(data, block_size, key) == find_at(data, block_size, key, 0, size(data) - 1)

get_key(data, idx) == read(data, idx, 2)[1]

get_value(data, idx) == read(data, idx, 2)[2]

(* The loop of bs.cpp returns the last middle it looked at.                  *)
RECURSIVE SearchFrom(_, _, _, _, _)
SearchFrom(index, key, low, high, mid) ==
  IF low > high THEN mid
  ELSE LET m == (high - low) \div 2 + low
       IN IF index[m] = key THEN m
          ELSE IF index[m] < key THEN SearchFrom(index, key, m + 1, high, m)
          ELSE SearchFrom(index, key, low, m - 1, m)

search(index, index_len, key) == SearchFrom(index, key, 0, index_len - 1, 0)
=============================================================================
