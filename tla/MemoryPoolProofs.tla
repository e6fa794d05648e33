-------------------------- MODULE MemoryPoolProofs --------------------------
(***************************************************************************)
(* The two lists of MemoryPool implement a pool of blocks, for every size  *)
(* of element and every capacity of at least two blocks, whatever          *)
(* free_block does to the word of the pool's own sizes.                    *)
(***************************************************************************)
EXTENDS MemoryPool, LinkedBlocksProofs

-----------------------------------------------------------------------------
(* The layout of the array *)

\* The words of metadata of the two lists.
ListAddrs == {FREE_BLOCK_META_ADDR, USED_BLOCK_META_ADDR}

\* The sizes come first, then the lists, then the blocks, which end with the
\* array.
LEMMA Layout ==
  /\ DataLen \in Nat /\ DataLen < Half
  /\ DataLen = 3 + Capacity * BlockSize
  /\ Capacity * BlockSize \in Nat
  /\ FREE_BLOCK_META_ADDR = 1 /\ USED_BLOCK_META_ADDR = 2
<1>1. DataLen \in Nat /\ DataLen < Half
  BY PoolAssumption, HalfOfFull
<1>2. Capacity * BlockSize \in Nat
  BY BlockSizes, ProductNat
<1> QED BY <1>1, <1>2 DEF DataLen, FREE_BLOCK_META_ADDR, USED_BLOCK_META_ADDR

\* The blocks lie in the array, and their addresses fit the fields.
LEMMA BlockPlaces ==
  /\ Blocks = BlocksFrom(3)
  /\ Blocks \subseteq Addresses
  /\ Blocks \subseteq 1 .. Half - 1
  /\ \A b \in Blocks : b \in Nat /\ b >= 3
<1>1. ASSUME NEW b \in Blocks
      PROVE  b \in Nat /\ 3 <= b /\ b < DataLen
  <2>1. b \in Nat /\ 3 <= b /\ b + BlockSize <= 3 + Capacity * BlockSize
    BY BlockInside DEF Blocks
  <2> QED BY <2>1, BlockSizes, Layout
<1>2. \A b \in Blocks : b \in Addresses /\ b \in 1 .. Half - 1
  BY <1>1, Layout, HalfOfFull DEF Addresses
<1> QED BY <1>1, <1>2 DEF Blocks

\* The lists have words of their own.
LEMMA ListPlaces ==
  /\ ListAddrs \subseteq Addresses \ Blocks
  /\ 0 \in Addresses /\ 0 \notin Blocks /\ 0 \notin ListAddrs
<1>1. 0 \in Addresses /\ 1 \in Addresses /\ 2 \in Addresses
  BY Layout DEF Addresses
<1> QED BY <1>1, BlockPlaces, Layout DEF ListAddrs

\* The ints of the elements are in the array, are no links and no sizes, and
\* belong to one block.
LEMMA ElementPlaces ==
  ASSUME NEW b \in Blocks, NEW k \in 0 .. ElementSize - 1
  PROVE  /\ b + 1 + k \in Addresses \ {0}
         /\ b + 1 + k \notin Blocks /\ b + 1 + k \notin ListAddrs
         /\ \A d \in Blocks : d # b =>
              b + 1 + k \notin d + 1 .. d + 1 + ElementSize - 1
<1>1. /\ b + 1 + k \in 3 .. 3 + Capacity * BlockSize - 1
      /\ b + 1 + k \notin Blocks
      /\ \A d \in Blocks : d # b =>
           b + 1 + k \notin d + 1 .. d + 1 + ElementSize - 1
  BY BlockPlaces, ElementApart
<1>2. b + 1 + k \notin ListAddrs
  BY <1>1, Layout DEF ListAddrs
<1> QED BY <1>1, <1>2, Layout DEF Addresses

-----------------------------------------------------------------------------
(* The invariant *)

\* The blocks of each list, as next addresses reach them.
Linkage(m) == [l \in ListAddrs |-> Chain(m, l)]

\* What every operation keeps, and what the properties follow from: the
\* enumerated blocks are linked, in order, into two lists that share none and
\* leave none out, and the client holds those of the list of used blocks.
PoolInv ==
  /\ Lists(Addresses, Blocks, data, Linkage(data))
  /\ \A b \in Blocks : InLists(Linkage(data), b)
  /\ held = {Used[k] : k \in 1 .. Len(Used)}

\* When sequences of blocks are linked into the lists, they are what next
\* addresses reach.
LEMMA LinkageIs ==
  ASSUME NEW m, NEW ch, Lists(Addresses, Blocks, m, ch),
         ch = [l \in ListAddrs |-> ch[l]]
  PROVE  Linkage(m) = ch
<1>1. \A l \in ListAddrs : Chain(m, l) = ch[l]
  <2>1. 3 \in Nat \ {0} /\ DOMAIN ch = ListAddrs
    OBVIOUS
  <2> QED BY <2>1, BlockPlaces, ChainsOfLists
<1> QED BY <1>1 DEF Linkage

\* Writing the words of lists and blocks, and those of the sizes, writes no
\* element.
LEMMA LinksOnly ==
  ASSUME NEW m, NEW n,
         \A x \in Addresses : x \notin Blocks /\ x \notin ListAddrs /\ x # 0 =>
           n[x] = m[x]
  PROVE  \A d \in Blocks : read_element(n, d + 1) = read_element(m, d + 1)
<1> TAKE d \in Blocks
<1>1. \A k \in 0 .. ElementSize - 1 : n[d + 1 + k] = m[d + 1 + k]
  BY ElementPlaces
<1> QED BY <1>1, ReadElement

-----------------------------------------------------------------------------
(* Taking a block out of the middle of the list of used blocks *)

\* Unlink leaves the other blocks linked in their order, and writes no other
\* word but the one of the sizes.
LEMMA Unlinked ==
  ASSUME NEW m, NEW c, ListAt(Addresses, Blocks, m, USED_BLOCK_META_ADDR, c),
         NEW i \in 1 .. Len(c), NEW n, n = Unlink(m, c[i])
  PROVE  /\ n \in [Addresses -> Words]
         /\ IsList(n, USED_BLOCK_META_ADDR, Removal(c, i))
         /\ \A x \in Addresses :
              x # 0 /\ x # USED_BLOCK_META_ADDR /\ (\A k \in 1 .. Len(c) : x # c[k])
                => n[x] = m[x]
<1> DEFINE A == Addresses
           U == USED_BLOCK_META_ADDR
           len == Len(c)
           d == Removal(c, i)
           prev == IF i = 1 THEN 0 ELSE c[i - 1]
           next == IF i = len THEN 0 ELSE c[i + 1]
<1>1. len \in Nat \ {0} /\ m \in [A -> Words] /\ U \in A /\ 0 \in A /\ U # 0
  BY Ends, ListPlaces, Layout DEF ListAt
<1>2. \A k \in 1 .. len : c[k] \in Blocks /\ c[k] \in A /\ c[k] # U
                          /\ c[k] \in Hi /\ c[k] \in Lo /\ c[k] # 0
  BY Ends
<1>3. begin_addr(m, U) = c[1] /\ end_addr(m, U) = c[len]
  BY <1>1, Ends
<1>4. \A k \in 1 .. len :
        /\ m[c[k]].hi = IF k = 1 THEN 0 ELSE c[k - 1]
        /\ m[c[k]].lo = IF k = len THEN 0 ELSE c[k + 1]
  BY DEF ListAt, IsList, get_block_prev_addr, get_block_next_addr
<1>5. \A j, k \in 1 .. len : c[j] = c[k] => j = k
  BY DEF ListAt, Distinct
<1>6. 0 \in Hi /\ 0 \in Lo
  BY Ends
<1>7. /\ Len(d) = len - 1 /\ (d = << >> <=> len = 1)
      /\ \A j \in 1 .. len - 1 : d[j] = IF j < i THEN c[j] ELSE c[j + 1]
  <2>1. c \in Seq(Blocks)
    BY DEF ListAt
  <2> QED BY <2>1, RemovalFacts
<1>8. /\ get_block_prev_addr(m, c[i]) = prev
      /\ get_block_next_addr(m, c[i]) = next
  BY <1>4 DEF get_block_prev_addr, get_block_next_addr
<1>9. i \in Nat /\ 1 <= i /\ i <= len
  BY <1>1
<1> HIDE DEF A, U, len, d
<1>10. /\ i # 1 => i - 1 \in 1 .. len /\ prev = c[i - 1] /\ prev # 0
       /\ i # len => i + 1 \in 1 .. len /\ next = c[i + 1] /\ next # 0
       /\ i = 1 => prev = 0
       /\ i = len => next = 0
  <2>1. i # 1 => i - 1 \in 1 .. len
    BY <1>1, <1>9
  <2>2. i # len => i + 1 \in 1 .. len
    BY <1>1, <1>9
  <2> QED BY <1>2, <2>1, <2>2
<1>11. prev \in Hi /\ prev \in Lo /\ next \in Hi /\ next \in Lo
       /\ prev \in A /\ next \in A /\ prev # U /\ next # U
  BY <1>1, <1>2, <1>6, <1>10
<1> HIDE DEF prev, next
<1>12. /\ n \in [A -> Words]
       /\ n[U].hi = IF i = 1 THEN next ELSE c[1]
       /\ n[U].lo = IF i = len THEN prev ELSE c[len]
       /\ next # 0 => n[next].hi = prev /\ (next # prev => n[next].lo = m[next].lo)
       /\ prev # 0 => n[prev].lo = next /\ (next # prev => n[prev].hi = m[prev].hi)
       /\ \A x \in A : x \notin {0, U, prev, next} => n[x] = m[x]
  <2>0. prev # 0 /\ next # 0 => prev # next
    BY <1>5, <1>9, <1>10
  <2>1. CASE prev = 0 /\ next = 0
    <3>1. i = 1 /\ i = len
      BY <1>10, <2>1
    <3>2. n = set_addr(m, U, 0, 0)
      BY <1>8, <2>1 DEF Unlink, U
    <3>3. /\ n \in [A -> Words] /\ n[U].hi = 0 /\ n[U].lo = 0
          /\ \A x \in A : x # U => n[x] = m[x]
      BY <1>1, <1>6, <3>2, SetAddr
    <3> QED BY <2>1, <3>1, <3>3
  <2>2. CASE prev = 0 /\ next # 0
    <3> DEFINE f == set_hi(m, U, next)
               g == set_hi(f, next, 0)
    <3>1. i = 1 /\ i # len
      BY <1>10, <2>2
    <3>2. n = set_lo(g, 0, next)
      BY <1>8, <2>2 DEF Unlink, U
    <3>3. /\ f \in [A -> Words] /\ f[U].hi = next /\ f[U].lo = m[U].lo
          /\ \A x \in A : x # U => f[x] = m[x]
      BY <1>1, <1>11, SetHi
    <3> HIDE DEF f
    <3>4. /\ g \in [A -> Words] /\ g[next].hi = 0 /\ g[next].lo = f[next].lo
          /\ \A x \in A : x # next => g[x] = f[x]
      BY <1>6, <1>11, <3>3, SetHi
    <3> HIDE DEF g
    <3>5. n \in [A -> Words] /\ \A x \in A : x # 0 => n[x] = g[x]
      BY <1>1, <1>11, <3>2, <3>4, SetLo
    <3>6. n[U].hi = next /\ n[U].lo = c[len]
      BY <1>1, <1>3, <1>11, <3>3, <3>4, <3>5 DEF end_addr
    <3>7. n[next].hi = prev /\ n[next].lo = m[next].lo
      BY <1>11, <2>2, <3>3, <3>4, <3>5
    <3>8. \A x \in A : x \notin {0, U, prev, next} => n[x] = m[x]
      BY <3>3, <3>4, <3>5
    <3> QED BY <2>2, <3>1, <3>5, <3>6, <3>7, <3>8
  <2>3. CASE prev # 0 /\ next = 0
    <3> DEFINE f == set_hi(m, 0, prev)
               g == set_lo(f, U, prev)
    <3>1. i # 1 /\ i = len
      BY <1>10, <2>3
    <3>2. n = set_lo(g, prev, 0)
      BY <1>8, <2>3 DEF Unlink, U
    <3>3. f \in [A -> Words] /\ \A x \in A : x # 0 => f[x] = m[x]
      BY <1>1, <1>11, SetHi
    <3> HIDE DEF f
    <3>4. /\ g \in [A -> Words] /\ g[U].hi = f[U].hi /\ g[U].lo = prev
          /\ \A x \in A : x # U => g[x] = f[x]
      BY <1>1, <1>11, <3>3, SetLo
    <3> HIDE DEF g
    <3>5. /\ n \in [A -> Words] /\ n[prev].hi = g[prev].hi /\ n[prev].lo = 0
          /\ \A x \in A : x # prev => n[x] = g[x]
      BY <1>6, <1>11, <3>2, <3>4, SetLo
    <3>6. n[U].hi = c[1] /\ n[U].lo = prev
      BY <1>1, <1>3, <1>11, <3>3, <3>4, <3>5 DEF begin_addr
    <3>7. n[prev].lo = next /\ n[prev].hi = m[prev].hi
      BY <1>11, <2>3, <3>3, <3>4, <3>5
    <3>8. \A x \in A : x \notin {0, U, prev, next} => n[x] = m[x]
      BY <3>3, <3>4, <3>5
    <3> QED BY <2>3, <3>1, <3>5, <3>6, <3>7, <3>8
  <2>4. CASE prev # 0 /\ next # 0
    <3> DEFINE f == set_hi(m, next, prev)
    <3>1. i # 1 /\ i # len
      BY <1>10, <2>4
    <3>2. n = set_lo(f, prev, next)
      BY <1>8, <2>4 DEF Unlink
    <3>3. /\ f \in [A -> Words] /\ f[next].hi = prev /\ f[next].lo = m[next].lo
          /\ \A x \in A : x # next => f[x] = m[x]
      BY <1>1, <1>11, SetHi
    <3> HIDE DEF f
    <3>4. /\ n \in [A -> Words] /\ n[prev].hi = f[prev].hi /\ n[prev].lo = next
          /\ \A x \in A : x # prev => n[x] = f[x]
      BY <1>11, <3>2, <3>3, SetLo
    <3>5. n[U] = m[U]
      BY <1>1, <1>11, <3>3, <3>4
    <3>6. n[U].hi = c[1] /\ n[U].lo = c[len]
      BY <1>3, <3>5 DEF begin_addr, end_addr
    <3>7. n[next].hi = prev /\ n[next].lo = m[next].lo
      BY <1>11, <2>0, <2>4, <3>3, <3>4
    <3>8. n[prev].lo = next /\ n[prev].hi = m[prev].hi
      BY <1>11, <2>0, <2>4, <3>3, <3>4
    <3>9. \A x \in A : x \notin {0, U, prev, next} => n[x] = m[x]
      BY <3>3, <3>4
    <3> QED BY <3>1, <3>4, <3>6, <3>7, <3>8, <3>9
  <2> QED BY <2>1, <2>2, <2>3, <2>4
<1>13. ASSUME NEW k \in 1 .. len, k # i
       PROVE  /\ n[c[k]].hi = IF k = i + 1 THEN prev ELSE m[c[k]].hi
              /\ n[c[k]].lo = IF k = i - 1 THEN next ELSE m[c[k]].lo
  <2>1. i # 1 => (c[k] = prev <=> k = i - 1)
    BY <1>5, <1>10
  <2>2. i # len => (c[k] = next <=> k = i + 1)
    BY <1>5, <1>10
  <2>3. k = i - 1 => i # 1
    BY <1>9
  <2>4. k = i + 1 => i # len
    BY <1>9
  <2>5. prev # 0 /\ next # 0 => prev # next
    BY <1>5, <1>9, <1>10
  <2>6. CASE k = i + 1
    BY <1>9, <1>10, <1>12, <2>2, <2>4, <2>5, <2>6
  <2>7. CASE k = i - 1
    BY <1>9, <1>10, <1>12, <2>1, <2>3, <2>5, <2>7
  <2>8. CASE k # i + 1 /\ k # i - 1
    BY <1>2, <1>10, <1>12, <2>1, <2>2, <2>8
  <2> QED BY <2>6, <2>7, <2>8
<1>14. ASSUME NEW j \in 1 .. len - 1
       PROVE  /\ n[d[j]].hi = IF j = 1 THEN 0 ELSE d[j - 1]
              /\ n[d[j]].lo = IF j = len - 1 THEN 0 ELSE d[j + 1]
  <2>1. /\ j \in 1 .. len /\ j + 1 \in 1 .. len
        /\ j # 1 => j - 1 \in 1 .. len - 1
        /\ j # len - 1 => j + 1 \in 1 .. len - 1
    BY <1>1
  <2>2. CASE j < i
    <3>1. d[j] = c[j] /\ j # i /\ j # i + 1 /\ j # len
      BY <1>1, <1>7, <1>9, <2>2
    <3>2. n[d[j]].hi = (IF j = 1 THEN 0 ELSE c[j - 1])
          /\ n[d[j]].lo = IF j = i - 1 THEN next ELSE c[j + 1]
      BY <1>4, <1>13, <2>1, <3>1
    <3>3. j # 1 => d[j - 1] = c[j - 1]
      BY <1>7, <1>9, <2>1, <2>2
    <3>4. CASE j = i - 1
      <4>1. j = len - 1 <=> i = len
        BY <1>1, <1>9, <3>4
      <4>2. j # len - 1 => d[j + 1] = c[i + 1]
        BY <1>7, <1>9, <2>1, <3>4
      <4> QED BY <1>10, <3>2, <3>3, <3>4, <4>1, <4>2
    <3>5. CASE j # i - 1
      <4>1. j # len - 1 /\ j + 1 < i
        BY <1>1, <1>9, <2>2, <3>5
      <4>2. d[j + 1] = c[j + 1]
        BY <1>7, <2>1, <4>1
      <4> QED BY <3>2, <3>3, <3>5, <4>1, <4>2
    <3> QED BY <3>4, <3>5
  <2>3. CASE ~ (j < i)
    <3>1. d[j] = c[j + 1] /\ j + 1 # i /\ j + 1 # i - 1
      BY <1>1, <1>7, <1>9, <2>3
    <3>2. (j + 1 = i + 1 <=> j = i) /\ (j + 1 = len <=> j = len - 1) /\ j + 1 # 1
          /\ (j + 1) - 1 = j
      BY <1>1, <1>9
    <3>3. n[d[j]].hi = (IF j = i THEN prev ELSE c[j])
          /\ n[d[j]].lo = IF j = len - 1 THEN 0 ELSE c[j + 1 + 1]
      BY <1>4, <1>13, <2>1, <3>1, <3>2
    <3>4. j # len - 1 => d[j + 1] = c[j + 1 + 1]
      BY <1>1, <1>7, <1>9, <2>1, <2>3
    <3>5. CASE j = i
      <4>1. j # 1 => d[j - 1] = c[i - 1]
        BY <1>7, <1>9, <2>1, <3>5
      <4> QED BY <1>10, <3>3, <3>4, <3>5, <4>1
    <3>6. CASE j # i
      <4>1. j # 1 /\ ~ (j - 1 < i) /\ (j - 1) + 1 = j
        BY <1>1, <1>9, <2>3, <3>6
      <4>2. d[j - 1] = c[j]
        BY <1>7, <2>1, <4>1
      <4> QED BY <3>3, <3>4, <3>6, <4>1, <4>2
    <3> QED BY <3>5, <3>6
  <2> QED BY <2>2, <2>3
<1>15. /\ n[U].hi = IF len = 1 THEN 0 ELSE d[1]
       /\ n[U].lo = IF len = 1 THEN 0 ELSE d[len - 1]
  <2>1. CASE len = 1
    <3>1. i = 1 /\ i = len
      BY <1>9, <2>1
    <3> QED BY <1>10, <1>12, <2>1, <3>1
  <2>2. CASE len # 1
    <3>1. 1 \in 1 .. len - 1 /\ len - 1 \in 1 .. len - 1 /\ (len - 1) + 1 = len
      BY <1>1, <2>2
    <3>2. d[1] = IF i = 1 THEN c[1 + 1] ELSE c[1]
      BY <1>7, <1>9, <3>1
    <3>3. i = 1 => next = c[1 + 1]
      BY <1>10, <2>2
    <3>4. d[len - 1] = IF i = len THEN c[len - 1] ELSE c[len]
      <4>1. len - 1 < i <=> i = len
        BY <1>1, <1>9
      <4> QED BY <1>7, <3>1, <4>1
    <3>5. i = len => prev = c[len - 1]
      BY <1>10, <2>2
    <3> QED BY <1>12, <2>2, <3>2, <3>3, <3>4, <3>5
  <2> QED BY <2>1, <2>2
<1>16. IsList(n, U, d)
  BY <1>1, <1>7, <1>14, <1>15
  DEF IsList, begin_addr, end_addr, get_block_prev_addr, get_block_next_addr
<1>17. \A x \in A : x # 0 /\ x # U /\ (\A k \in 1 .. len : x # c[k]) => n[x] = m[x]
  BY <1>10, <1>12
<1> QED BY <1>12, <1>16, <1>17 DEF A, U, len, d

-----------------------------------------------------------------------------
(* Moving a block from one list to the other *)

\* When the i-th block is taken off the list l, it is in no list, and no
\* element is written.
LEMMA TakenOff ==
  ASSUME NEW m, NEW ch, Lists(Addresses, Blocks, m, ch),
         ch = [x \in ListAddrs |-> ch[x]],
         NEW l \in ListAddrs, NEW p \in ListAddrs, l # p,
         NEW i, i \in 1 .. Len(ch[l]), NEW n,
         ListAt(Addresses, Blocks, n, l, Removal(ch[l], i)),
         \A x \in Addresses :
           x # 0 /\ x # l /\ (\A k \in 1 .. Len(ch[l]) : x # ch[l][k]) => n[x] = m[x],
         NEW left, left = [ch EXCEPT ![l] = Removal(ch[l], i)]
  PROVE  /\ ch[l][i] \in Blocks
         /\ DOMAIN left = ListAddrs /\ left = [x \in ListAddrs |-> left[x]]
         /\ left[l] = Removal(ch[l], i) /\ left[p] = ch[p]
         /\ Lists(Addresses, Blocks, n, left)
         /\ \A x : InLists(left, x) <=> InLists(ch, x) /\ x # ch[l][i]
         /\ ListAt(Addresses, Blocks, n, p, ch[p])
         /\ \A k \in 1 .. Len(ch[p]) : ch[p][k] # ch[l][i]
         /\ \A d \in Blocks : read_element(n, d + 1) = read_element(m, d + 1)
<1> DEFINE c == ch[l]
           b == c[i]
           d == Removal(c, i)
           n0 == [n EXCEPT ![0] = m[0]]
<1>1. ListAt(Addresses, Blocks, m, l, c)
  BY DEF Lists
<1>2. c \in Seq(Blocks) /\ b \in Blocks /\ m \in [Addresses -> Words]
  <2>1. c \in Seq(Blocks) /\ m \in [Addresses -> Words]
    BY <1>1 DEF ListAt
  <2> QED BY <2>1
<1>3. l \in Addresses /\ l # 0
      /\ \A x \in Blocks : x \in Addresses /\ x # 0
  BY ListPlaces, BlockPlaces
<1>4. /\ n0 \in [Addresses -> Words] /\ n0[0] = m[0]
      /\ \A x \in Addresses : x # 0 => n0[x] = n[x]
  <2>1. n \in [Addresses -> Words] /\ 0 \in Addresses
    BY ListPlaces DEF ListAt
  <2> QED BY <1>2, <2>1
<1> HIDE DEF n0
<1>5. d \in Seq(Blocks)
  BY DEF ListAt
<1>6. ListAt(Addresses, Blocks, n0, l, d)
  <2>1. n0[l] = n[l] /\ \A k \in 1 .. Len(d) : n0[d[k]] = n[d[k]]
    <3>1. \A k \in 1 .. Len(d) : d[k] \in Blocks
      BY <1>5
    <3> QED BY <1>3, <1>4, <3>1
  <2> HIDE DEF d
  <2>2. ListAt(Addresses, Blocks, n, l, d)
    BY DEF d
  <2>3. IsList(n, l, d)
    BY <2>2 DEF ListAt
  <2>4. IsList(n0, l, d)
    BY <2>1, <2>3
    DEF IsList, begin_addr, end_addr, get_block_prev_addr, get_block_next_addr
  <2> QED BY <1>4, <2>2, <2>4 DEF ListAt
<1>7. OnlyList(Addresses, m, n0, l, c)
  BY <1>4 DEF OnlyList
<1>8. /\ Lists(Addresses, Blocks, n0, left)
      /\ \A x : InLists(left, x) <=> InLists(ch, x) /\ x # b
  <2>1. l \in DOMAIN ch
    OBVIOUS
  <2> HIDE DEF n0
  <2> QED BY <1>6, <1>7, <2>1, ListsTake
<1> HIDE DEF d
<1>9. /\ DOMAIN left = ListAddrs /\ left[l] = d /\ left[p] = ch[p]
      /\ left = [x \in ListAddrs |-> left[x]]
  BY DEF d
<1>10. Lists(Addresses, Blocks, n, left)
  <2>1. n \in [Addresses -> Words]
    BY DEF ListAt
  <2>2. \A x \in Blocks \cup DOMAIN left : n[x] = n0[x]
    BY <1>3, <1>4, <1>9, ListPlaces
  <2> QED BY <1>8, <2>1, <2>2, ListsKeep
<1>11. ListAt(Addresses, Blocks, n, p, ch[p])
  BY <1>9, <1>10 DEF Lists
<1>12. \A k \in 1 .. Len(ch[p]) : ch[p][k] # b
  <2>1. ~ InLists(left, b)
    BY <1>8
  <2> QED BY <1>9, <2>1 DEF InLists
<1>13. \A x \in Blocks : read_element(n, x + 1) = read_element(m, x + 1)
  <2>1. \A k \in 1 .. Len(c) : c[k] \in Blocks
    BY <1>2
  <2>2. \A x \in Addresses :
          x \notin Blocks /\ x \notin ListAddrs /\ x # 0 => n[x] = m[x]
    BY <2>1
  <2> QED BY <2>2, LinksOnly
<1> QED BY <1>2, <1>8, <1>9, <1>10, <1>11, <1>12, <1>13 DEF d

\* When it is then put into the list p as its j-th, the lists share no block
\* and leave none out as before.
LEMMA PutInto ==
  ASSUME NEW n, NEW left, Lists(Addresses, Blocks, n, left),
         left = [x \in ListAddrs |-> left[x]],
         NEW p \in ListAddrs, NEW b \in Blocks, ~ InLists(left, b),
         NEW j \in 1 .. Len(left[p]) + 1, NEW o,
         ListAt(Addresses, Blocks, o, p, Insertion(left[p], j, b)),
         OnlyList(Addresses, n, o, p, Insertion(left[p], j, b))
  PROVE  /\ Lists(Addresses, Blocks, o, Linkage(o))
         /\ Linkage(o) = [left EXCEPT ![p] = Insertion(left[p], j, b)]
         /\ \A x : InLists(Linkage(o), x) <=> InLists(left, x) \/ x = b
         /\ \A d \in Blocks : read_element(o, d + 1) = read_element(n, d + 1)
<1> DEFINE f == Insertion(left[p], j, b)
           new == [left EXCEPT ![p] = f]
<1>1. p \in DOMAIN left
  OBVIOUS
<1>2. /\ Lists(Addresses, Blocks, o, new)
      /\ \A x : InLists(new, x) <=> InLists(left, x) \/ x = b
  BY <1>1, ListsPut
<1>3. f \in Seq(Blocks)
  BY DEF ListAt
<1>4. OnlyList(Addresses, n, o, p, f)
  OBVIOUS
<1> HIDE DEF f
<1>5. new = [x \in ListAddrs |-> new[x]]
  OBVIOUS
<1> HIDE DEF new
<1>6. Linkage(o) = new
  BY <1>2, <1>5, LinkageIs
<1>7. \A x \in Blocks : read_element(o, x + 1) = read_element(n, x + 1)
  <2>1. \A k \in 1 .. Len(f) : f[k] \in Blocks
    BY <1>3
  <2>2. \A x \in Addresses :
          x \notin Blocks /\ x \notin ListAddrs /\ x # 0 => o[x] = n[x]
    BY <1>4, <2>1 DEF OnlyList
  <2> QED BY <2>2, LinksOnly
<1> QED BY <1>2, <1>6, <1>7 DEF new, f

-----------------------------------------------------------------------------
(* The steps *)

\* What the invariant says of the two lists.
LEMMA TwoLists ==
  ASSUME PoolInv
  PROVE  /\ Used = Linkage(data)[USED_BLOCK_META_ADDR]
         /\ Linkage(data) = [l \in ListAddrs |-> Linkage(data)[l]]
         /\ \A l \in ListAddrs :
              ListAt(Addresses, Blocks, data, l, Linkage(data)[l])
         /\ FREE_BLOCK_META_ADDR \in ListAddrs /\ USED_BLOCK_META_ADDR \in ListAddrs
         /\ FREE_BLOCK_META_ADDR # USED_BLOCK_META_ADDR
         /\ Used \in Seq(Blocks) /\ Distinct(Used)
         /\ held \subseteq Blocks
         /\ \A x : x \in held <=> \E k \in 1 .. Len(Used) : x = Used[k]
<1>1. /\ FREE_BLOCK_META_ADDR \in ListAddrs /\ USED_BLOCK_META_ADDR \in ListAddrs
      /\ FREE_BLOCK_META_ADDR # USED_BLOCK_META_ADDR
  BY Layout DEF ListAddrs
<1>2. \A l \in ListAddrs : ListAt(Addresses, Blocks, data, l, Linkage(data)[l])
  BY DEF PoolInv, Lists, Linkage
<1>3. Used = Linkage(data)[USED_BLOCK_META_ADDR]
  BY <1>1 DEF Used, Linkage
<1>4. Used \in Seq(Blocks) /\ Distinct(Used)
  BY <1>1, <1>2, <1>3 DEF ListAt
<1>5. held \subseteq Blocks
  BY <1>4 DEF PoolInv
<1>6. Linkage(data) = [l \in ListAddrs |-> Linkage(data)[l]]
  BY DEF Linkage
<1>7. \A x : x \in held <=> \E k \in 1 .. Len(Used) : x = Used[k]
  BY DEF PoolInv
<1> QED BY <1>1, <1>2, <1>3, <1>4, <1>5, <1>6, <1>7

\* alloc_block hands out a block the client does not hold, as the last one.
LEMMA AllocStep ==
  ASSUME PoolInv, alloc_block
  PROVE  PoolInv' /\ \E b \in Blocks : Pool!Alloc(b)
<1> DEFINE F == FREE_BLOCK_META_ADDR
           U == USED_BLOCK_META_ADDR
           ch == Linkage(data)
           b == begin_addr(data, F)
           n == TakeFirst(data, F)
           last == Len(ch[U]) + 1
           left == [ch EXCEPT ![F] = Removal(ch[F], 1)]
<1>1. /\ ~ full(data)
      /\ data' = PutLast(n, U, b)
      /\ held' = held \cup {b}
  BY DEF alloc_block
<1>2. /\ Used = ch[U] /\ ch = [l \in ListAddrs |-> ch[l]]
      /\ ListAt(Addresses, Blocks, data, F, ch[F])
      /\ F \in ListAddrs /\ U \in ListAddrs /\ F # U
      /\ Used \in Seq(Blocks) /\ held \subseteq Blocks
  BY TwoLists
<1>3. Lists(Addresses, Blocks, data, ch)
      /\ \A x \in Blocks : InLists(ch, x)
  BY DEF PoolInv
<1>held. \A x : x \in held <=> \E k \in 1 .. Len(Used) : x = Used[k]
  BY TwoLists
<1>4. ch[F] # << >> /\ b = ch[F][1] /\ 1 \in 1 .. Len(ch[F])
  <2> DEFINE len == Len(ch[F])
  <2>1. len \in Nat /\ b = (IF len = 0 THEN 0 ELSE ch[F][1])
        /\ (ch[F] # << >> <=> len > 0)
    BY <1>2, Ends
  <2>2. b # 0
    BY <1>1 DEF full
  <2> HIDE DEF len
  <2>3. len # 0 /\ 1 \in 1 .. len /\ len > 0
    BY <2>1, <2>2
  <2> QED BY <2>1, <2>3 DEF len
<1>5. /\ ListAt(Addresses, Blocks, n, F, Removal(ch[F], 1))
      /\ OnlyList(Addresses, data, n, F, ch[F])
  BY <1>2, <1>4, TakeFirstTakes
<1> HIDE DEF ch, n, b, F, U
<1>6. /\ ch[F][1] \in Blocks
      /\ left = [x \in ListAddrs |-> left[x]] /\ left[U] = ch[U]
      /\ Lists(Addresses, Blocks, n, left)
      /\ \A x : InLists(left, x) <=> InLists(ch, x) /\ x # ch[F][1]
      /\ ListAt(Addresses, Blocks, n, U, ch[U])
      /\ \A k \in 1 .. Len(ch[U]) : ch[U][k] # ch[F][1]
      /\ \A d \in Blocks : read_element(n, d + 1) = read_element(data, d + 1)
  <2>1. \A x \in Addresses :
          x # 0 /\ x # F /\ (\A k \in 1 .. Len(ch[F]) : x # ch[F][k]) => n[x] = data[x]
    BY <1>5 DEF OnlyList
  <2>2. F \in ListAddrs /\ U \in ListAddrs /\ F # U /\ ch = [l \in ListAddrs |-> ch[l]]
        /\ 1 \in 1 .. Len(ch[F]) /\ Lists(Addresses, Blocks, data, ch)
    BY <1>2, <1>3, <1>4
  <2>3. ListAt(Addresses, Blocks, n, F, Removal(ch[F], 1))
    BY <1>5
  <2> QED BY ONLY <2>1, <2>2, <2>3, TakenOff DEF left
<1> HIDE DEF left
<1>7. /\ ListAt(Addresses, Blocks, data', U, Insertion(ch[U], last, b))
      /\ OnlyList(Addresses, n, data', U, Insertion(ch[U], last, b))
      /\ last \in 1 .. Len(left[U]) + 1
  <2>1. last \in 1 .. Len(ch[U]) + 1
    BY <1>2
  <2> QED BY <1>1, <1>4, <1>6, <2>1, PutLastPuts
<1> HIDE DEF last
<1>8. /\ b \in Blocks
      /\ \A k \in 1 .. Len(ch[U]) : ch[U][k] # b
      /\ Lists(Addresses, Blocks, data', Linkage(data'))
      /\ Linkage(data')[U] = Insertion(ch[U], last, b)
      /\ \A x : InLists(ch, x) => InLists(Linkage(data'), x)
      /\ \A d \in Blocks : read_element(data', d + 1) = read_element(data, d + 1)
  <2>1. U \in ListAddrs /\ b \in Blocks /\ ~ InLists(left, b)
        /\ Lists(Addresses, Blocks, n, left) /\ left = [x \in ListAddrs |-> left[x]]
        /\ last \in 1 .. Len(left[U]) + 1
    BY <1>2, <1>4, <1>6, <1>7
  <2>2. /\ ListAt(Addresses, Blocks, data', U, Insertion(left[U], last, b))
        /\ OnlyList(Addresses, n, data', U, Insertion(left[U], last, b))
    BY <1>6, <1>7
  <2>3. /\ Lists(Addresses, Blocks, data', Linkage(data'))
        /\ Linkage(data') = [left EXCEPT ![U] = Insertion(left[U], last, b)]
        /\ \A x : InLists(Linkage(data'), x) <=> InLists(left, x) \/ x = b
        /\ \A d \in Blocks : read_element(data', d + 1) = read_element(n, d + 1)
    BY ONLY <2>1, <2>2, PutInto
  <2>4. Linkage(data')[U] = Insertion(ch[U], last, b)
    BY <1>6, <2>1, <2>3
  <2> QED BY <1>4, <1>6, <2>1, <2>3, <2>4
<1>9. Used' = Append(Used, b)
  <2>1. Used' = Linkage(data')[U]
    BY <1>2 DEF Used, Linkage, U
  <2> QED BY <1>2, <1>8, <2>1, AppendInserts DEF last
<1>10. held' = {Used'[k] : k \in 1 .. Len(Used')}
  <2>1. /\ Used' \in Seq(Blocks) /\ Len(Used') = Len(Used) + 1 /\ Len(Used) \in Nat
        /\ \A k \in 1 .. Len(Used) : Used'[k] = Used[k]
        /\ Used'[Len(Used) + 1] = b
    BY <1>2, <1>8, <1>9, AppendProperties
  <2> DEFINE len == Len(Used)
  <2>2. Len(Used') = len + 1 /\ len \in Nat
    BY <2>1
  <2>3. /\ \A k \in 1 .. len : Used'[k] = Used[k]
        /\ Used'[len + 1] = b
    BY <2>1
  <2>4. \A x : x \in held <=> \E k \in 1 .. len : x = Used[k]
    BY <1>held
  <2>6. held' = held \cup {b}
    BY <1>1
  <2> HIDE DEF len
  <2>5. \A x : x \in held' <=> \E k \in 1 .. len + 1 : x = Used'[k]
    <3>1. \A k \in 1 .. len + 1 : k \in 1 .. len \/ k = len + 1
      BY <2>2
    <3>2. len + 1 \in 1 .. len + 1 /\ \A k \in 1 .. len : k \in 1 .. len + 1
      BY <2>2
    <3> QED BY <2>3, <2>4, <2>6, <3>1, <3>2
  <2> QED BY <2>2, <2>5
<1>11. PoolInv'
  BY <1>3, <1>8, <1>10 DEF PoolInv
<1>12. Pool!Alloc(b)
  <2>1. b \notin held
    BY <1>2, <1>8, <1>held
  <2>2. DOMAIN Content = held /\ DOMAIN Content' = held'
    BY DEF Content
  <2>3. \A c \in held : Content'[c] = Content[c]
    BY <1>1, <1>2, <1>8 DEF Content
  <2> QED BY <1>1, <1>9, <2>1, <2>2, <2>3 DEF Pool!Alloc, Pool!InUse
<1> QED BY <1>8, <1>11, <1>12

\* RemoveAt leaves out one place of a sequence.
LEMMA RemoveAtRemoves ==
  ASSUME NEW S, NEW s \in Seq(S), NEW i \in 1 .. Len(s)
  PROVE  Pool!RemoveAt(s, i) = Removal(s, i)
<1> DEFINE len == Len(s)
           a == SubSeq(s, 1, i - 1)
           z == SubSeq(s, i + 1, len)
<1>1. len \in Nat /\ i \in Nat /\ 1 <= i /\ i <= len
  OBVIOUS
<1>2. a \in Seq(S) /\ Len(a) = i - 1 /\ \A k \in 1 .. i - 1 : a[k] = s[k]
  <2>1. \A k \in 1 .. i - 1 : s[k] \in S /\ 1 + k - 1 = k
    BY <1>1
  <2>2. /\ a \in Seq(S)
        /\ Len(a) = IF 1 <= i - 1 THEN i - 1 - 1 + 1 ELSE 0
        /\ \A k \in 1 .. i - 1 - 1 + 1 : a[k] = s[1 + k - 1]
    BY <1>1, <2>1, SubSeqProperties
  <2> HIDE DEF a
  <2>3. i - 1 - 1 + 1 = i - 1
    BY <1>1
  <2> QED BY <1>1, <2>1, <2>2, <2>3
<1>3. z \in Seq(S) /\ Len(z) = len - i /\ \A k \in 1 .. len - i : z[k] = s[k + i]
  <2>1. /\ \A k \in i + 1 .. len : s[k] \in S
        /\ \A k \in 1 .. len - i : (i + 1) + k - 1 = k + i
    BY <1>1
  <2>2. /\ z \in Seq(S)
        /\ Len(z) = IF i + 1 <= len THEN len - (i + 1) + 1 ELSE 0
        /\ \A k \in 1 .. len - (i + 1) + 1 : z[k] = s[(i + 1) + k - 1]
    BY <1>1, <2>1, SubSeqProperties
  <2> HIDE DEF z, len
  <2>3. len - (i + 1) + 1 = len - i
    BY <1>1
  <2> QED BY <1>1, <2>1, <2>2, <2>3
<1> DEFINE r == a \o z
<1>4. Pool!RemoveAt(s, i) = r
  BY DEF Pool!RemoveAt
<1> HIDE DEF a, z, len
<1>5. /\ r \in Seq(S) /\ Len(r) = len - 1
      /\ \A k \in 1 .. len - 1 : r[k] = IF k <= i - 1 THEN a[k] ELSE z[k - (i - 1)]
  <2>1. Len(a) = i - 1 /\ Len(a) + Len(z) = len - 1
    BY <1>1, <1>2, <1>3
  <2>2. /\ r \in Seq(S) /\ Len(r) = Len(a) + Len(z)
        /\ \A k \in 1 .. Len(a) + Len(z) :
             r[k] = IF k <= Len(a) THEN a[k] ELSE z[k - Len(a)]
    BY <1>2, <1>3, ConcatProperties
  <2> QED BY <2>1, <2>2
<1> HIDE DEF r
<1>6. \A k \in 1 .. len - 1 : r[k] = IF k < i THEN s[k] ELSE s[k + 1]
  <2> TAKE k \in 1 .. len - 1
  <2>1. CASE k < i
    <3>1. k <= i - 1 /\ k \in 1 .. i - 1
      BY <1>1, <2>1
    <3> QED BY <1>2, <1>5, <2>1, <3>1
  <2>2. CASE ~ (k < i)
    <3>1. ~ (k <= i - 1) /\ k - (i - 1) \in 1 .. len - i /\ k - (i - 1) + i = k + 1
      BY <1>1, <2>2
    <3> QED BY <1>3, <1>5, <2>2, <3>1
  <2> QED BY <2>1, <2>2
<1>7. r = [k \in 1 .. len - 1 |-> r[k]]
  BY <1>5
<1> QED BY <1>4, <1>6, <1>7 DEF Removal, len

\* free_block takes a block the client holds back, wherever it is enumerated,
\* and leaves the others in their order.
LEMMA FreeStep ==
  ASSUME PoolInv, NEW addr \in held, free_block(addr)
  PROVE  PoolInv' /\ addr \in Blocks /\ Pool!Free(addr)
<1> DEFINE F == FREE_BLOCK_META_ADDR
           U == USED_BLOCK_META_ADDR
           ch == Linkage(data)
           n == Unlink(data, addr)
<1>1. data' = PutFirst(n, F, addr) /\ held' = held \ {addr}
  BY DEF free_block
<1>2. /\ Used = ch[U] /\ ch = [l \in ListAddrs |-> ch[l]]
      /\ ListAt(Addresses, Blocks, data, U, ch[U])
      /\ F \in ListAddrs /\ U \in ListAddrs /\ U # F
      /\ Used \in Seq(Blocks) /\ Distinct(Used) /\ held \subseteq Blocks
      /\ \A x : x \in held <=> \E k \in 1 .. Len(Used) : x = Used[k]
  BY TwoLists
<1>3. Lists(Addresses, Blocks, data, ch)
      /\ \A x \in Blocks : InLists(ch, x)
  BY DEF PoolInv
<1>4. PICK i \in 1 .. Len(Used) : addr = Used[i]
  BY <1>2
<1>5. /\ n \in [Addresses -> Words]
      /\ IsList(n, U, Removal(ch[U], i))
      /\ \A x \in Addresses :
           x # 0 /\ x # U /\ (\A k \in 1 .. Len(ch[U]) : x # ch[U][k]) => n[x] = data[x]
  <2>1. i \in 1 .. Len(ch[U]) /\ n = Unlink(data, ch[U][i])
    BY <1>2, <1>4
  <2> HIDE DEF n, ch
  <2>2. ListAt(Addresses, Blocks, data, USED_BLOCK_META_ADDR, ch[U])
    BY <1>2
  <2> QED BY <2>1, <2>2, Unlinked
<1>6. ListAt(Addresses, Blocks, n, U, Removal(ch[U], i))
  <2>1. ch[U] \in Seq(Blocks) /\ Distinct(ch[U]) /\ i \in 1 .. Len(ch[U])
    BY <1>2, <1>4
  <2>2. Removal(ch[U], i) \in Seq(Blocks) /\ Distinct(Removal(ch[U], i))
    BY <2>1, RemovalFacts
  <2>3. /\ Blocks \subseteq Addresses /\ Blocks \subseteq 1 .. Half - 1
        /\ U \in Addresses \ Blocks
    BY <1>2, BlockPlaces, ListPlaces
  <2> HIDE DEF n, ch
  <2> QED BY <1>5, <2>2, <2>3 DEF ListAt
<1> DEFINE left == [ch EXCEPT ![U] = Removal(ch[U], i)]
           first == 1
<1>7. /\ F \in ListAddrs /\ U \in ListAddrs /\ U # F /\ ch = [l \in ListAddrs |-> ch[l]]
      /\ i \in 1 .. Len(ch[U]) /\ Lists(Addresses, Blocks, data, ch)
  BY <1>2, <1>3, <1>4
<1> HIDE DEF ch, n, F, U
<1>8. /\ ch[U][i] \in Blocks
      /\ left = [x \in ListAddrs |-> left[x]]
      /\ left[U] = Removal(ch[U], i) /\ left[F] = ch[F]
      /\ Lists(Addresses, Blocks, n, left)
      /\ \A x : InLists(left, x) <=> InLists(ch, x) /\ x # ch[U][i]
      /\ ListAt(Addresses, Blocks, n, F, ch[F])
      /\ \A k \in 1 .. Len(ch[F]) : ch[F][k] # ch[U][i]
      /\ \A d \in Blocks : read_element(n, d + 1) = read_element(data, d + 1)
  <2> HIDE DEF left
  <2>1. left = [ch EXCEPT ![U] = Removal(ch[U], i)]
    BY DEF left
  <2> QED BY ONLY <1>5, <1>6, <1>7, <2>1, TakenOff
<1> HIDE DEF left
<1>9. addr = ch[U][i] /\ addr \in Blocks /\ ~ InLists(left, addr)
  BY <1>2, <1>4, <1>8
<1>10. /\ ListAt(Addresses, Blocks, data', F, Insertion(ch[F], first, addr))
       /\ OnlyList(Addresses, n, data', F, Insertion(ch[F], first, addr))
       /\ first \in 1 .. Len(left[F]) + 1
  <2>1. Len(ch[F]) \in Nat
    BY <1>8, Ends
  <2> QED BY <1>1, <1>8, <1>9, <2>1, PutFirstPuts
<1> HIDE DEF first
<1>11. /\ addr \in Blocks
       /\ Lists(Addresses, Blocks, data', Linkage(data'))
       /\ Linkage(data')[U] = Removal(ch[U], i)
       /\ \A x : InLists(ch, x) => InLists(Linkage(data'), x)
       /\ \A d \in Blocks : read_element(data', d + 1) = read_element(data, d + 1)
  <2>1. F \in ListAddrs /\ addr \in Blocks /\ ~ InLists(left, addr)
        /\ Lists(Addresses, Blocks, n, left) /\ left = [x \in ListAddrs |-> left[x]]
        /\ first \in 1 .. Len(left[F]) + 1
    BY <1>2, <1>8, <1>9, <1>10
  <2>2. /\ ListAt(Addresses, Blocks, data', F, Insertion(left[F], first, addr))
        /\ OnlyList(Addresses, n, data', F, Insertion(left[F], first, addr))
    BY <1>8, <1>10
  <2>3. /\ Lists(Addresses, Blocks, data', Linkage(data'))
        /\ Linkage(data') = [left EXCEPT ![F] = Insertion(left[F], first, addr)]
        /\ \A x : InLists(Linkage(data'), x) <=> InLists(left, x) \/ x = addr
        /\ \A d \in Blocks : read_element(data', d + 1) = read_element(n, d + 1)
    BY ONLY <2>1, <2>2, PutInto
  <2>4. Linkage(data')[U] = Removal(ch[U], i)
    BY <1>2, <1>8, <2>1, <2>3
  <2> QED BY <1>8, <1>9, <2>1, <2>3, <2>4
<1>12. Used' = Removal(Used, i)
  <2>1. Used' = Linkage(data')[U]
    BY <1>2 DEF Used, Linkage, U
  <2> QED BY <1>2, <1>11, <2>1
<1>13. held' = {Used'[k] : k \in 1 .. Len(Used')}
  <2> DEFINE len == Len(Used)
             d == Used'
  <2>1. /\ Len(d) = len - 1
        /\ \A k \in 1 .. len - 1 : d[k] = IF k < i THEN Used[k] ELSE Used[k + 1]
    BY <1>2, <1>4, <1>12, RemovalFacts
  <2>2. len \in Nat /\ i \in Nat /\ 1 <= i /\ i <= len
    BY <1>2, <1>4
  <2>3. \A j, k \in 1 .. len : Used[j] = Used[k] => j = k
    BY <1>2 DEF Distinct
  <2>4. \A x : x \in held' <=> (\E k \in 1 .. len : x = Used[k]) /\ x # Used[i]
    BY <1>1, <1>2, <1>4
  <2> HIDE DEF len, d
  <2>5. ASSUME NEW k \in 1 .. len - 1
        PROVE  \E j \in 1 .. len : j # i /\ d[k] = Used[j]
    <3>1. CASE k < i
      <4>1. k \in 1 .. len /\ k # i
        BY <2>2, <3>1
      <4> QED BY <2>1, <3>1, <4>1
    <3>2. CASE ~ (k < i)
      <4>1. k + 1 \in 1 .. len /\ k + 1 # i
        BY <2>2, <3>2
      <4> QED BY <2>1, <3>2, <4>1
    <3> QED BY <3>1, <3>2
  <2>6. ASSUME NEW j \in 1 .. len, j # i
        PROVE  \E k \in 1 .. len - 1 : d[k] = Used[j]
    <3>1. CASE j < i
      <4>1. j \in 1 .. len - 1
        BY <2>2, <3>1
      <4> QED BY <2>1, <3>1, <4>1
    <3>2. CASE ~ (j < i)
      <4>1. j - 1 \in 1 .. len - 1 /\ ~ (j - 1 < i) /\ (j - 1) + 1 = j
        BY <2>2, <2>6, <3>2
      <4> QED BY <2>1, <4>1
    <3> QED BY <3>1, <3>2
  <2>7. i \in 1 .. len
    BY <2>2
  <2>8. \A x : x \in held' <=> \E k \in 1 .. len - 1 : x = d[k]
    BY <2>3, <2>4, <2>5, <2>6, <2>7
  <2>9. held' = {d[k] : k \in 1 .. Len(d)}
    BY <2>1, <2>8
  <2> QED BY <2>9 DEF d
<1>14. PoolInv'
  BY <1>3, <1>11, <1>13 DEF PoolInv
<1>15. Pool!Free(addr)
  <2>1. Used' = Pool!RemoveAt(Used, i)
    BY <1>2, <1>4, <1>12, RemoveAtRemoves
  <2>2. DOMAIN Content = held
    BY DEF Content
  <2>3. Content' = [c \in held \ {addr} |-> Content[c]]
    <3>1. \A c \in held \ {addr} :
            c \in Blocks /\ read_element(data', c + 1) = Content[c]
      BY <1>2, <1>11 DEF Content
    <3> QED BY <1>1, <3>1 DEF Content
  <2>4. i \in 1 .. Len(Used) /\ Used[i] = addr
    BY <1>4
  <2> HIDE DEF Used, Content
  <2> QED BY <2>1, <2>2, <2>3, <2>4 DEF Pool!Free, Pool!InUse
<1> QED BY <1>11, <1>14, <1>15

\* write_block changes the element of its block alone.
LEMMA WriteStep ==
  ASSUME PoolInv, NEW addr \in held, NEW e \in Element, write_block(addr, e)
  PROVE  PoolInv' /\ addr \in Blocks /\ Pool!Write(addr, e)
<1> DEFINE ch == Linkage(data)
<1>1. data' = write_element(data, addr + 1, e) /\ held' = held
  BY DEF write_block
<1>2. /\ ch = [l \in ListAddrs |-> ch[l]]
      /\ USED_BLOCK_META_ADDR \in ListAddrs
      /\ Used = ch[USED_BLOCK_META_ADDR]
      /\ ListAt(Addresses, Blocks, data, USED_BLOCK_META_ADDR, ch[USED_BLOCK_META_ADDR])
      /\ held \subseteq Blocks
  BY TwoLists
<1>3. Lists(Addresses, Blocks, data, ch)
      /\ \A x \in Blocks : InLists(ch, x)
  BY DEF PoolInv
<1>4. addr \in Blocks /\ addr \in Nat
  BY <1>2, BlockPlaces
<1>5. \A x \in addr + 1 .. addr + 1 + ElementSize - 1 :
        \E k \in 0 .. ElementSize - 1 : x = addr + 1 + k
  <2> TAKE x \in addr + 1 .. addr + 1 + ElementSize - 1
  <2>1. x - (addr + 1) \in 0 .. ElementSize - 1 /\ x = addr + 1 + (x - (addr + 1))
    BY <1>4, BlockSizes
  <2> QED BY <2>1
<1>6. /\ data' \in [Addresses -> Words]
      /\ read_element(data', addr + 1) = e
      /\ \A y \in Addresses :
           y \notin addr + 1 .. addr + 1 + ElementSize - 1 => data'[y] = data[y]
  <2>1. addr + 1 .. addr + 1 + ElementSize - 1 \subseteq Addresses
    BY <1>4, <1>5, ElementPlaces
  <2>2. data \in [Addresses -> Words] /\ addr + 1 \in Nat
    BY <1>2, <1>4 DEF ListAt
  <2> QED BY <1>1, <2>1, <2>2, WriteElement
<1> HIDE DEF ch
<1>7. \A x \in Blocks \cup ListAddrs : data'[x] = data[x]
  <2> TAKE x \in Blocks \cup ListAddrs
  <2>1. x \in Addresses
    BY BlockPlaces, ListPlaces
  <2>2. x \notin addr + 1 .. addr + 1 + ElementSize - 1
    BY <1>4, <1>5, ElementPlaces
  <2> QED BY <1>6, <2>1, <2>2
<1>8. Lists(Addresses, Blocks, data', ch)
  BY <1>2, <1>3, <1>6, <1>7, ListsKeep
<1>9. Linkage(data') = ch
  BY <1>2, <1>8, LinkageIs
<1>10. Used' = Used
  BY <1>2, <1>9 DEF Used, Linkage
<1>11. PoolInv'
  BY <1>1, <1>3, <1>8, <1>9, <1>10 DEF PoolInv
<1>12. Content' = [Content EXCEPT ![addr] = e]
  <2>1. ASSUME NEW d \in held, d # addr
        PROVE  read_element(data', d + 1) = read_element(data, d + 1)
    <3>1. d \in Blocks
      BY <1>2
    <3>2. \A k \in 0 .. ElementSize - 1 : data'[d + 1 + k] = data[d + 1 + k]
      BY <1>4, <1>6, <2>1, <3>1, ElementPlaces
    <3> QED BY <3>2, ReadElement
  <2> QED BY <1>1, <1>6, <2>1 DEF Content
<1> QED BY <1>4, <1>10, <1>11, <1>12 DEF Pool!Write, Pool!InUse, Content

\* Every step keeps the invariant, and is one of the pool of blocks or leaves
\* that as it is.
LEMMA PoolStep ==
  ASSUME PoolInv, [Next]_pvars
  PROVE  PoolInv' /\ [Pool!Next]_Pool!vars
<1>1. ASSUME alloc_block
      PROVE  PoolInv' /\ Pool!Next
  BY <1>1, AllocStep DEF Pool!Next
<1>2. ASSUME NEW addr \in held, free_block(addr)
      PROVE  PoolInv' /\ Pool!Next
  BY <1>2, FreeStep DEF Pool!Next
<1>3. ASSUME NEW addr \in held, NEW e \in Element, write_block(addr, e)
      PROVE  PoolInv' /\ Pool!Next
  BY <1>3, WriteStep DEF Pool!Next
<1>4. ASSUME UNCHANGED <<data, held>>
      PROVE  PoolInv' /\ UNCHANGED Pool!vars
  <2>1. Used' = Used /\ Content' = Content
    BY <1>4 DEF Used, Content
  <2>2. PoolInv'
    BY <1>4, <2>1 DEF PoolInv
  <2> QED BY <2>1, <2>2 DEF Pool!vars
<1>5. CASE reset_nob
  BY <1>4, <1>5 DEF reset_nob
<1>6. CASE UNCHANGED pvars
  BY <1>4, <1>6 DEF pvars
<1> QED BY <1>1, <1>2, <1>3, <1>5, <1>6 DEF Next

-----------------------------------------------------------------------------
(* The constructor *)

\* The words the constructor writes.
LEMMA ConstructedWords ==
  ASSUME NEW junk \in Words
  PROVE  /\ Constructed(junk) \in [Addresses -> Words]
         /\ Constructed(junk)[FREE_BLOCK_META_ADDR] = Word(3, DataLen - BlockSize)
         /\ Constructed(junk)[USED_BLOCK_META_ADDR] = Word(0, 0)
         /\ \A b \in Blocks : Constructed(junk)[b] = Linked(3, b)
<1> DEFINE m == Constructed(junk)
           w(x) == CASE x = 0 -> Word(DataLen, Capacity)
                     [] x = FREE_BLOCK_META_ADDR -> Word(3, DataLen - BlockSize)
                     [] x = USED_BLOCK_META_ADDR -> Word(0, 0)
                     [] x \in Blocks -> Linked(3, x)
                     [] OTHER -> junk
<1>1. m = [x \in Addresses |-> w(x)]
  BY DEF Constructed
<1>2. 3 <= DataLen - BlockSize /\ Capacity <= DataLen
  <2>1. 1 * BlockSize <= Capacity * BlockSize
    BY BlockSizes, ProductMonotone
  <2>2. 1 * Capacity <= BlockSize * Capacity
    BY BlockSizes, ProductMonotone
  <2>3. BlockSize * Capacity = Capacity * BlockSize /\ 1 * BlockSize = BlockSize
        /\ 1 * Capacity = Capacity
    BY BlockSizes
  <2> QED BY <2>1, <2>2, <2>3, Layout, BlockSizes
<1>3. \A hi \in 0 .. Half - 1, lo \in 0 .. Half - 1 : Word(hi, lo) \in Words
  BY HalfOfFull DEF Word, Words
<1>4. ASSUME NEW b \in Blocks
      PROVE  Linked(3, b) \in Words
  <2>1. 3 \in Nat \ {0} /\ 3 + Capacity * BlockSize < Half
    BY Layout
  <2> QED BY <2>1, BlockPlaces, LinkedWords
<1> HIDE DEF w
<1>5. \A x \in Addresses : w(x) \in Words
  <2> TAKE x \in Addresses
  <2>1. /\ Word(DataLen, Capacity) \in Words /\ Word(0, 0) \in Words
        /\ Word(3, DataLen - BlockSize) \in Words
    BY <1>2, <1>3, Layout, BlockSizes, HalfOfFull
  <2> QED BY <1>4, <2>1 DEF w
<1>6. ListAddrs \subseteq Addresses /\ Blocks \subseteq Addresses
  BY ListPlaces, BlockPlaces
<1>7. /\ w(FREE_BLOCK_META_ADDR) = Word(3, DataLen - BlockSize)
      /\ w(USED_BLOCK_META_ADDR) = Word(0, 0)
  <2>1. /\ FREE_BLOCK_META_ADDR # 0 /\ FREE_BLOCK_META_ADDR # USED_BLOCK_META_ADDR
        /\ USED_BLOCK_META_ADDR # 0
        /\ FREE_BLOCK_META_ADDR \notin Blocks /\ USED_BLOCK_META_ADDR \notin Blocks
    BY Layout, ListPlaces DEF ListAddrs
  <2> QED BY <2>1 DEF w
<1>8. ASSUME NEW b \in Blocks
      PROVE  w(b) = Linked(3, b)
  <2>1. b # 0 /\ b # FREE_BLOCK_META_ADDR /\ b # USED_BLOCK_META_ADDR
    BY ListPlaces DEF ListAddrs
  <2> QED BY <2>1 DEF w
<1> HIDE DEF m
<1>9. \A x \in Addresses : m[x] = w(x)
  BY <1>1
<1>10. m \in [Addresses -> Words]
  BY <1>1, <1>5
<1> QED BY <1>6, <1>7, <1>8, <1>9, <1>10 DEF m, ListAddrs

\* The constructor leaves every block free.
LEMMA PoolInit ==
  ASSUME Capacity >= 2, Init
  PROVE  PoolInv /\ Pool!Init
<1> DEFINE F == FREE_BLOCK_META_ADDR
           U == USED_BLOCK_META_ADDR
           c == [k \in 1 .. Capacity |-> BlockAt(3, k)]
           ch == [l \in ListAddrs |-> IF l = F THEN c ELSE << >>]
<1>1. PICK junk \in Words : data = Constructed(junk)
  <2>1. ASSUME NEW e \in Element
        PROVE  e[0] \in Words
    BY ElementAssumption
  <2> QED BY <2>1 DEF Init
<1>2. /\ data \in [Addresses -> Words]
      /\ data[F] = Word(3, DataLen - BlockSize)
      /\ data[U] = Word(0, 0)
      /\ \A b \in Blocks : data[b] = Linked(3, b)
  BY <1>1, ConstructedWords
<1>3. /\ ListAddrs = {F, U} /\ F # U
      /\ F \in Addresses \ Blocks /\ U \in Addresses \ Blocks
      /\ Blocks \subseteq Addresses /\ Blocks \subseteq 1 .. Half - 1
  BY Layout, ListPlaces, BlockPlaces DEF ListAddrs
<1>4. /\ c \in Seq(Blocks) /\ Len(c) = Capacity
      /\ ListAt(Addresses, Blocks, data, F, c)
      /\ \A b \in Blocks : \E k \in 1 .. Capacity : c[k] = b
  <2> DEFINE first == 3
  <2>1. first \in Nat /\ Blocks = BlocksFrom(first)
    BY BlockPlaces
  <2>2. DataLen - BlockSize = first + Capacity * BlockSize - BlockSize
    BY Layout, BlockSizes
  <2>3. data[F] = Word(first, first + Capacity * BlockSize - BlockSize)
    BY <1>2, <2>2
  <2>4. \A b \in BlocksFrom(first) : data[b] = Linked(first, b)
    BY <1>2, <2>1
  <2>5. c = [k \in 1 .. Capacity |-> BlockAt(first, k)]
    OBVIOUS
  <2>6. /\ Blocks \subseteq Addresses /\ Blocks \subseteq 1 .. Half - 1
        /\ F \in Addresses \ Blocks /\ data \in [Addresses -> Words]
    BY <1>2, <1>3
  <2> HIDE DEF c, F, first
  <2> QED BY <2>1, <2>3, <2>4, <2>5, <2>6, FreshList
<1> HIDE DEF c
<1>5. ListAt(Addresses, Blocks, data, U, << >>)
  <2>1. data[U].hi = 0 /\ data[U].lo = 0
    BY <1>2 DEF Word
  <2>2. IsList(data, U, << >>)
    BY <2>1 DEF IsList, begin_addr, end_addr
  <2>3. Distinct(<< >>)
    BY DEF Distinct
  <2> QED BY <1>2, <1>3, <2>2, <2>3 DEF ListAt
<1> HIDE DEF F, U
<1>6. /\ DOMAIN ch = ListAddrs /\ ch[F] = c /\ ch[U] = << >>
      /\ ch = [l \in ListAddrs |-> ch[l]]
  BY <1>3
<1> HIDE DEF ch
<1>7. Len(<< >>) = 0 /\ 1 .. 0 = {}
  BY SMT
<1>8. Lists(Addresses, Blocks, data, ch)
  <2>1. \A l \in DOMAIN ch : ListAt(Addresses, Blocks, data, l, ch[l])
    BY <1>3, <1>4, <1>5, <1>6
  <2>2. ASSUME NEW l \in DOMAIN ch, NEW p \in DOMAIN ch, l # p,
               NEW i \in 1 .. Len(ch[l]), NEW j \in 1 .. Len(ch[p])
        PROVE  ch[l][i] # ch[p][j]
    <3>1. ch[l] = << >> \/ ch[p] = << >>
      BY <1>3, <1>6, <2>2
    <3> QED BY <1>7, <3>1
  <2> QED BY <2>1, <2>2 DEF Lists
<1>9. Linkage(data) = ch
  BY <1>6, <1>8, LinkageIs
<1>10. \A b \in Blocks : InLists(ch, b)
  BY <1>3, <1>4, <1>6 DEF InLists
<1>11. Used = << >>
  BY <1>3, <1>6, <1>9 DEF Used, Linkage, U
<1>12. held = {} /\ held = {Used[k] : k \in 1 .. Len(Used)}
  <2>1. held = {}
    BY DEF Init
  <2>2. {Used[k] : k \in 1 .. Len(Used)} = {}
    BY <1>7, <1>11
  <2> QED BY <2>1, <2>2
<1>13. PoolInv
  BY <1>8, <1>9, <1>10, <1>12 DEF PoolInv
<1>14. Content = [b \in {} |-> 0]
  BY <1>12 DEF Content
<1> QED BY <1>11, <1>13, <1>14 DEF Pool!Init

-----------------------------------------------------------------------------
(* Theorems *)

\* A block the client holds is linked into the list of used blocks, any other
\* into that of the free ones.
LEMMA InvariantPool == PoolInv => PoolOK
<1> SUFFICES ASSUME PoolInv
             PROVE  PoolOK
  OBVIOUS
<1> DEFINE F == FREE_BLOCK_META_ADDR
           U == USED_BLOCK_META_ADDR
           ch == Linkage(data)
           free == {ch[F][k] : k \in 1 .. Len(ch[F])}
<1>1. /\ Used = ch[U] /\ ch = [l \in ListAddrs |-> ch[l]]
      /\ ListAt(Addresses, Blocks, data, F, ch[F])
      /\ ListAt(Addresses, Blocks, data, U, ch[U])
      /\ F \in ListAddrs /\ U \in ListAddrs /\ F # U
      /\ held \subseteq Blocks
  BY TwoLists
<1>2. /\ Lists(Addresses, Blocks, data, ch)
      /\ \A x \in Blocks : InLists(ch, x)
      /\ held = {Used[k] : k \in 1 .. Len(Used)}
  BY DEF PoolInv
<1>3. \A x : x \in held <=> \E k \in 1 .. Len(ch[U]) : x = ch[U][k]
  BY <1>1, TwoLists
<1>4. ListAddrs = {F, U} /\ DOMAIN ch = ListAddrs
  BY DEF ListAddrs, Linkage
<1> HIDE DEF ch, F, U
<1>5. held = {ch[U][k] : k \in 1 .. Len(ch[U])}
  BY <1>1, <1>2
<1>6. ASSUME NEW x \in Blocks \ held
      PROVE  \E k \in 1 .. Len(ch[F]) : ch[F][k] = x
  <2>1. PICK l \in ListAddrs : \E k \in 1 .. Len(ch[l]) : ch[l][k] = x
    BY <1>2, <1>4 DEF InLists
  <2> QED BY <1>3, <1>4, <2>1
<1>7. \A k \in 1 .. Len(ch[F]) : ch[F][k] \in Blocks \ held
  <2>1. \A i \in 1 .. Len(ch[F]), j \in 1 .. Len(ch[U]) : ch[F][i] # ch[U][j]
    BY <1>1, <1>2, <1>4 DEF Lists
  <2>2. \A k \in 1 .. Len(ch[F]) : ch[F][k] \in Blocks
    BY <1>1, Ends
  <2> QED BY <1>3, <2>1, <2>2
<1>8. free = Blocks \ held
  BY <1>6, <1>7
<1>9. /\ ListOf(data, F, free)
      /\ ListOf(data, U, held)
  BY <1>1, <1>5, ListOfBlocks
<1> HIDE DEF free
<1>10. data \in [Addresses -> Words]
  BY <1>1 DEF ListAt
<1> QED BY <1>1, <1>8, <1>9, <1>10 DEF PoolOK, F, U

\* The invariant holds in every state, when the constructor links at least two
\* blocks.
LEMMA PoolInvariance ==
  ASSUME Capacity >= 2
  PROVE  Spec => []PoolInv
<1>1. Init => PoolInv
  BY PoolInit
<1>2. PoolInv /\ [Next]_pvars => PoolInv'
  BY PoolStep
<1> QED BY <1>1, <1>2, PTL DEF Spec

\* alloc_block and free_block keep every block linked, to and fro, into the
\* list of the used ones if the client holds it and into that of the free ones
\* if not, for every size of element and every capacity of at least two blocks,
\* though free_block writes over the word of the pool's own sizes.
THEOREM PoolHolds ==
  ASSUME Capacity >= 2
  PROVE  Spec => []PoolOK
<1>1. PoolInv => PoolOK
  BY InvariantPool
<1>2. Spec => []PoolInv
  BY PoolInvariance
<1> QED BY <1>1, <1>2, PTL

\* The two lists are a pool of blocks: no block is handed out twice, begin_address
\* and next_address walk the allocated ones in the order of their allocation,
\* wherever free_block has taken one out, and each keeps its element.
THEOREM PoolIsBlockPool ==
  ASSUME Capacity >= 2
  PROVE  Spec => ImplementsBlockPool
<1>1. Init => Pool!Init
  BY PoolInit
<1>2. PoolInv /\ [Next]_pvars => [Pool!Next]_Pool!vars
  BY PoolStep
<1>3. Spec => []PoolInv
  BY PoolInvariance
<1> QED BY <1>1, <1>2, <1>3, PTL DEF Spec, ImplementsBlockPool, Pool!Spec

=============================================================================
