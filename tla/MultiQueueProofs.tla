-------------------------- MODULE MultiQueueProofs --------------------------
(***************************************************************************)
(* The lists of MultiQueue implement its double-ended queues for every     *)
(* number of queues, every size of element and every capacity of at least  *)
(* two blocks.                                                             *)
(***************************************************************************)
EXTENDS MultiQueue, LinkedBlocksProofs

-----------------------------------------------------------------------------
(* The layout of the array *)

\* The words of metadata of the queues and of the list of free blocks.
ListAddrs == {List(q) : q \in QueueIds \cup {FreeList}}

\* The metadata come before the blocks, and the blocks end with the array.
LEMMA Layout ==
  /\ NumQueues \in Nat \ {0}
  /\ DataLen \in Nat
  /\ DataLen = 3 + NumQueues + Capacity * BlockSize
  /\ Capacity * BlockSize \in Nat
  /\ DataLen < Half
<1>1. NumQueues \in Nat \ {0} /\ DataLen \in 1 .. Half - 1
  BY QueuesAssumption
<1>2. DataLen \in Nat /\ DataLen < Half
  BY <1>1, HalfOfFull
<1>3. Capacity * BlockSize \in Nat
  BY BlockSizes, ProductNat
<1> QED BY <1>1, <1>2, <1>3 DEF DataLen

\* The lists have words of their own, below the blocks.
LEMMA ListPlaces ==
  /\ \A l \in ListAddrs : l \in 2 .. 2 + NumQueues /\ l \in Addresses \ Blocks
  /\ \A q \in QueueIds : List(q) \in ListAddrs /\ List(q) # List(FreeList)
  /\ List(FreeList) \in ListAddrs
  /\ \A q, p \in QueueIds \cup {FreeList} : List(q) = List(p) => q = p
<1>1. \A q \in QueueIds \cup {FreeList} : q \in -1 .. NumQueues - 1
  BY Layout DEF QueueIds, FreeList
<1>2. \A l \in ListAddrs : l \in 2 .. 2 + NumQueues
  BY <1>1, Layout DEF ListAddrs, List
<1>3. \A b \in Blocks : b > 2 + NumQueues
  <2> TAKE b \in Blocks
  <2>1. 3 + NumQueues \in Nat
    BY Layout
  <2>2. b \in Nat /\ 3 + NumQueues <= b
    BY <2>1, BlockInside DEF Blocks
  <2> QED BY <2>2, Layout
<1>4. \A l \in ListAddrs : l \in Addresses \ Blocks
  BY <1>2, <1>3, Layout DEF Addresses
<1>5. \A q \in QueueIds : List(q) # List(FreeList)
  BY Layout DEF QueueIds, List, FreeList
<1>6. \A q, p \in QueueIds \cup {FreeList} : List(q) = List(p) => q = p
  BY <1>1 DEF List
<1> QED BY <1>2, <1>4, <1>5, <1>6 DEF ListAddrs

\* The blocks lie in the array, and their addresses fit the fields.
LEMMA BlockPlaces ==
  /\ 3 + NumQueues \in Nat
  /\ Blocks = BlocksFrom(3 + NumQueues)
  /\ Blocks \subseteq Addresses
  /\ Blocks \subseteq 1 .. Half - 1
  /\ 0 \notin Blocks
<1>1. 3 + NumQueues \in Nat
  BY Layout
<1>2. ASSUME NEW b \in Blocks
      PROVE  b \in Nat /\ 3 + NumQueues <= b /\ b < DataLen
  <2>1. /\ b \in Nat /\ 3 + NumQueues <= b
        /\ b + BlockSize <= 3 + NumQueues + Capacity * BlockSize
    BY <1>1, BlockInside DEF Blocks
  <2> QED BY <2>1, BlockSizes, Layout
<1>3. \A b \in Blocks : b \in Addresses /\ b \in 1 .. Half - 1 /\ b # 0
  BY <1>2, Layout, HalfOfFull DEF Addresses
<1>4. Blocks = BlocksFrom(3 + NumQueues)
  BY DEF Blocks
<1> QED BY <1>1, <1>3, <1>4

\* The ints of the elements are in the array, are no links, and belong to one
\* block.
LEMMA ElementPlaces ==
  ASSUME NEW b \in Blocks, NEW k \in 0 .. ElementSize - 1
  PROVE  /\ b + 1 + k \in Addresses
         /\ b + 1 + k \notin Blocks /\ b + 1 + k \notin ListAddrs
         /\ \A d \in Blocks : d # b =>
              b + 1 + k \notin d + 1 .. d + 1 + ElementSize - 1
<1>1. /\ b + 1 + k \in 3 + NumQueues .. 3 + NumQueues + Capacity * BlockSize - 1
      /\ b + 1 + k \notin Blocks
      /\ \A d \in Blocks : d # b =>
           b + 1 + k \notin d + 1 .. d + 1 + ElementSize - 1
  BY BlockPlaces, ElementApart
<1>2. b + 1 + k \notin ListAddrs
  BY <1>1, ListPlaces, Layout
<1> QED BY <1>1, <1>2, Layout DEF Addresses

-----------------------------------------------------------------------------
(* The invariant *)

\* The blocks of each list, as next addresses reach them.
Linkage(m) == [l \in ListAddrs |-> Chain(m, l)]

\* What every operation keeps, and what the properties follow from: the
\* enumerated blocks are linked, in order, into lists that share none and
\* leave none out, and what is not free has been pushed and not popped.
QueueInv ==
  /\ Lists(Addresses, Blocks, data, Linkage(data))
  /\ \A b \in Blocks : InLists(Linkage(data), b)
  /\ data[0] = Word(0, DataLen)
  /\ nob_len = DataLen
  /\ count \in Nat
  /\ count + Len(Linkage(data)[List(FreeList)]) = Capacity

\* When sequences of blocks are linked into the lists, they are what next
\* addresses reach.
LEMMA LinkageIs ==
  ASSUME NEW m, NEW ch, Lists(Addresses, Blocks, m, ch),
         ch = [l \in ListAddrs |-> ch[l]]
  PROVE  Linkage(m) = ch
<1>1. \A l \in ListAddrs : Chain(m, l) = ch[l]
  <2>1. 3 + NumQueues \in Nat \ {0}
    BY Layout
  <2>2. DOMAIN ch = ListAddrs
    OBVIOUS
  <2> QED BY <2>1, <2>2, BlockPlaces, ChainsOfLists
<1> QED BY <1>1 DEF Linkage

\* Relinking a list writes no element and no sizes.
LEMMA LinksOnly ==
  ASSUME NEW m, NEW n, NEW l \in ListAddrs, NEW c \in Seq(Blocks),
         OnlyList(Addresses, m, n, l, c)
  PROVE  /\ n[0] = m[0]
         /\ \A d \in Blocks : read_element(n, d + 1) = read_element(m, d + 1)
<1>1. \A k \in 1 .. Len(c) : c[k] \in Blocks
  OBVIOUS
<1>2. \A x \in Addresses : x \notin Blocks /\ x \notin ListAddrs => n[x] = m[x]
  BY <1>1 DEF OnlyList
<1>3. 0 \in Addresses /\ 0 \notin Blocks /\ 0 \notin ListAddrs
  BY BlockPlaces, ListPlaces, Layout DEF Addresses
<1>4. ASSUME NEW d \in Blocks
      PROVE  read_element(n, d + 1) = read_element(m, d + 1)
  <2>1. \A k \in 0 .. ElementSize - 1 : n[d + 1 + k] = m[d + 1 + k]
    BY <1>2, ElementPlaces
  <2> QED BY <2>1, ReadElement
<1> QED BY <1>2, <1>3, <1>4

-----------------------------------------------------------------------------
(* The operations on the lists *)

\* What the free list gives: a block of no list, filled with the element.
Taken == [Linkage(data) EXCEPT ![List(FreeList)] = Removal(@, 1)]

\* Taking a block off the free list and filling it leaves the others alone.
LEMMA FilledBlock ==
  ASSUME QueueInv, ~ full(data), NEW e \in Element,
         NEW b, b = begin_addr(data, List(FreeList))
  PROVE  /\ b \in Blocks
         /\ Len(Linkage(data)[List(FreeList)]) \in Nat \ {0}
         /\ Lists(Addresses, Blocks, Filled(e), Taken)
         /\ \A d : InLists(Taken, d) <=> InLists(Linkage(data), d) /\ d # b
         /\ read_element(Filled(e), b + 1) = e
         /\ \A d \in Blocks : d # b =>
              read_element(Filled(e), d + 1) = read_element(data, d + 1)
         /\ Filled(e)[0] = data[0]
<1> DEFINE F == List(FreeList)
           ch == Linkage(data)
           c == ch[F]
           m == TakeFirst(data, F)
           n == Filled(e)
<1>1. F \in ListAddrs /\ F \in DOMAIN ch
  BY ListPlaces DEF Linkage
<1>2. Lists(Addresses, Blocks, data, ch) /\ DOMAIN ch = ListAddrs
  BY DEF QueueInv, Linkage
<1> HIDE DEF ch
<1>3. ListAt(Addresses, Blocks, data, F, c)
  BY <1>1, <1>2 DEF Lists
<1>4. b # 0
  BY DEF full, empty
<1>5. c # << >> /\ b = c[1] /\ Len(c) \in Nat \ {0}
  <2>1. Len(c) \in Nat /\ b = IF Len(c) = 0 THEN 0 ELSE c[1]
    BY <1>3, Ends
  <2> QED BY <1>3, <1>4, <2>1, Ends
<1>6. c \in Seq(Blocks) /\ 1 \in 1 .. Len(c)
  BY <1>3, <1>5 DEF ListAt
<1>7. b \in Blocks
  BY <1>5, <1>6
<1>8. ListAt(Addresses, Blocks, m, F, Removal(c, 1))
      /\ OnlyList(Addresses, data, m, F, c)
  BY <1>3, <1>5, TakeFirstTakes
<1>9. Taken = [ch EXCEPT ![F] = Removal(c, 1)]
  BY DEF Taken, ch
<1>10. /\ Lists(Addresses, Blocks, m, Taken)
       /\ \A d : InLists(Taken, d) <=> InLists(ch, d) /\ d # b
  BY <1>1, <1>2, <1>5, <1>6, <1>8, <1>9, ListsTake
<1>11. m[0] = data[0]
       /\ \A d \in Blocks : read_element(m, d + 1) = read_element(data, d + 1)
  BY <1>1, <1>6, <1>8, LinksOnly
<1>12. n = write_element(m, b + 1, e)
  BY DEF Filled
<1>13. m \in [Addresses -> Words]
  BY <1>8 DEF ListAt
<1> HIDE DEF m, n, c, F
<1>14. b + 1 \in Nat /\ \A x \in b + 1 .. b + 1 + ElementSize - 1 :
                          \E k \in 0 .. ElementSize - 1 : x = b + 1 + k
  <2>1. b \in Nat
    BY <1>7, BlockPlaces, BlockInside
  <2>2. ASSUME NEW x \in b + 1 .. b + 1 + ElementSize - 1
        PROVE  \E k \in 0 .. ElementSize - 1 : x = b + 1 + k
    <3>1. x - (b + 1) \in 0 .. ElementSize - 1 /\ x = b + 1 + (x - (b + 1))
      BY <2>1, BlockSizes
    <3> QED BY <3>1
  <2> QED BY <2>1, <2>2
<1>15. b + 1 .. b + 1 + ElementSize - 1 \subseteq Addresses
  BY <1>7, <1>14, ElementPlaces
<1>16. /\ n \in [Addresses -> Words]
       /\ read_element(n, b + 1) = e
       /\ \A y \in Addresses :
            y \notin b + 1 .. b + 1 + ElementSize - 1 => n[y] = m[y]
  BY <1>12, <1>13, <1>14, <1>15, WriteElement
<1>17. ASSUME NEW x \in Blocks \cup ListAddrs \cup {0}
       PROVE  x \in Addresses /\ x \notin b + 1 .. b + 1 + ElementSize - 1
  <2>1. \A k \in 0 .. ElementSize - 1 :
          b + 1 + k \notin Blocks /\ b + 1 + k \notin ListAddrs
    BY <1>7, ElementPlaces
  <2>2. x \in Addresses
    BY BlockPlaces, ListPlaces, Layout DEF Addresses
  <2>3. 0 \notin b + 1 .. b + 1 + ElementSize - 1
    <3>1. b \in Nat
      BY <1>7, BlockPlaces, BlockInside
    <3> QED BY <3>1
  <2> QED BY <1>14, <2>1, <2>2, <2>3
<1>18. Lists(Addresses, Blocks, n, Taken)
  <2>1. DOMAIN Taken = ListAddrs
    BY <1>2, <1>9
  <2> QED BY <1>10, <1>16, <1>17, <2>1, ListsKeep
<1>19. ASSUME NEW d \in Blocks, d # b
       PROVE  read_element(n, d + 1) = read_element(data, d + 1)
  <2>1. ASSUME NEW k \in 0 .. ElementSize - 1
        PROVE  n[d + 1 + k] = m[d + 1 + k]
    <3>1. d + 1 + k \in Addresses
          /\ d + 1 + k \notin b + 1 .. b + 1 + ElementSize - 1
      BY <1>7, <1>19, ElementPlaces
    <3> QED BY <1>16, <3>1
  <2>2. read_element(n, d + 1) = read_element(m, d + 1)
    BY <2>1, ReadElement
  <2> QED BY <1>11, <2>2
<1>20. n[0] = data[0]
  BY <1>11, <1>16, <1>17
<1> QED BY <1>5, <1>7, <1>10, <1>16, <1>18, <1>19, <1>20 DEF F, c, ch, n

\* The elements of each queue.
ContentsIn(m) ==
  [q \in QueueIds |->
     [k \in 1 .. Len(Linkage(m)[List(q)]) |->
        read_element(m, Linkage(m)[List(q)][k] + 1)]]

\* The contents of the queues in terms of the linkage.
LEMMA ContentsAre == Contents = ContentsIn(data)
<1>1. \A q \in QueueIds : Linkage(data)[List(q)] = Chain(data, List(q))
  BY ListPlaces DEF Linkage
<1> QED BY <1>1 DEF Contents, ContentsIn, ElementAt

\* A block filled with the element e and linked into a queue as its i-th makes
\* e the i-th element of that queue and changes no other element.
LEMMA Pushed ==
  ASSUME QueueInv, ~ full(data), NEW q \in QueueIds, NEW e \in Element,
         NEW b, b = begin_addr(data, List(FreeList)),
         NEW c, c = Linkage(data)[List(q)], NEW i \in 1 .. Len(c) + 1,
         ListAt(Addresses, Blocks, data', List(q), Insertion(c, i, b)),
         OnlyList(Addresses, Filled(e), data', List(q), Insertion(c, i, b)),
         count' = count + 1, nob_len' = nob_len
  PROVE  /\ QueueInv'
         /\ count < Capacity
         /\ Contents' = [Contents EXCEPT ![q] = Insertion(Contents[q], i, e)]
<1> DEFINE F == List(FreeList)
           l == List(q)
           ch == Linkage(data)
           d == Insertion(c, i, b)
           new == [Taken EXCEPT ![l] = d]
<1>1. l \in ListAddrs /\ F \in ListAddrs /\ l # F
  BY ListPlaces
<1>2. /\ Lists(Addresses, Blocks, data, ch) /\ DOMAIN ch = ListAddrs
      /\ ch = [x \in ListAddrs |-> ch[x]]
  BY DEF QueueInv, Linkage
<1>3. Taken = [ch EXCEPT ![F] = Removal(ch[F], 1)]
  BY DEF Taken
<1>4. /\ Taken[l] = c /\ Taken[F] = Removal(ch[F], 1)
      /\ \A x \in ListAddrs : x # F => Taken[x] = ch[x]
      /\ DOMAIN Taken = ListAddrs /\ Taken = [x \in ListAddrs |-> Taken[x]]
  <2> HIDE DEF ch, F, l
  <2> QED BY <1>1, <1>2, <1>3 DEF ch, l
<1>5. /\ b \in Blocks
      /\ Len(ch[F]) \in Nat \ {0}
      /\ Lists(Addresses, Blocks, Filled(e), Taken)
      /\ \A x : InLists(Taken, x) <=> InLists(ch, x) /\ x # b
      /\ read_element(Filled(e), b + 1) = e
      /\ \A x \in Blocks : x # b =>
           read_element(Filled(e), x + 1) = read_element(data, x + 1)
      /\ Filled(e)[0] = data[0]
  BY FilledBlock
<1> HIDE DEF F, l, ch
<1>6. ~ InLists(Taken, b)
  BY <1>5
<1>7. c \in Seq(Blocks) /\ \A k \in 1 .. Len(c) : c[k] # b
  <2>1. ListAt(Addresses, Blocks, Filled(e), l, Taken[l])
    BY <1>1, <1>4, <1>5 DEF Lists
  <2>2. c \in Seq(Blocks)
    BY <1>4, <2>1 DEF ListAt
  <2>3. \A k \in 1 .. Len(c) : c[k] # b
    BY <1>1, <1>4, <1>6 DEF InLists
  <2> QED BY <2>2, <2>3
<1>8. /\ d \in Seq(Blocks) /\ Len(d) = Len(c) + 1
      /\ \A j \in 1 .. Len(c) + 1 :
           d[j] = IF j < i THEN c[j] ELSE IF j = i THEN b ELSE c[j - 1]
  BY <1>5, <1>7, InsertionFacts
<1>9. ListAt(Addresses, Blocks, data', l, d)
      /\ OnlyList(Addresses, Filled(e), data', l, d)
  BY DEF l
<1>10. /\ Lists(Addresses, Blocks, data', new)
       /\ \A x : InLists(new, x) <=> InLists(Taken, x) \/ x = b
  BY <1>1, <1>4, <1>5, <1>6, <1>9, ListsPut
<1> HIDE DEF d
<1>11. /\ new[l] = d /\ new[F] = Removal(ch[F], 1)
       /\ \A x \in ListAddrs : x # F /\ x # l => new[x] = ch[x]
       /\ new = [x \in ListAddrs |-> new[x]]
  BY <1>1, <1>4
<1> HIDE DEF new
<1>12. Linkage(data') = new
  BY <1>10, <1>11, LinkageIs
<1>13. /\ data'[0] = Filled(e)[0]
       /\ \A x \in Blocks :
            read_element(data', x + 1) = read_element(Filled(e), x + 1)
  BY <1>1, <1>8, <1>9, LinksOnly
<1>14. Len(new[F]) = Len(ch[F]) - 1
  <2>1. ListAt(Addresses, Blocks, data, F, ch[F])
    BY <1>1, <1>2 DEF Lists
  <2>2. ch[F] \in Seq(Blocks) /\ 1 \in 1 .. Len(ch[F])
    BY <1>5, <2>1 DEF ListAt
  <2> QED BY <1>11, <2>2, RemovalFacts
<1>15. /\ \A x \in Blocks : InLists(ch, x)
       /\ data[0] = Word(0, DataLen) /\ nob_len = DataLen
       /\ count \in Nat /\ count + Len(ch[F]) = Capacity
  BY DEF QueueInv, ch, F
<1>16. QueueInv'
  <2>1. \A x \in Blocks : InLists(new, x)
    BY <1>5, <1>10, <1>15
  <2>2. count' \in Nat /\ count' + Len(new[F]) = Capacity
    <3> DEFINE len == Len(ch[F])
    <3>1. len \in Nat /\ count \in Nat /\ count + len = Capacity
      BY <1>5, <1>15
    <3>2. Len(new[F]) = len - 1 /\ count' = count + 1
      BY <1>14
    <3> HIDE DEF len
    <3> QED BY <3>1, <3>2
  <2>3. data'[0] = Word(0, DataLen) /\ nob_len' = DataLen
    BY <1>5, <1>13, <1>15
  <2> QED BY <1>10, <1>12, <2>1, <2>2, <2>3 DEF QueueInv, F
<1>17. count < Capacity
  BY <1>5, <1>15, BlockSizes
<1>18. ASSUME NEW p \in QueueIds
       PROVE  ContentsIn(data')[p] = [Contents EXCEPT ![q] = Insertion(Contents[q], i, e)][p]
  <2>1. ContentsIn(data')[p] = [k \in 1 .. Len(new[List(p)]) |->
                                  read_element(data', new[List(p)][k] + 1)]
    BY <1>12 DEF ContentsIn
  <2>2. Contents[p] = [k \in 1 .. Len(ch[List(p)]) |->
                         read_element(data, ch[List(p)][k] + 1)]
    BY ContentsAre DEF ContentsIn, ch
  <2>3. CASE p = q
    <3>1. c = ch[List(p)] /\ new[List(p)] = d
      BY <1>11, <2>3 DEF ch, l
    <3>2. Len(Contents[q]) = Len(c) /\ Len(c) \in Nat
          /\ \A k \in 1 .. Len(c) : Contents[q][k] = read_element(data, c[k] + 1)
      BY <1>7, <2>2, <2>3, <3>1
    <3>3. ASSUME NEW k \in 1 .. Len(c) + 1
          PROVE  read_element(data', d[k] + 1)
                   = IF k < i THEN Contents[q][k]
                     ELSE IF k = i THEN e ELSE Contents[q][k - 1]
      <4>1. \A j \in 1 .. Len(c) :
              read_element(data', c[j] + 1) = read_element(data, c[j] + 1)
        <5>1. \A j \in 1 .. Len(c) : c[j] \in Blocks /\ c[j] # b
          BY <1>7
        <5> QED BY <1>5, <1>13, <5>1
      <4>2. CASE k < i
        <5>1. k \in 1 .. Len(c) /\ d[k] = c[k]
          BY <1>8, <3>2, <4>2
        <5> QED BY <3>2, <4>1, <4>2, <5>1
      <4>3. CASE k = i
        <5>1. d[k] = b
          BY <1>8, <4>3
        <5> QED BY <1>5, <1>13, <4>3, <5>1
      <4>4. CASE k > i
        <5>1. k - 1 \in 1 .. Len(c) /\ d[k] = c[k - 1]
          BY <1>8, <3>2, <4>4
        <5> QED BY <3>2, <4>1, <4>4, <5>1
      <4> QED BY <3>2, <4>2, <4>3, <4>4
    <3>4. ContentsIn(data')[p]
            = [k \in 1 .. Len(c) + 1 |-> read_element(data', d[k] + 1)]
      BY <1>8, <2>1, <3>1
    <3>5. Insertion(Contents[q], i, e)
            = [k \in 1 .. Len(c) + 1 |->
                 IF k < i THEN Contents[q][k]
                 ELSE IF k = i THEN e ELSE Contents[q][k - 1]]
      BY <3>2 DEF Insertion
    <3>6. ContentsIn(data')[p] = Insertion(Contents[q], i, e)
      BY <3>3, <3>4, <3>5
    <3> QED BY <2>3, <3>6, ContentsAre DEF ContentsIn
  <2>4. CASE p # q
    <3>1. List(p) \in ListAddrs /\ List(p) # F /\ List(p) # l
      BY <2>4, ListPlaces DEF F, l
    <3>2. new[List(p)] = ch[List(p)]
      BY <1>11, <3>1
    <3>3. ASSUME NEW k \in 1 .. Len(ch[List(p)])
          PROVE  read_element(data', ch[List(p)][k] + 1)
                   = read_element(data, ch[List(p)][k] + 1)
      <4>1. ListAt(Addresses, Blocks, data, List(p), ch[List(p)])
        BY <1>2, <3>1 DEF Lists
      <4>2. ch[List(p)][k] \in Blocks
        BY <4>1, Ends
      <4>3. ch[List(p)][k] # b
        <5>1. ~ \E j \in 1 .. Len(Taken[List(p)]) : Taken[List(p)][j] = b
          BY <1>4, <1>6, <3>1 DEF InLists
        <5> QED BY <1>4, <3>1, <5>1
      <4> QED BY <1>5, <1>13, <4>2, <4>3
    <3>4. ContentsIn(data')[p] = Contents[p]
      BY <2>1, <2>2, <3>2, <3>3
    <3> QED BY <2>4, <3>4, ContentsAre DEF ContentsIn
  <2> QED BY <2>3, <2>4
<1>19. Contents' = [Contents EXCEPT ![q] = Insertion(Contents[q], i, e)]
  <2>1. Contents' = ContentsIn(data')
    BY ListPlaces DEF Contents, ContentsIn, ElementAt, Linkage
  <2>2. DOMAIN Contents = QueueIds /\ ContentsIn(data') = [p \in QueueIds |-> ContentsIn(data')[p]]
    BY DEF Contents, ContentsIn
  <2> QED BY <1>18, <2>1, <2>2
<1> QED BY <1>16, <1>17, <1>19

\* The i-th block of a queue put to the free ones takes the i-th element off
\* that queue and changes no other element.
LEMMA Popped ==
  ASSUME QueueInv, NEW q \in QueueIds,
         NEW c, c = Linkage(data)[List(q)], NEW i \in 1 .. Len(c), NEW n,
         ListAt(Addresses, Blocks, n, List(q), Removal(c, i)),
         OnlyList(Addresses, data, n, List(q), c),
         data' = PutFirst(n, List(FreeList), c[i]),
         count' = count - 1, nob_len' = nob_len
  PROVE  /\ QueueInv'
         /\ Contents' = [Contents EXCEPT ![q] = Removal(Contents[q], i)]
<1> DEFINE F == List(FreeList)
           l == List(q)
           ch == Linkage(data)
           b == c[i]
           d == Removal(c, i)
           f == Insertion(ch[F], 1, b)
           left == [ch EXCEPT ![l] = d]
           new == [left EXCEPT ![F] = f]
<1>1. l \in ListAddrs /\ F \in ListAddrs /\ l # F
  BY ListPlaces
<1>2. /\ Lists(Addresses, Blocks, data, ch) /\ DOMAIN ch = ListAddrs
      /\ ch = [x \in ListAddrs |-> ch[x]] /\ ch[l] = c
  BY DEF QueueInv, Linkage
<1> HIDE DEF F, l, ch
<1>3. ListAt(Addresses, Blocks, data, l, c)
  BY <1>1, <1>2 DEF Lists
<1>4. c \in Seq(Blocks) /\ b \in Blocks /\ Len(c) \in Nat
  <2>1. c \in Seq(Blocks)
    BY <1>3 DEF ListAt
  <2> QED BY <2>1
<1>5. /\ Len(d) = Len(c) - 1
      /\ \A j \in 1 .. Len(c) - 1 : d[j] = IF j < i THEN c[j] ELSE c[j + 1]
      /\ d \in Seq(Blocks)
  BY <1>4, RemovalFacts
<1>6. ListAt(Addresses, Blocks, n, l, d) /\ OnlyList(Addresses, data, n, l, c)
  BY DEF l
<1>7. /\ Lists(Addresses, Blocks, n, left)
      /\ \A x : InLists(left, x) <=> InLists(ch, x) /\ x # b
  BY <1>1, <1>2, <1>6, ListsTake
<1> HIDE DEF d
<1>8. /\ DOMAIN left = ListAddrs /\ left[l] = d /\ left[F] = ch[F]
      /\ \A x \in ListAddrs : x # F /\ x # l => left[x] = ch[x]
      /\ left = [x \in ListAddrs |-> left[x]]
  BY <1>1, <1>2
<1> HIDE DEF left
<1>9. ListAt(Addresses, Blocks, n, F, ch[F])
  BY <1>1, <1>7, <1>8 DEF Lists
<1>10. ch[F] \in Seq(Blocks) /\ \A k \in 1 .. Len(ch[F]) : ch[F][k] # b
  <2>1. ~ InLists(left, b)
    BY <1>7
  <2>2. \A k \in 1 .. Len(ch[F]) : ch[F][k] # b
    BY <1>1, <1>8, <2>1 DEF InLists
  <2> QED BY <1>9, <2>2 DEF ListAt
<1>11. /\ ListAt(Addresses, Blocks, data', F, f)
       /\ OnlyList(Addresses, n, data', F, f)
  <2>1. data' = PutFirst(n, F, b)
    BY DEF F
  <2> HIDE DEF b
  <2> QED BY <1>4, <1>9, <1>10, <2>1, PutFirstPuts
<1>12. f \in Seq(Blocks) /\ Len(f) = Len(ch[F]) + 1
  <2>1. 1 \in 1 .. Len(ch[F]) + 1
    BY <1>10
  <2> HIDE DEF b
  <2> QED BY <1>4, <1>10, <2>1, InsertionFacts
<1>13. /\ Lists(Addresses, Blocks, data', new)
       /\ \A x : InLists(new, x) <=> InLists(left, x) \/ x = b
  <2>1. 1 \in 1 .. Len(left[F]) + 1
    BY <1>8, <1>10
  <2>2. ~ InLists(left, b)
    BY <1>7
  <2>3. f = Insertion(left[F], 1, b)
    BY <1>8
  <2> HIDE DEF b, f
  <2>4. /\ ListAt(Addresses, Blocks, data', F, Insertion(left[F], 1, b))
        /\ OnlyList(Addresses, n, data', F, Insertion(left[F], 1, b))
    BY <1>11, <2>3
  <2>5. F \in DOMAIN left /\ b \in Blocks /\ Lists(Addresses, Blocks, n, left)
    BY <1>1, <1>4, <1>7, <1>8
  <2>6. /\ Lists(Addresses, Blocks, data',
                 [left EXCEPT ![F] = Insertion(left[F], 1, b)])
        /\ \A x : InLists([left EXCEPT ![F] = Insertion(left[F], 1, b)], x)
                  <=> InLists(left, x) \/ x = b
    BY ONLY <2>1, <2>2, <2>4, <2>5, ListsPut
  <2> QED BY <2>3, <2>6
<1> HIDE DEF f
<1>14. /\ new[l] = d /\ new[F] = f
       /\ \A x \in ListAddrs : x # F /\ x # l => new[x] = ch[x]
       /\ new = [x \in ListAddrs |-> new[x]]
  BY <1>1, <1>8
<1> HIDE DEF new
<1>15. Linkage(data') = new
  BY <1>13, <1>14, LinkageIs
<1>16. /\ data'[0] = data[0]
       /\ \A x \in Blocks :
            read_element(data', x + 1) = read_element(data, x + 1)
  <2>1. /\ n[0] = data[0]
        /\ \A x \in Blocks : read_element(n, x + 1) = read_element(data, x + 1)
    BY <1>1, <1>4, <1>6, LinksOnly
  <2>2. /\ data'[0] = n[0]
        /\ \A x \in Blocks : read_element(data', x + 1) = read_element(n, x + 1)
    BY <1>1, <1>11, <1>12, LinksOnly
  <2> QED BY <2>1, <2>2
<1>17. /\ \A x \in Blocks : InLists(ch, x)
       /\ data[0] = Word(0, DataLen) /\ nob_len = DataLen
       /\ count \in Nat /\ count + Len(ch[F]) = Capacity
  BY DEF QueueInv, ch, F
<1>18. QueueInv'
  <2>1. \A x \in Blocks : InLists(new, x)
    BY <1>7, <1>13, <1>17
  <2>2. count' \in Nat /\ count' + Len(new[F]) = Capacity
    <3> DEFINE len == Len(ch[F])
    <3>1. len \in Nat /\ count \in Nat /\ count + len = Capacity
      BY <1>10, <1>17
    <3>2. Len(f) = len + 1 /\ new[F] = f /\ count' = count - 1
      BY <1>12, <1>14
    <3>3. Len(f) <= Capacity
      <4>1. Distinct(f)
        BY <1>11 DEF ListAt
      <4> QED BY <1>12, <4>1, BlockPlaces, ListLength
    <3>4. len + 1 <= Capacity
      BY <3>2, <3>3
    <3> HIDE DEF len
    <3> QED BY <3>1, <3>2, <3>4, BlockSizes
  <2>3. data'[0] = Word(0, DataLen) /\ nob_len' = DataLen
    BY <1>16, <1>17
  <2> QED BY <1>13, <1>15, <2>1, <2>2, <2>3 DEF QueueInv, F
<1>19. ASSUME NEW p \in QueueIds
       PROVE  ContentsIn(data')[p] = [Contents EXCEPT ![q] = Removal(Contents[q], i)][p]
  <2>1. ContentsIn(data')[p] = [k \in 1 .. Len(new[List(p)]) |->
                                  read_element(data', new[List(p)][k] + 1)]
    BY <1>15 DEF ContentsIn
  <2>2. Contents[p] = [k \in 1 .. Len(ch[List(p)]) |->
                         read_element(data, ch[List(p)][k] + 1)]
    BY ContentsAre DEF ContentsIn, ch
  <2>3. CASE p = q
    <3>1. c = ch[List(p)] /\ new[List(p)] = d
      BY <1>2, <1>14, <2>3 DEF l
    <3>2. Len(Contents[q]) = Len(c)
          /\ \A k \in 1 .. Len(c) : Contents[q][k] = read_element(data, c[k] + 1)
      BY <1>4, <2>2, <2>3, <3>1
    <3>3. ASSUME NEW k \in 1 .. Len(c) - 1
          PROVE  read_element(data', d[k] + 1)
                   = IF k < i THEN Contents[q][k] ELSE Contents[q][k + 1]
      <4>1. \A j \in 1 .. Len(c) :
              read_element(data', c[j] + 1) = read_element(data, c[j] + 1)
        <5>1. \A j \in 1 .. Len(c) : c[j] \in Blocks
          BY <1>4
        <5> QED BY <1>16, <5>1
      <4>2. k \in 1 .. Len(c) /\ k + 1 \in 1 .. Len(c)
        BY <1>4
      <4> QED BY <1>5, <3>2, <4>1, <4>2
    <3>4. ContentsIn(data')[p]
            = [k \in 1 .. Len(c) - 1 |-> read_element(data', d[k] + 1)]
      BY <1>5, <2>1, <3>1
    <3>5. Removal(Contents[q], i)
            = [k \in 1 .. Len(c) - 1 |->
                 IF k < i THEN Contents[q][k] ELSE Contents[q][k + 1]]
      BY <3>2 DEF Removal
    <3>6. ContentsIn(data')[p] = Removal(Contents[q], i)
      BY <3>3, <3>4, <3>5
    <3> QED BY <2>3, <3>6, ContentsAre DEF ContentsIn
  <2>4. CASE p # q
    <3>1. List(p) \in ListAddrs /\ List(p) # F /\ List(p) # l
      BY <2>4, ListPlaces DEF F, l
    <3>2. new[List(p)] = ch[List(p)]
      BY <1>14, <3>1
    <3>3. ASSUME NEW k \in 1 .. Len(ch[List(p)])
          PROVE  read_element(data', ch[List(p)][k] + 1)
                   = read_element(data, ch[List(p)][k] + 1)
      <4>1. ListAt(Addresses, Blocks, data, List(p), ch[List(p)])
        BY <1>2, <3>1 DEF Lists
      <4>2. ch[List(p)][k] \in Blocks
        BY <4>1, Ends
      <4> QED BY <1>16, <4>2
    <3>4. ContentsIn(data')[p] = Contents[p]
      BY <2>1, <2>2, <3>2, <3>3
    <3> QED BY <2>4, <3>4, ContentsAre DEF ContentsIn
  <2> QED BY <2>3, <2>4
<1>20. Contents' = [Contents EXCEPT ![q] = Removal(Contents[q], i)]
  <2>1. Contents' = ContentsIn(data')
    BY ListPlaces DEF Contents, ContentsIn, ElementAt, Linkage
  <2>2. DOMAIN Contents = QueueIds /\ ContentsIn(data') = [p \in QueueIds |-> ContentsIn(data')[p]]
    BY DEF Contents, ContentsIn
  <2> QED BY <1>19, <2>1, <2>2
<1> QED BY <1>18, <1>20

-----------------------------------------------------------------------------
(* The steps *)

\* A queue holds as many elements as blocks are linked into it.
LEMMA ContentsOfQueue ==
  ASSUME QueueInv, NEW q \in QueueIds
  PROVE  /\ Linkage(data)[List(q)] \in Seq(Blocks)
         /\ ListAt(Addresses, Blocks, data, List(q), Linkage(data)[List(q)])
         /\ Len(Contents[q]) = Len(Linkage(data)[List(q)])
         /\ \A k \in 1 .. Len(Linkage(data)[List(q)]) :
              Contents[q][k] = read_element(data, Linkage(data)[List(q)][k] + 1)
         /\ Contents[q] \in Seq({read_element(data, b + 1) : b \in Blocks})
         /\ Contents[q] = << >> <=> empty(data, q)
<1> DEFINE c == Linkage(data)[List(q)]
           S == {read_element(data, b + 1) : b \in Blocks}
<1>1. ListAt(Addresses, Blocks, data, List(q), c)
  BY ListPlaces DEF QueueInv, Lists, Linkage
<1>2. c \in Seq(Blocks) /\ Len(c) \in Nat /\ \A k \in 1 .. Len(c) : c[k] \in Blocks
  BY <1>1, Ends DEF ListAt
<1>3. Contents[q] = [k \in 1 .. Len(c) |-> read_element(data, c[k] + 1)]
  BY ContentsAre DEF ContentsIn
<1>4. \A k \in 1 .. Len(c) : read_element(data, c[k] + 1) \in S
  BY <1>2
<1>5. empty(data, q) <=> Len(c) = 0
  <2>1. begin_addr(data, List(q)) = IF Len(c) = 0 THEN 0 ELSE c[1]
    BY <1>1, Ends
  <2>2. Len(c) # 0 => c[1] # 0
    <3>1. Len(c) # 0 => 1 \in 1 .. Len(c)
      BY <1>2
    <3> QED BY <1>2, <3>1, BlockPlaces
  <2> QED BY <2>1, <2>2 DEF empty
<1> HIDE DEF c, S
<1>6. Contents[q] \in Seq(S) /\ Len(Contents[q]) = Len(c)
      /\ (Contents[q] = << >> <=> Len(c) = 0)
  BY <1>2, <1>3, <1>4
<1>7. \A k \in 1 .. Len(c) : Contents[q][k] = read_element(data, c[k] + 1)
  BY <1>3
<1> QED BY <1>1, <1>2, <1>5, <1>6, <1>7 DEF c, S

\* What the steps do to the queues are the operations of a double-ended queue.
LEMMA DequeOperations ==
  ASSUME NEW S, NEW s \in Seq(S), NEW e
  PROVE  /\ <<e>> \o s = Insertion(s, 1, e)
         /\ Append(s, e) = Insertion(s, Len(s) + 1, e)
         /\ s # << >> => Tail(s) = Removal(s, 1)
         /\ s # << >> => Deques!Front(s) = Removal(s, Len(s))
<1>1. <<e>> \o s = Insertion(s, 1, e)
  BY DEF Insertion
<1>2. Append(s, e) = Insertion(s, Len(s) + 1, e)
  BY AppendInserts
<1>3. ASSUME s # << >> PROVE Tail(s) = Removal(s, 1)
  <2> DEFINE a == Tail(s)
  <2>1. /\ a \in Seq(S) /\ Len(a) = Len(s) - 1 /\ Len(s) \in Nat
        /\ \A i \in 1 .. Len(a) : a[i] = s[i + 1]
    BY <1>3, HeadTailProperties
  <2> HIDE DEF a
  <2>2. a = [j \in 1 .. Len(s) - 1 |-> a[j]]
    BY <2>1
  <2>3. \A j \in 1 .. Len(s) - 1 : a[j] = IF j < 1 THEN s[j] ELSE s[j + 1]
    BY <2>1
  <2>4. a = Removal(s, 1)
    BY <2>2, <2>3 DEF Removal
  <2> QED BY <2>4 DEF a
<1>4. ASSUME s # << >> PROVE Deques!Front(s) = Removal(s, Len(s))
  BY <1>4 DEF Removal, Deques!Front
<1> QED BY <1>1, <1>2, <1>3, <1>4

\* The filled block is in no queue, and the queues are linked as before.
LEMMA FillableQueue ==
  ASSUME QueueInv, ~ full(data), NEW q \in QueueIds, NEW e \in Element
  PROVE  /\ ListAt(Addresses, Blocks, Filled(e), List(q), Linkage(data)[List(q)])
         /\ begin_addr(data, List(FreeList)) \in Blocks
         /\ \A k \in 1 .. Len(Linkage(data)[List(q)]) :
              Linkage(data)[List(q)][k] # begin_addr(data, List(FreeList))
<1> DEFINE b == begin_addr(data, List(FreeList))
           ch == Linkage(data)
<1>1. /\ b \in Blocks
      /\ Lists(Addresses, Blocks, Filled(e), Taken)
      /\ ~ InLists(Taken, b)
  BY FilledBlock
<1>2. List(q) \in DOMAIN Taken /\ Taken[List(q)] = ch[List(q)]
  <2>1. /\ List(q) \in ListAddrs /\ List(q) # List(FreeList)
        /\ DOMAIN ch = ListAddrs
    BY ListPlaces DEF Linkage
  <2> HIDE DEF ch
  <2>2. Taken = [ch EXCEPT ![List(FreeList)] = Removal(ch[List(FreeList)], 1)]
    BY DEF Taken, ch
  <2> QED BY <2>1, <2>2
<1> HIDE DEF ch, b
<1>3. ListAt(Addresses, Blocks, Filled(e), List(q), ch[List(q)])
  BY <1>1, <1>2 DEF Lists
<1>4. \A k \in 1 .. Len(ch[List(q)]) : ch[List(q)][k] # b
  BY <1>1, <1>2 DEF InLists
<1> QED BY <1>1, <1>3, <1>4 DEF ch, b

\* push_front puts an element before the others of a queue.
LEMMA PushFrontStep ==
  ASSUME QueueInv, NEW q \in QueueIds, NEW e \in Element, push_front(q, e)
  PROVE  QueueInv' /\ Deques!PushFront(q, e)
<1> DEFINE b == begin_addr(data, List(FreeList))
           c == Linkage(data)[List(q)]
           i == 1
<1>1. /\ ~ full(data) /\ count' = count + 1 /\ nob_len' = nob_len
      /\ data' = PutFirst(Filled(e), List(q), b)
  BY DEF push_front
<1>2. c \in Seq(Blocks) /\ i \in 1 .. Len(c) + 1
  <2>1. c \in Seq(Blocks)
    BY ContentsOfQueue
  <2> HIDE DEF c
  <2> QED BY <2>1
<1>3. ListAt(Addresses, Blocks, Filled(e), List(q), c) /\ b \in Blocks
      /\ \A k \in 1 .. Len(c) : c[k] # b
  BY <1>1, FillableQueue
<1> HIDE DEF b, c
<1>4. /\ ListAt(Addresses, Blocks, data', List(q), Insertion(c, i, b))
      /\ OnlyList(Addresses, Filled(e), data', List(q), Insertion(c, i, b))
  BY <1>1, <1>3, PutFirstPuts
<1> HIDE DEF i
<1>5. /\ QueueInv'
      /\ count < Capacity
      /\ Contents' = [Contents EXCEPT ![q] = Insertion(Contents[q], i, e)]
  BY <1>1, <1>2, <1>4, Pushed DEF b, c
<1>6. Insertion(Contents[q], i, e) = <<e>> \o Contents[q]
  BY ContentsOfQueue, DequeOperations DEF c, i
<1> QED BY <1>1, <1>5, <1>6 DEF Deques!PushFront, Deques!Push

\* push_back puts an element behind the others of a queue.
LEMMA PushBackStep ==
  ASSUME QueueInv, NEW q \in QueueIds, NEW e \in Element, push_back(q, e)
  PROVE  QueueInv' /\ Deques!PushBack(q, e)
<1> DEFINE b == begin_addr(data, List(FreeList))
           c == Linkage(data)[List(q)]
           i == Len(c) + 1
<1>1. /\ ~ full(data) /\ count' = count + 1 /\ nob_len' = nob_len
      /\ data' = PutLast(Filled(e), List(q), b)
  BY DEF push_back
<1>2. c \in Seq(Blocks) /\ i \in 1 .. Len(c) + 1
  <2>1. c \in Seq(Blocks)
    BY ContentsOfQueue
  <2> HIDE DEF c
  <2> QED BY <2>1
<1>3. ListAt(Addresses, Blocks, Filled(e), List(q), c) /\ b \in Blocks
      /\ \A k \in 1 .. Len(c) : c[k] # b
  BY <1>1, FillableQueue
<1> HIDE DEF b, c
<1>4. /\ ListAt(Addresses, Blocks, data', List(q), Insertion(c, i, b))
      /\ OnlyList(Addresses, Filled(e), data', List(q), Insertion(c, i, b))
  BY <1>1, <1>3, PutLastPuts
<1> HIDE DEF i
<1>5. /\ QueueInv'
      /\ count < Capacity
      /\ Contents' = [Contents EXCEPT ![q] = Insertion(Contents[q], i, e)]
  BY <1>1, <1>2, <1>4, Pushed DEF b, c
<1>6. Insertion(Contents[q], i, e) = Append(Contents[q], e)
  BY ContentsOfQueue, DequeOperations DEF c, i
<1> QED BY <1>1, <1>5, <1>6 DEF Deques!PushBack, Deques!Push

\* pop_front takes the first element off a queue.
LEMMA PopFrontStep ==
  ASSUME QueueInv, NEW q \in QueueIds, pop_front(q)
  PROVE  QueueInv' /\ Deques!PopFront(q)
<1> DEFINE c == Linkage(data)[List(q)]
           n == TakeFirst(data, List(q))
           i == 1
<1>1. /\ ~ empty(data, q) /\ count' = count - 1 /\ nob_len' = nob_len
      /\ data' = PutFirst(n, List(FreeList), begin_addr(data, List(q)))
  BY DEF pop_front
<1>2. c \in Seq(Blocks) /\ ListAt(Addresses, Blocks, data, List(q), c)
      /\ Len(Contents[q]) = Len(c) /\ Contents[q] # << >>
  BY <1>1, ContentsOfQueue
<1>3. c # << >> /\ i \in 1 .. Len(c) /\ begin_addr(data, List(q)) = c[i]
  <2>1. Len(c) # 0 /\ Len(c) \in Nat
    BY <1>2, ContentsOfQueue
  <2> QED BY <1>2, <2>1, Ends
<1> HIDE DEF c
<1>4. /\ ListAt(Addresses, Blocks, n, List(q), Removal(c, i))
      /\ OnlyList(Addresses, data, n, List(q), c)
  BY <1>2, <1>3, TakeFirstTakes
<1> HIDE DEF n, i
<1>5. /\ QueueInv'
      /\ Contents' = [Contents EXCEPT ![q] = Removal(Contents[q], i)]
  BY <1>1, <1>3, <1>4, Popped DEF c
<1>6. Removal(Contents[q], i) = Tail(Contents[q])
  BY <1>2, ContentsOfQueue, DequeOperations DEF i
<1> QED BY <1>1, <1>2, <1>5, <1>6 DEF Deques!PopFront, Deques!Pop

\* pop_back takes the last element off a queue.
LEMMA PopBackStep ==
  ASSUME QueueInv, NEW q \in QueueIds, pop_back(q)
  PROVE  QueueInv' /\ Deques!PopBack(q)
<1> DEFINE c == Linkage(data)[List(q)]
           n == TakeLast(data, List(q))
           i == Len(c)
<1>1. /\ ~ empty(data, q) /\ count' = count - 1 /\ nob_len' = nob_len
      /\ data' = PutFirst(n, List(FreeList), end_addr(data, List(q)))
  BY DEF pop_back
<1>2. c \in Seq(Blocks) /\ ListAt(Addresses, Blocks, data, List(q), c)
      /\ Len(Contents[q]) = Len(c) /\ Contents[q] # << >>
  BY <1>1, ContentsOfQueue
<1>3. c # << >> /\ i \in 1 .. Len(c) /\ end_addr(data, List(q)) = c[i]
  <2>1. Len(c) # 0 /\ Len(c) \in Nat
    BY <1>2, ContentsOfQueue
  <2> QED BY <1>2, <2>1, Ends
<1> HIDE DEF c
<1>4. /\ ListAt(Addresses, Blocks, n, List(q), Removal(c, i))
      /\ OnlyList(Addresses, data, n, List(q), c)
  BY <1>2, <1>3, TakeLastTakes
<1> HIDE DEF n, i
<1>5. /\ QueueInv'
      /\ Contents' = [Contents EXCEPT ![q] = Removal(Contents[q], i)]
  BY <1>1, <1>3, <1>4, Popped DEF c
<1>6. Removal(Contents[q], i) = Deques!Front(Contents[q])
  BY <1>2, ContentsOfQueue, DequeOperations DEF i
<1> QED BY <1>1, <1>2, <1>5, <1>6 DEF Deques!PopBack, Deques!Pop

\* Every step is that of a double-ended queue or changes none, and keeps the
\* invariant.
LEMMA QueueStep ==
  ASSUME QueueInv, [Next]_mvars
  PROVE  QueueInv' /\ [Deques!Next]_Deques!vars
<1>1. CASE reset_nob
  <2>1. data[0].hi * Full + data[0].lo = DataLen
    <3>1. data[0].hi = 0 /\ data[0].lo = DataLen
      BY DEF QueueInv, Word
    <3> QED BY <3>1, Layout, HalfOfFull
  <2>2. QueueInv'
    BY <1>1, <2>1 DEF reset_nob, QueueInv, Linkage
  <2>3. UNCHANGED Deques!vars
    BY <1>1 DEF reset_nob, Deques!vars, Contents, ElementAt
  <2> QED BY <2>2, <2>3
<1>2. ASSUME NEW q \in QueueIds, front(q) \/ back(q)
      PROVE  QueueInv' /\ [Deques!Next]_Deques!vars
  <2>1. UNCHANGED <<data, nob_len, count>>
    BY <1>2 DEF front, back
  <2>2. QueueInv'
    BY <2>1 DEF QueueInv, Linkage
  <2>3. UNCHANGED Deques!vars
    BY <2>1 DEF Deques!vars, Contents, ElementAt
  <2> QED BY <2>2, <2>3
<1>3. ASSUME NEW q \in QueueIds, pop_front(q)
      PROVE  QueueInv' /\ [Deques!Next]_Deques!vars
  BY <1>3, PopFrontStep DEF Deques!Next
<1>4. ASSUME NEW q \in QueueIds, pop_back(q)
      PROVE  QueueInv' /\ [Deques!Next]_Deques!vars
  BY <1>4, PopBackStep DEF Deques!Next
<1>5. ASSUME NEW q \in QueueIds, NEW e \in Element, push_front(q, e)
      PROVE  QueueInv' /\ [Deques!Next]_Deques!vars
  BY <1>5, PushFrontStep DEF Deques!Next
<1>6. ASSUME NEW q \in QueueIds, NEW e \in Element, push_back(q, e)
      PROVE  QueueInv' /\ [Deques!Next]_Deques!vars
  BY <1>6, PushBackStep DEF Deques!Next
<1>7. CASE UNCHANGED mvars
  <2>1. UNCHANGED <<data, nob_len, count>>
    BY <1>7 DEF mvars
  <2>2. QueueInv'
    BY <2>1 DEF QueueInv, Linkage
  <2>3. UNCHANGED Deques!vars
    BY <2>1 DEF Deques!vars, Contents, ElementAt
  <2> QED BY <2>2, <2>3
<1> QED BY <1>1, <1>2, <1>3, <1>4, <1>5, <1>6, <1>7 DEF Next

-----------------------------------------------------------------------------
(* The constructor *)

\* The words the constructor writes.
LEMMA ConstructedWords ==
  ASSUME NEW junk \in Words
  PROVE  /\ Constructed(junk) \in [Addresses -> Words]
         /\ Constructed(junk)[0] = Word(0, DataLen)
         /\ Constructed(junk)[List(FreeList)] = Word(3 + NumQueues, DataLen - BlockSize)
         /\ \A q \in QueueIds : Constructed(junk)[List(q)] = Word(0, 0)
         /\ \A b \in Blocks : Constructed(junk)[b] = Linked(3 + NumQueues, b)
<1> DEFINE m == Constructed(junk)
           w(x) == CASE x = 0 -> Word(0, DataLen)
                     [] x = 1 -> Word(NumQueues, Capacity)
                     [] x = List(FreeList) -> Word(3 + NumQueues, DataLen - BlockSize)
                     [] x \in {List(q) : q \in QueueIds} -> Word(0, 0)
                     [] x \in Blocks -> Linked(3 + NumQueues, x)
                     [] OTHER -> junk
<1>1. m = [x \in Addresses |-> w(x)]
  BY DEF Constructed
<1>2. List(FreeList) = 2 /\ \A q \in QueueIds : List(q) \in 3 .. 2 + NumQueues
  BY Layout DEF List, FreeList, QueueIds
<1>3. \A b \in Blocks : b \in Nat /\ b >= 3 + NumQueues /\ b + BlockSize <= DataLen
  BY BlockPlaces, BlockInside, Layout
<1>4. 3 + NumQueues <= DataLen - BlockSize /\ Capacity <= DataLen
  <2>1. 1 * BlockSize <= Capacity * BlockSize
    BY BlockSizes, ProductMonotone
  <2>2. 1 * Capacity <= BlockSize * Capacity
    BY BlockSizes, ProductMonotone
  <2>3. BlockSize * Capacity = Capacity * BlockSize /\ 1 * BlockSize = BlockSize
        /\ 1 * Capacity = Capacity
    BY BlockSizes
  <2> QED BY <2>1, <2>2, <2>3, Layout, BlockSizes
<1>5. \A hi \in 0 .. Half - 1, lo \in 0 .. Half - 1 : Word(hi, lo) \in Words
  BY HalfOfFull DEF Word, Words
<1>6. ASSUME NEW b \in Blocks
      PROVE  Linked(3 + NumQueues, b) \in Words
  <2>1. 3 + NumQueues \in Nat \ {0} /\ 3 + NumQueues + Capacity * BlockSize < Half
    BY Layout
  <2> QED BY <2>1, BlockPlaces, LinkedWords
<1> HIDE DEF w
<1>7. \A x \in Addresses : w(x) \in Words
  <2> TAKE x \in Addresses
  <2>1. /\ Word(0, DataLen) \in Words /\ Word(0, 0) \in Words
        /\ Word(NumQueues, Capacity) \in Words
        /\ Word(3 + NumQueues, DataLen - BlockSize) \in Words
    BY <1>4, <1>5, Layout, BlockSizes, HalfOfFull
  <2> QED BY <1>6, <2>1 DEF w
<1>8. /\ 0 \in Addresses /\ List(FreeList) \in Addresses
      /\ \A q \in QueueIds : List(q) \in Addresses
      /\ Blocks \subseteq Addresses
  BY ListPlaces, BlockPlaces, Layout DEF Addresses
<1>9. w(0) = Word(0, DataLen)
  <2>1. /\ 0 # 1 /\ 0 # List(FreeList) /\ 0 \notin Blocks
        /\ 0 \notin {List(p) : p \in QueueIds}
    BY <1>2, BlockPlaces
  <2> QED BY <2>1 DEF w
<1>10. w(List(FreeList)) = Word(3 + NumQueues, DataLen - BlockSize)
  <2>1. /\ List(FreeList) # 0 /\ List(FreeList) # 1 /\ List(FreeList) \notin Blocks
        /\ List(FreeList) \notin {List(p) : p \in QueueIds}
    BY <1>2, <1>3, Layout
  <2> QED BY <2>1 DEF w
<1>11. ASSUME NEW q \in QueueIds
       PROVE  w(List(q)) = Word(0, 0)
  <2>1. /\ List(q) # 0 /\ List(q) # 1 /\ List(q) # List(FreeList)
        /\ List(q) \notin Blocks
    BY <1>2, <1>3, Layout
  <2>2. List(q) \in {List(p) : p \in QueueIds}
    OBVIOUS
  <2> QED BY <2>1, <2>2 DEF w
<1>12. ASSUME NEW b \in Blocks
       PROVE  w(b) = Linked(3 + NumQueues, b)
  <2>1. b # 0 /\ b # 1 /\ b # List(FreeList) /\ b \notin {List(q) : q \in QueueIds}
    BY <1>2, <1>3, Layout
  <2> QED BY <2>1 DEF w
<1> HIDE DEF m
<1>13. \A x \in Addresses : m[x] = w(x)
  BY <1>1
<1>14. m \in [Addresses -> Words]
  BY <1>1, <1>7
<1> QED BY <1>8, <1>9, <1>10, <1>11, <1>12, <1>13, <1>14 DEF m

\* The constructor leaves empty queues and every block free.
LEMMA QueueInit ==
  ASSUME Capacity >= 2, Init
  PROVE  QueueInv /\ Deques!Init
<1> DEFINE F == List(FreeList)
           c == [k \in 1 .. Capacity |-> BlockAt(3 + NumQueues, k)]
           ch == [l \in ListAddrs |-> IF l = F THEN c ELSE << >>]
<1>1. PICK junk \in Words : data = Constructed(junk)
  <2>1. ASSUME NEW e \in Element
        PROVE  e[0] \in Words
    BY ElementAssumption
  <2> QED BY <2>1 DEF Init
<1>2. /\ data \in [Addresses -> Words]
      /\ data[0] = Word(0, DataLen)
      /\ data[F] = Word(3 + NumQueues, DataLen - BlockSize)
      /\ \A q \in QueueIds : data[List(q)] = Word(0, 0)
      /\ \A b \in Blocks : data[b] = Linked(3 + NumQueues, b)
  BY <1>1, ConstructedWords
<1>3. /\ c \in Seq(Blocks) /\ Len(c) = Capacity
      /\ ListAt(Addresses, Blocks, data, F, c)
      /\ \A b \in Blocks : \E k \in 1 .. Capacity : c[k] = b
  <2> DEFINE first == 3 + NumQueues
  <2>1. /\ first \in Nat /\ Blocks = BlocksFrom(first)
        /\ Blocks \subseteq Addresses /\ Blocks \subseteq 1 .. Half - 1
        /\ F \in Addresses \ Blocks
    BY BlockPlaces, ListPlaces
  <2>2. DataLen - BlockSize = first + Capacity * BlockSize - BlockSize
    BY Layout, BlockSizes
  <2>3. data[F] = Word(first, first + Capacity * BlockSize - BlockSize)
    BY <1>2, <2>2
  <2>4. \A b \in BlocksFrom(first) : data[b] = Linked(first, b)
    BY <1>2, <2>1
  <2>5. c = [k \in 1 .. Capacity |-> BlockAt(first, k)]
    OBVIOUS
  <2> HIDE DEF c, F, first
  <2>6. data \in [Addresses -> Words]
    BY <1>2
  <2> QED BY <2>1, <2>3, <2>4, <2>5, <2>6, FreshList
<1> HIDE DEF c
<1>4. \A l \in ListAddrs : l = F \/ \E q \in QueueIds : l = List(q)
  BY DEF ListAddrs
<1>5. ASSUME NEW q \in QueueIds
      PROVE  ListAt(Addresses, Blocks, data, List(q), << >>)
  <2>1. data[List(q)].hi = 0 /\ data[List(q)].lo = 0
    BY <1>2 DEF Word
  <2>2. IsList(data, List(q), << >>)
    BY <2>1 DEF IsList, begin_addr, end_addr
  <2>3. Distinct(<< >>)
    BY DEF Distinct
  <2>4. /\ Blocks \subseteq Addresses /\ Blocks \subseteq 1 .. Half - 1
        /\ List(q) \in Addresses \ Blocks
    BY ListPlaces, BlockPlaces
  <2> QED BY <1>2, <2>2, <2>3, <2>4 DEF ListAt
<1>6. /\ DOMAIN ch = ListAddrs /\ ch[F] = c
      /\ \A l \in ListAddrs : l # F => ch[l] = << >>
      /\ ch = [l \in ListAddrs |-> ch[l]]
  BY ListPlaces
<1> HIDE DEF ch
<1>7. Lists(Addresses, Blocks, data, ch)
  <2>1. \A l \in DOMAIN ch : ListAt(Addresses, Blocks, data, l, ch[l])
    BY <1>3, <1>4, <1>5, <1>6
  <2>2. ASSUME NEW l \in DOMAIN ch, NEW p \in DOMAIN ch, l # p,
               NEW i \in 1 .. Len(ch[l]), NEW j \in 1 .. Len(ch[p])
        PROVE  ch[l][i] # ch[p][j]
    <3>1. ch[l] = << >> \/ ch[p] = << >>
      BY <1>6, <2>2
    <3>2. Len(<< >>) = 0 /\ 1 .. 0 = {}
      BY SMT
    <3> QED BY <3>1, <3>2
  <2> QED BY <2>1, <2>2 DEF Lists
<1>8. Linkage(data) = ch
  BY <1>6, <1>7, LinkageIs
<1>9. \A b \in Blocks : InLists(ch, b)
  BY <1>3, <1>6, ListPlaces DEF InLists
<1>10. QueueInv
  <2>1. nob_len = DataLen /\ count = 0
    BY DEF Init
  <2>2. count \in Nat /\ count + Len(ch[F]) = Capacity
    BY <1>3, <1>6, <2>1, BlockSizes
  <2> QED BY <1>2, <1>7, <1>8, <1>9, <2>1, <2>2 DEF QueueInv
<1>11. Deques!Init
  <2>1. ASSUME NEW q \in QueueIds
        PROVE  Contents[q] = << >>
    <3>1. Linkage(data)[List(q)] = << >>
      BY <1>6, <1>8, ListPlaces
    <3>2. Contents[q] = [k \in 1 .. 0 |-> read_element(data, Linkage(data)[List(q)][k] + 1)]
      BY <3>1, ContentsAre DEF ContentsIn
    <3> QED BY <3>2
  <2>2. Contents = [q \in QueueIds |-> Contents[q]]
    BY DEF Contents
  <2>3. Contents = [q \in QueueIds |-> << >>]
    BY <2>1, <2>2
  <2> QED BY <2>3 DEF Init, Deques!Init
<1> QED BY <1>10, <1>11

-----------------------------------------------------------------------------
(* What the invariant says of the lists *)

\* The blocks of the lists are those of the sequences that are linked.
LEMMA BlocksLinked ==
  ASSUME QueueInv, NEW q \in QueueIds \cup {FreeList}
  PROVE  /\ List(q) \in ListAddrs
         /\ ListAt(Addresses, Blocks, data, List(q), Linkage(data)[List(q)])
         /\ BlocksOf(q) = {Linkage(data)[List(q)][k] :
                             k \in 1 .. Len(Linkage(data)[List(q)])}
<1>1. List(q) \in ListAddrs
  BY ListPlaces
<1>2. Linkage(data)[List(q)] = Chain(data, List(q))
  BY <1>1 DEF Linkage
<1>3. ListAt(Addresses, Blocks, data, List(q), Linkage(data)[List(q)])
  BY <1>1 DEF QueueInv, Lists, Linkage
<1> QED BY <1>1, <1>2, <1>3 DEF BlocksOf

\* The blocks are linked as the lists need.
LEMMA InvariantLinks == QueueInv => QueuesOK
<1> SUFFICES ASSUME QueueInv
             PROVE  QueuesOK
  OBVIOUS
<1> DEFINE ch == Linkage(data)
<1>1. Lists(Addresses, Blocks, data, ch) /\ DOMAIN ch = ListAddrs
  BY DEF QueueInv, Linkage
<1>2. ASSUME NEW q \in QueueIds \cup {FreeList}
      PROVE  ListOf(data, List(q), BlocksOf(q))
  <2>1. /\ ListAt(Addresses, Blocks, data, List(q), ch[List(q)])
        /\ BlocksOf(q) = {ch[List(q)][k] : k \in 1 .. Len(ch[List(q)])}
    BY BlocksLinked
  <2> HIDE DEF ch
  <2> QED BY <2>1, ListOfBlocks
<1>3. ASSUME NEW q \in QueueIds \cup {FreeList}, NEW p \in QueueIds \cup {FreeList},
             q # p, NEW b \in BlocksOf(q), b \in BlocksOf(p)
      PROVE  FALSE
  <2>1. List(q) \in DOMAIN ch /\ List(p) \in DOMAIN ch /\ List(q) # List(p)
    BY <1>1, <1>3, ListPlaces, BlocksLinked
  <2>2. /\ \E i \in 1 .. Len(ch[List(q)]) : ch[List(q)][i] = b
        /\ \E j \in 1 .. Len(ch[List(p)]) : ch[List(p)][j] = b
    BY <1>3, BlocksLinked
  <2> HIDE DEF ch
  <2>3. \A i \in 1 .. Len(ch[List(q)]), j \in 1 .. Len(ch[List(p)]) :
          ch[List(q)][i] # ch[List(p)][j]
    BY <1>1, <2>1 DEF Lists
  <2> QED BY <2>2, <2>3
<1>4. ASSUME NEW b \in Blocks
      PROVE  \E q \in QueueIds \cup {FreeList} : b \in BlocksOf(q)
  <2>1. PICK l \in ListAddrs : \E k \in 1 .. Len(ch[l]) : ch[l][k] = b
    BY <1>1 DEF QueueInv, InLists
  <2>2. PICK q \in QueueIds \cup {FreeList} : l = List(q)
    BY DEF ListAddrs
  <2> QED BY <2>1, <2>2, BlocksLinked
<1>5. ASSUME NEW q \in QueueIds \cup {FreeList}, NEW b \in BlocksOf(q)
      PROVE  b \in Blocks
  <2>1. /\ ListAt(Addresses, Blocks, data, List(q), ch[List(q)])
        /\ BlocksOf(q) = {ch[List(q)][k] : k \in 1 .. Len(ch[List(q)])}
    BY BlocksLinked
  <2> HIDE DEF ch
  <2> QED BY <2>1, Ends
<1>6. data \in [Addresses -> Words]
  <2>1. ListAt(Addresses, Blocks, data, List(FreeList), ch[List(FreeList)])
    BY BlocksLinked
  <2> QED BY <2>1 DEF ListAt
<1>7. UNION {BlocksOf(q) : q \in QueueIds \cup {FreeList}} = Blocks
  BY <1>4, <1>5
<1>8. nob_len = DataLen
  BY DEF QueueInv
<1> QED BY <1>2, <1>3, <1>6, <1>7, <1>8 DEF QueuesOK

\* The element front() and back() read is that at an end of the queue.
LEMMA InvariantEnds ==
  ASSUME QueueInv, NEW q \in QueueIds
  PROVE  /\ front(q) => ret' = Contents[q][1]
         /\ back(q) => ret' = Contents[q][Len(Contents[q])]
<1> DEFINE c == Linkage(data)[List(q)]
           len == Len(c)
<1>1. /\ ListAt(Addresses, Blocks, data, List(q), c)
      /\ Len(Contents[q]) = len
      /\ \A k \in 1 .. len : Contents[q][k] = read_element(data, c[k] + 1)
      /\ Contents[q] = << >> <=> empty(data, q)
  BY ContentsOfQueue
<1>2. len \in Nat
  BY <1>1, Ends
<1>3. /\ begin_addr(data, List(q)) = IF len = 0 THEN 0 ELSE c[1]
      /\ end_addr(data, List(q)) = IF len = 0 THEN 0 ELSE c[len]
  BY <1>1, Ends
<1>4. ~ empty(data, q) => len # 0
  BY <1>3 DEF empty
<1> HIDE DEF len, c
<1>5. len # 0 => 1 \in 1 .. len /\ len \in 1 .. len
  BY <1>2
<1> QED BY <1>1, <1>3, <1>4, <1>5 DEF front, back

\* While blocks are in queues that leave none over, no block is free.
LEMMA InvariantFull == QueueInv => FullWhenExhausted
<1> SUFFICES ASSUME QueueInv, UNION {BlocksOf(q) : q \in QueueIds} = Blocks
             PROVE  full(data)
  BY DEF FullWhenExhausted
<1> DEFINE c == Linkage(data)[List(FreeList)]
           len == Len(c)
<1>1. /\ ListAt(Addresses, Blocks, data, List(FreeList), c)
      /\ BlocksOf(FreeList) = {c[k] : k \in 1 .. len}
  BY BlocksLinked
<1>2. /\ len \in Nat
      /\ \A k \in 1 .. len : c[k] \in Blocks
      /\ begin_addr(data, List(FreeList)) = IF len = 0 THEN 0 ELSE c[1]
  BY <1>1, Ends
<1>3. ASSUME 1 \in 1 .. len
      PROVE  FALSE
  <2>1. c[1] \in Blocks /\ c[1] \in BlocksOf(FreeList)
    BY <1>1, <1>2, <1>3
  <2>2. PICK q \in QueueIds : c[1] \in BlocksOf(q)
    BY <2>1
  <2>3. q # FreeList
    BY Layout DEF QueueIds, FreeList
  <2> QED BY <2>1, <2>2, <2>3, InvariantLinks DEF QueuesOK
<1> HIDE DEF len, c
<1>4. len = 0
  BY <1>2, <1>3
<1> QED BY <1>2, <1>4 DEF full, empty

-----------------------------------------------------------------------------
(* Theorems *)

\* The invariant holds in every state, when the constructor links at least two
\* blocks.
LEMMA QueueInvariance ==
  ASSUME Capacity >= 2
  PROVE  Spec => []QueueInv
<1>1. Init => QueueInv
  BY QueueInit
<1>2. QueueInv /\ [Next]_mvars => QueueInv'
  BY QueueStep
<1> QED BY <1>1, <1>2, PTL DEF Spec

\* push_front, push_back, pop_front and pop_back keep every block linked, to
\* and fro, into exactly one of the queues and the free list, for every number
\* of queues and every capacity of at least two blocks.  (The constructor links
\* a single block to an address behind the array.)
THEOREM QueuesHold ==
  ASSUME Capacity >= 2
  PROVE  Spec => []QueuesOK
<1>1. QueueInv => QueuesOK
  BY InvariantLinks
<1>2. Spec => []QueueInv
  BY QueueInvariance
<1> QED BY <1>1, <1>2, PTL

\* The queues in the array are double-ended queues: what is pushed at an end
\* comes off at either in its order, no operation on one queue changes another,
\* and no more than Capacity elements are in them.
THEOREM QueuesAreDeques ==
  ASSUME Capacity >= 2
  PROVE  Spec => ImplementsQueues
<1>1. Init => Deques!Init
  BY QueueInit
<1>2. QueueInv /\ [Next]_mvars => [Deques!Next]_Deques!vars
  BY QueueStep
<1>3. Spec => []QueueInv
  BY QueueInvariance
<1> QED BY <1>1, <1>2, <1>3, PTL DEF Spec, ImplementsQueues, Deques!Spec

\* front() and back() return the element that was pushed to that end of the
\* queue, however many were taken from its other end and from other queues.
THEOREM EndsAreReturned ==
  ASSUME Capacity >= 2
  PROVE  Spec => EndsReturned
<1>1. QueueInv /\ [Next]_mvars =>
        [\A q \in QueueIds :
           /\ front(q) => ret' = Contents[q][1]
           /\ back(q) => ret' = Contents[q][Len(Contents[q])]]_mvars
  BY InvariantEnds
<1>2. Spec => []QueueInv
  BY QueueInvariance
<1> QED BY <1>1, <1>2, PTL DEF Spec, EndsReturned

\* With at least two blocks full() does what its comment says: it is true once
\* the queues hold every block.
THEOREM FullTellsExhaustion ==
  ASSUME Capacity >= 2
  PROVE  Spec => []FullWhenExhausted
<1>1. QueueInv => FullWhenExhausted
  BY InvariantFull
<1>2. Spec => []QueueInv
  BY QueueInvariance
<1> QED BY <1>1, <1>2, PTL

=============================================================================
