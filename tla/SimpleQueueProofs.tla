------------------------- MODULE SimpleQueueProofs -------------------------
(***************************************************************************)
(* The ring of SimpleQueue implements a first-in first-out queue for every *)
(* capacity and every size of element.                                     *)
(***************************************************************************)
EXTENDS SimpleQueue, IntegerDivision, SequenceTheorems

-----------------------------------------------------------------------------
(* Places of the ring *)

\* Where the place s of the ring starts.
Place(s) == s * ElementSize + 3

\* The place k behind the front.
Behind(m, k) == (front_idx(m) + k) % Capacity

\* The bounds of the fields, as what the proofs need of them.
LEMMA Bounds == Half \in Nat \ {0} /\ Full \in Nat \ {0} /\ Half <= Full
  BY DEF Half, Full

\* The sizes are positive numbers.
LEMMA SizesOfRing ==
  /\ Capacity \in Nat \ {0}
  /\ ElementSize \in Nat \ {0}
  BY RingAssumption, Bounds

\* The ints of a place of the ring lie in the array, behind its metadata.
LEMMA PlaceInside ==
  ASSUME NEW s \in 0 .. Capacity - 1, NEW i \in 0 .. ElementSize - 1
  PROVE  /\ Place(s) \in Nat
         /\ Place(s) + i \in 3 .. DataLen - 1
         /\ DataLen \in Nat
<1>1. s * ElementSize + i \in 0 .. Capacity * ElementSize - 1
  BY SizesOfRing, BlocksFit
<1>2. s * ElementSize \in Nat /\ Capacity * ElementSize \in Nat
  BY SizesOfRing, ProductNat
<1> QED BY <1>1, <1>2 DEF Place, DataLen

\* Two places of the ring have no int in common.
LEMMA PlacesApart ==
  ASSUME NEW s \in 0 .. Capacity - 1, NEW t \in 0 .. Capacity - 1, s # t,
         NEW i \in 0 .. ElementSize - 1, NEW j \in 0 .. ElementSize - 1
  PROVE  Place(s) + i # Place(t) + j
<1>1. s * ElementSize + i # t * ElementSize + j
  BY SizesOfRing, BlocksApart
<1>2. s * ElementSize \in Nat /\ t * ElementSize \in Nat
  BY SizesOfRing, ProductNat
<1> QED BY <1>1, <1>2 DEF Place

\* While the metadata are in order, addr is the place that many behind the
\* front, and less than a turn of the ring apart the places differ.
LEMMA BehindFacts ==
  ASSUME NEW m, m[1] = Word(Capacity, ElementSize),
         front_idx(m) \in 0 .. Capacity - 1,
         NEW k \in 0 .. Capacity
  PROVE  /\ Behind(m, k) \in 0 .. Capacity - 1
         /\ addr(m, k) = Place(Behind(m, k))
         /\ Behind(m, k) = IF front_idx(m) + k < Capacity THEN front_idx(m) + k
                           ELSE front_idx(m) + k - Capacity
<1> DEFINE a == front_idx(m) + k
<1>1. a \in Nat /\ a < 2 * Capacity
  BY SizesOfRing
<1> HIDE DEF a
<1>2. a % Capacity = IF a < Capacity THEN a ELSE a - Capacity
  BY <1>1, SizesOfRing, RingPlace
<1>3. Behind(m, k) = a % Capacity
  BY DEF Behind, a
<1>4. capacity(m) = Capacity /\ m[1].lo = ElementSize
  BY DEF capacity, Word
<1>5. addr(m, k) = Place(Behind(m, k))
  BY <1>4 DEF addr, Place, Behind
<1> QED BY <1>1, <1>2, <1>3, <1>5, SizesOfRing DEF a

\* Less than a turn of the ring apart, two places behind the front differ.
LEMMA BehindApart ==
  ASSUME NEW m, front_idx(m) \in 0 .. Capacity - 1,
         NEW k \in 0 .. Capacity - 1, NEW l \in 0 .. Capacity - 1, k # l
  PROVE  Behind(m, k) # Behind(m, l)
<1> DEFINE f == front_idx(m)
           a == f + k
           b == f + l
<1>1. a \in Nat /\ a < 2 * Capacity /\ b \in Nat /\ b < 2 * Capacity
  BY SizesOfRing
<1>2. a - b # Capacity /\ b - a # Capacity /\ a # b
  BY SizesOfRing
<1>3. Behind(m, k) = a % Capacity /\ Behind(m, l) = b % Capacity
  BY DEF Behind
<1> HIDE DEF a, b
<1>4. /\ a % Capacity = IF a < Capacity THEN a ELSE a - Capacity
      /\ b % Capacity = IF b < Capacity THEN b ELSE b - Capacity
  BY <1>1, SizesOfRing, RingPlace
<1> QED BY <1>1, <1>2, <1>3, <1>4, SizesOfRing

-----------------------------------------------------------------------------
(* Writing an element *)

\* The array w is m with the element e in place s, and nothing else changed
\* there.
Stored(w, m, s, e) ==
  /\ w \in [0 .. DataLen - 1 -> Words]
  /\ \A x \in 0 .. 2 : w[x] = m[x]
  /\ read_element(w, Place(s)) = e
  /\ \A t \in 0 .. Capacity - 1 :
       t # s => read_element(w, Place(t)) = read_element(m, Place(t))

\* A write to a place stores the element there and leaves the metadata and the
\* other places alone.
LEMMA WriteFacts ==
  ASSUME NEW m \in [0 .. DataLen - 1 -> Words],
         NEW s \in 0 .. Capacity - 1, NEW e \in Element
  PROVE  Stored(write_element(m, Place(s), e), m, s, e)
<1> DEFINE p == Place(s)
           w == write_element(m, Place(s), e)
<1>1. e \in [0 .. ElementSize - 1 -> Words]
  BY ElementAssumption
<1>2. p \in Nat /\ p >= 3 /\ DataLen \in Nat /\ DataLen >= 3
  BY SizesOfRing, PlaceInside
<1>3. w = [x \in 0 .. DataLen - 1 |->
             IF x \in p .. p + ElementSize - 1 THEN e[x - p] ELSE m[x]]
  BY DEF write_element
<1>4. w \in [0 .. DataLen - 1 -> Words]
  <2> HIDE DEF p, w
  <2>1. \A x \in p .. p + ElementSize - 1 : x - p \in 0 .. ElementSize - 1
    BY <1>2, SizesOfRing
  <2> QED BY <1>1, <1>3, <2>1
<1>5. \A x \in 0 .. 2 : w[x] = m[x]
  <2> HIDE DEF p, w
  <2> QED BY <1>2, <1>3
<1>6. read_element(w, p) = e
  <2>1. \A i \in 0 .. ElementSize - 1 : w[p + i] = e[i]
    <3> TAKE i \in 0 .. ElementSize - 1
    <3>1. p + i \in 0 .. DataLen - 1
      BY PlaceInside
    <3> HIDE DEF p, w
    <3>2. p + i \in p .. p + ElementSize - 1 /\ (p + i) - p = i
      BY <1>2, SizesOfRing
    <3> QED BY <1>3, <3>1, <3>2
  <2> HIDE DEF p, w
  <2> QED BY <1>1, <2>1 DEF read_element
<1>7. ASSUME NEW t \in 0 .. Capacity - 1, t # s
      PROVE  read_element(w, Place(t)) = read_element(m, Place(t))
  <2>1. \A i \in 0 .. ElementSize - 1 : w[Place(t) + i] = m[Place(t) + i]
    <3> TAKE i \in 0 .. ElementSize - 1
    <3>1. Place(t) + i \in 3 .. DataLen - 1
      BY PlaceInside
    <3>2. Place(t) + i \notin p .. p + ElementSize - 1
      <4> SUFFICES ASSUME Place(t) + i \in p .. p + ElementSize - 1
                   PROVE  FALSE
        OBVIOUS
      <4> DEFINE j == Place(t) + i - p
      <4>0. Place(t) \in Nat
        BY PlaceInside, SizesOfRing
      <4>1. j \in 0 .. ElementSize - 1 /\ p + j = Place(t) + i
        <5> HIDE DEF p, w
        <5> QED BY <1>2, <4>0, SizesOfRing
      <4> HIDE DEF j
      <4> QED BY <1>7, <4>1, PlacesApart
    <3> HIDE DEF p, w
    <3> QED BY <1>2, <1>3, <3>1, <3>2
  <2> QED BY <2>1 DEF read_element
<1> QED BY <1>4, <1>5, <1>6, <1>7 DEF Stored

-----------------------------------------------------------------------------
(* The invariant *)

\* A word of the metadata read back.
LEMMA HeaderWords ==
  ASSUME NEW a, NEW b
  PROVE  Word(a, b).hi = a /\ Word(a, b).lo = b
  BY DEF Word

\* Two 16-bit fields make a word.
LEMMA MetaWord ==
  ASSUME NEW a \in 0 .. Half - 1, NEW b \in 0 .. Full - 1
  PROVE  Word(a, b) \in Words
  BY Bounds DEF Word, Words

\* The length of the array fits its 32 bits and is read back as it was written.
LEMMA LengthWord ==
  /\ DataLen \in Nat
  /\ DataLen >= 3
  /\ (DataLen \div Full) * Full + (DataLen % Full) = DataLen
  /\ Word(DataLen \div Full, DataLen % Full) \in Words
<1>1. Capacity * ElementSize \in Nat
  BY SizesOfRing, ProductNat
<1>2. Capacity * ElementSize <= (Half - 1) * ElementSize
  BY RingAssumption, Bounds, SizesOfRing, ProductMonotone
<1>3. DataLen \in Nat /\ DataLen >= 3 /\ DataLen < Half * Full
  <2>1. (Half - 1) * (Full - 1) \in Nat /\ (Half - 1) * (Full - 1) + 3 < Half * Full
    BY DEF Half, Full
  <2>2. (Half - 1) * ElementSize <= (Half - 1) * (Full - 1)
    BY RingAssumption, Bounds
  <2>3. (Half - 1) * ElementSize \in Int /\ Half * Full \in Int
    BY RingAssumption, Bounds
  <2> QED BY <1>1, <1>2, <2>1, <2>2, <2>3 DEF DataLen
<1>4. /\ DataLen \div Full \in Nat
      /\ DataLen % Full \in Nat
      /\ DataLen % Full < Full
      /\ DataLen = (DataLen \div Full) * Full + (DataLen % Full)
  BY <1>3, Bounds, Division
<1>5. DataLen \div Full < Half
  BY <1>3, Bounds, QuotientBound
<1> QED BY <1>3, <1>4, <1>5, Bounds, MetaWord

\* The metadata of a queue in order, as numbers.
LEMMA RingFacts ==
  ASSUME RingOK
  PROVE  /\ data \in [0 .. DataLen - 1 -> Words]
         /\ data[1] = Word(Capacity, ElementSize)
         /\ capacity(data) = Capacity
         /\ size(data) \in 0 .. Capacity
         /\ front_idx(data) \in 0 .. Capacity - 1
         /\ \A k \in 0 .. Capacity : Behind(data, k) \in 0 .. Capacity - 1
         /\ \A k \in 0 .. Capacity : addr(data, k) = Place(Behind(data, k))
<1>1. RingOK
  OBVIOUS
<1>2. /\ data[1] = Word(Capacity, ElementSize)
      /\ front_idx(data) \in 0 .. Capacity - 1
  BY <1>1 DEF RingOK
<1>3. capacity(data) = Capacity
  BY <1>2, HeaderWords DEF capacity
<1>4. \A k \in 0 .. Capacity :
        Behind(data, k) \in 0 .. Capacity - 1 /\ addr(data, k) = Place(Behind(data, k))
  BY <1>2, BehindFacts
<1> QED BY <1>1, <1>2, <1>3, <1>4 DEF RingOK

\* A new queue is in order.
LEMMA InitRing == Init => RingOK
<1> SUFFICES ASSUME Init PROVE RingOK
  OBVIOUS
<1>1. PICK junk \in {e[0] : e \in Element} : data = Constructed(junk)
  BY DEF Init
<1>2. junk \in Words
  BY ElementAssumption, SizesOfRing
<1>3. Word(Capacity, ElementSize) \in Words /\ Word(0, 0) \in Words
  BY RingAssumption, Bounds, MetaWord
<1>4. data \in [0 .. DataLen - 1 -> Words]
  BY <1>1, <1>2, <1>3, LengthWord DEF Constructed
<1>5. /\ data[0] = Word(DataLen \div Full, DataLen % Full)
      /\ data[1] = Word(Capacity, ElementSize)
      /\ data[2] = Word(0, 0)
  BY <1>1, LengthWord DEF Constructed
<1>6. size(data) = 0 /\ front_idx(data) = 0
  BY <1>5, HeaderWords DEF size, front_idx
<1> QED BY <1>4, <1>5, <1>6, SizesOfRing DEF RingOK, Init

\* An enqueue adds one to the length and changes nothing but the place behind
\* the last element.
LEMMA EnqueueStep ==
  ASSUME RingOK, NEW e \in Element, enqueue(e)
  PROVE  /\ RingOK'
         /\ size(data) < Capacity
         /\ size(data)' = size(data) + 1
         /\ front_idx(data)' = front_idx(data)
         /\ read_element(data', addr(data, size(data))) = e
         /\ \A k \in 0 .. size(data) - 1 :
              read_element(data', addr(data, k)) = read_element(data, addr(data, k))
<1> DEFINE n == size(data)
           i == front_idx(data)
           w == write_element(data, addr(data, n), e)
<1>1. /\ data \in [0 .. DataLen - 1 -> Words]
      /\ n \in 0 .. Capacity - 1
      /\ i \in 0 .. Capacity - 1
      /\ Behind(data, n) \in 0 .. Capacity - 1
      /\ addr(data, n) = Place(Behind(data, n))
  <2>1. n # Capacity
    BY RingFacts DEF enqueue, full
  <2>2. n \in 0 .. Capacity
    BY RingFacts
  <2> HIDE DEF n
  <2>3. n \in 0 .. Capacity - 1
    BY <2>1, <2>2, SizesOfRing
  <2> QED BY <2>2, <2>3, RingFacts
<1>2. /\ data' = [w EXCEPT ![2] = Word(n + 1, i)]
      /\ nob_len' = nob_len
  BY DEF enqueue
<1>3. /\ w \in [0 .. DataLen - 1 -> Words]
      /\ \A x \in 0 .. 2 : w[x] = data[x]
      /\ read_element(w, addr(data, n)) = e
      /\ \A t \in 0 .. Capacity - 1 :
           t # Behind(data, n) => read_element(w, Place(t)) = read_element(data, Place(t))
  <2> DEFINE b == Behind(data, n)
  <2>1. b \in 0 .. Capacity - 1 /\ w = write_element(data, Place(b), e)
    BY <1>1
  <2>2. addr(data, n) = Place(b)
    BY <1>1
  <2>3. b = Behind(data, n)
    OBVIOUS
  <2> HIDE DEF w, b, n
  <2>4. Stored(w, data, b, e)
    BY <1>1, <2>1, WriteFacts
  <2> QED BY <2>2, <2>3, <2>4 DEF Stored
<1>4. Word(n + 1, i) \in Words
  <2>1. n + 1 \in 0 .. Half - 1 /\ i \in 0 .. Full - 1
    BY <1>1, RingAssumption, Bounds
  <2> QED BY <2>1, MetaWord
<1>5. /\ data' \in [0 .. DataLen - 1 -> Words]
      /\ data'[0] = data[0] /\ data'[1] = data[1] /\ data'[2] = Word(n + 1, i)
      /\ \A x \in 3 .. DataLen - 1 : data'[x] = w[x]
  <2> HIDE DEF w, n, i
  <2> QED BY <1>2, <1>3, <1>4, LengthWord
<1>6. size(data)' = n + 1 /\ front_idx(data)' = i
  BY <1>5, HeaderWords DEF size, front_idx
<1>7. RingOK'
  <2>1. n + 1 \in 0 .. Capacity
    BY <1>1, SizesOfRing
  <2> QED BY <1>1, <1>2, <1>5, <1>6, <2>1 DEF RingOK, size, front_idx
<1>8. \A t \in 0 .. Capacity - 1 : read_element(data', Place(t)) = read_element(w, Place(t))
  <2> HIDE DEF w, n, i
  <2> QED BY <1>5, PlaceInside DEF read_element
<1>9. ASSUME NEW k \in 0 .. n - 1
      PROVE  read_element(data', addr(data, k)) = read_element(data, addr(data, k))
  <2>1. k \in 0 .. Capacity /\ n \in 0 .. Capacity /\ k # n
    BY <1>1, SizesOfRing
  <2>2. /\ Behind(data, k) \in 0 .. Capacity - 1
        /\ addr(data, k) = Place(Behind(data, k))
    BY <2>1, RingFacts
  <2>3. Behind(data, k) # Behind(data, n)
    <3>1. k \in 0 .. Capacity - 1
      BY <1>1, <2>1, <1>9, SizesOfRing
    <3> HIDE DEF n
    <3> QED BY <1>1, <2>1, <3>1, BehindApart
  <2> HIDE DEF w, n
  <2>4. /\ read_element(data', Place(Behind(data, k))) = read_element(w, Place(Behind(data, k)))
        /\ read_element(w, Place(Behind(data, k))) = read_element(data, Place(Behind(data, k)))
    BY <1>3, <1>8, <2>2, <2>3
  <2> QED BY <2>2, <2>4
<1>10. read_element(data', addr(data, n)) = e
  <2> HIDE DEF w, n
  <2> QED BY <1>1, <1>3, <1>8
<1>11. n < Capacity
  BY <1>1, SizesOfRing
<1> QED BY <1>6, <1>7, <1>9, <1>10, <1>11

\* A dequeue takes one from the length and moves the front by a place.
LEMMA DequeueStep ==
  ASSUME RingOK, dequeue
  PROVE  /\ RingOK'
         /\ size(data) > 0
         /\ size(data)' = size(data) - 1
         /\ front_idx(data)' = Behind(data, 1)
         /\ \A t \in 0 .. Capacity - 1 :
              read_element(data', Place(t)) = read_element(data, Place(t))
<1> DEFINE n == size(data)
           f == Behind(data, 1)
<1>1. /\ data \in [0 .. DataLen - 1 -> Words]
      /\ n \in 1 .. Capacity
      /\ f \in 0 .. Capacity - 1
      /\ capacity(data) = Capacity
  BY RingFacts, SizesOfRing DEF dequeue, empty
<1>2. /\ data' = [data EXCEPT ![2] = Word(n - 1, f)]
      /\ nob_len' = nob_len
  BY <1>1 DEF dequeue, Behind
<1>3. Word(n - 1, f) \in Words
  <2>1. n - 1 \in 0 .. Half - 1 /\ f \in 0 .. Full - 1
    BY <1>1, RingAssumption, Bounds
  <2> QED BY <2>1, MetaWord
<1> HIDE DEF n, f
<1>4. /\ data' \in [0 .. DataLen - 1 -> Words]
      /\ data'[0] = data[0] /\ data'[1] = data[1] /\ data'[2] = Word(n - 1, f)
      /\ \A x \in 3 .. DataLen - 1 : data'[x] = data[x]
  BY <1>1, <1>2, <1>3, LengthWord
<1>5. size(data)' = n - 1 /\ front_idx(data)' = f
  BY <1>4, HeaderWords DEF size, front_idx
<1>6. RingOK'
  <2>1. n - 1 \in 0 .. Capacity
    BY <1>1, SizesOfRing
  <2> QED BY <1>1, <1>2, <1>4, <1>5, <2>1 DEF RingOK, size, front_idx
<1>7. \A t \in 0 .. Capacity - 1 : read_element(data', Place(t)) = read_element(data, Place(t))
  BY <1>4, PlaceInside DEF read_element
<1> QED BY <1>1, <1>5, <1>6, <1>7 DEF n, f

\* No step puts the queue out of order.
LEMMA NextRing == RingOK /\ [Next]_qvars => RingOK'
<1> SUFFICES ASSUME RingOK, [Next]_qvars PROVE RingOK'
  OBVIOUS
<1>1. CASE \E e \in Element : enqueue(e)
  BY <1>1, EnqueueStep
<1>2. CASE dequeue
  BY <1>2, DequeueStep
<1>3. CASE front
  BY <1>3 DEF front, RingOK, size, front_idx
<1>4. CASE reset_nob
  <2>1. nob_len' = DataLen
    BY <1>4, LengthWord, HeaderWords DEF reset_nob, RingOK
  <2> QED BY <1>4, <2>1 DEF reset_nob, RingOK, size, front_idx
<1>5. CASE UNCHANGED qvars
  BY <1>5 DEF qvars, RingOK, size, front_idx
<1> QED BY <1>1, <1>2, <1>3, <1>4, <1>5 DEF Next

\* SimpleQueue keeps its metadata in order and its indices in the ring, for
\* every capacity and size of element.
THEOREM RingInvariant == Spec => []RingOK
<1> QED BY InitRing, NextRing, PTL DEF Spec

-----------------------------------------------------------------------------
(* The refinement *)

\* What can be read as an element.
Stretch == [0 .. ElementSize - 1 -> Words]

\* The array m has its length, and its metadata are in order.
MetaOK(m) ==
  /\ m \in [0 .. DataLen - 1 -> Words]
  /\ m[1] = Word(Capacity, ElementSize)
  /\ size(m) \in 0 .. Capacity
  /\ front_idx(m) \in 0 .. Capacity - 1

\* The invariant says so of the queue.
LEMMA RingMeta == RingOK => MetaOK(data)
  BY DEF RingOK, MetaOK

\* What the client sees is a sequence, as long as the length in the metadata,
\* of the elements in the places behind the front.
LEMMA ContentsFacts ==
  ASSUME NEW m, MetaOK(m)
  PROVE  /\ ContentsOf(m) \in Seq(Stretch)
         /\ Len(ContentsOf(m)) = size(m)
         /\ \A k \in 1 .. size(m) :
              ContentsOf(m)[k] = read_element(m, Place(Behind(m, k - 1)))
<1> DEFINE n == size(m)
<1>1. n \in Nat /\ n \in 0 .. Capacity
  BY SizesOfRing DEF MetaOK
<1>2. ContentsOf(m) = [k \in 1 .. n |-> read_element(m, addr(m, k - 1))]
  BY DEF ContentsOf
<1> HIDE DEF n
<1>3. ASSUME NEW k \in 1 .. n
      PROVE  addr(m, k - 1) = Place(Behind(m, k - 1))
  <2>1. k - 1 \in 0 .. Capacity
    BY <1>1, SizesOfRing
  <2> QED BY <2>1, BehindFacts DEF MetaOK
<1>4. \A k \in 1 .. n : ContentsOf(m)[k] = read_element(m, Place(Behind(m, k - 1)))
  BY <1>2, <1>3
<1>5. ASSUME NEW k \in 1 .. n
      PROVE  read_element(m, Place(Behind(m, k - 1))) \in Stretch
  <2>1. k - 1 \in 0 .. Capacity
    BY <1>1, SizesOfRing
  <2>2. Behind(m, k - 1) \in 0 .. Capacity - 1
    BY <2>1, BehindFacts DEF MetaOK
  <2>3. \A i \in 0 .. ElementSize - 1 :
          Place(Behind(m, k - 1)) + i \in 0 .. DataLen - 1
    BY <2>2, PlaceInside
  <2> QED BY <2>3 DEF read_element, Stretch, MetaOK
<1>6. ContentsOf(m) \in [1 .. n -> Stretch]
  BY <1>2, <1>3, <1>5
<1>7. ContentsOf(m) \in Seq(Stretch) /\ Len(ContentsOf(m)) = n
  BY <1>1, <1>6
<1> QED BY <1>4, <1>7 DEF n

\* When the front moves by a place, so does every place behind it.
LEMMA BehindNext ==
  ASSUME NEW l, NEW m,
         l[1] = Word(Capacity, ElementSize), m[1] = Word(Capacity, ElementSize),
         front_idx(l) \in 0 .. Capacity - 1,
         front_idx(m) = Behind(l, 1),
         NEW k \in 0 .. Capacity - 1
  PROVE  Behind(m, k) = Behind(l, k + 1)
<1> DEFINE f == front_idx(l)
           g == front_idx(m)
<1>1. 1 \in 0 .. Capacity /\ k \in 0 .. Capacity /\ k + 1 \in 0 .. Capacity
  BY SizesOfRing
<1>2. /\ g \in 0 .. Capacity - 1
      /\ g = IF f + 1 < Capacity THEN f + 1 ELSE f + 1 - Capacity
  BY <1>1, BehindFacts
<1>3. Behind(m, k) = IF g + k < Capacity THEN g + k ELSE g + k - Capacity
  BY <1>1, <1>2, BehindFacts
<1>4. Behind(l, k + 1) = IF f + (k + 1) < Capacity THEN f + (k + 1)
                         ELSE f + (k + 1) - Capacity
  BY <1>1, BehindFacts
<1> HIDE DEF f, g
<1>5. f \in 0 .. Capacity - 1
  BY DEF f
<1> QED BY <1>2, <1>3, <1>4, <1>5, SizesOfRing

\* An enqueue appends the element to what the client sees.
LEMMA EnqueueAppends ==
  ASSUME RingOK, NEW e \in Element, enqueue(e)
  PROVE  Fifo!Enqueue(e)
<1> DEFINE n == size(data)
           c == Contents
           d == Contents'
<1>1. /\ MetaOK(data) /\ MetaOK(data')
      /\ n < Capacity /\ size(data') = n + 1
      /\ front_idx(data') = front_idx(data)
      /\ read_element(data', addr(data, n)) = e
      /\ \A k \in 0 .. n - 1 :
           read_element(data', addr(data, k)) = read_element(data, addr(data, k))
  <2>1. RingOK' => MetaOK(data')
    BY DEF RingOK, MetaOK, size, front_idx
  <2> QED BY <2>1, RingMeta, EnqueueStep
<1>2. n \in Nat /\ n \in 0 .. Capacity
  BY RingFacts, SizesOfRing
<1>3. \A k \in 0 .. Capacity : Behind(data', k) = Behind(data, k)
  BY <1>1 DEF Behind
<1>4. /\ c \in Seq(Stretch) /\ Len(c) = n
      /\ \A k \in 1 .. n : c[k] = read_element(data, Place(Behind(data, k - 1)))
  BY <1>1, ContentsFacts DEF Contents
<1>5. /\ d \in Seq(Stretch) /\ Len(d) = n + 1
      /\ \A k \in 1 .. n + 1 : d[k] = read_element(data', Place(Behind(data', k - 1)))
  <2>1. /\ ContentsOf(data') \in Seq(Stretch) /\ Len(ContentsOf(data')) = size(data')
        /\ \A k \in 1 .. size(data') :
             ContentsOf(data')[k] = read_element(data', Place(Behind(data', k - 1)))
    BY <1>1, ContentsFacts
  <2>2. d = ContentsOf(data')
    BY DEF Contents, ContentsOf, size, addr, front_idx, capacity, read_element
  <2> HIDE DEF n, d
  <2> QED BY <1>1, <2>1, <2>2
<1>6. \A k \in 0 .. Capacity : addr(data, k) = Place(Behind(data, k))
  BY RingFacts
<1> HIDE DEF n, c, d
<1>7. \A k \in 1 .. n : d[k] = c[k]
  <2> TAKE k \in 1 .. n
  <2>1. /\ k \in 1 .. n + 1 /\ k - 1 \in 0 .. n - 1 /\ k - 1 \in 0 .. Capacity
    BY <1>2, SizesOfRing
  <2> QED BY <1>1, <1>3, <1>4, <1>5, <1>6, <2>1
<1>8. d[n + 1] = e
  <2>1. n + 1 \in 1 .. n + 1 /\ (n + 1) - 1 = n
    BY <1>2
  <2> QED BY <1>1, <1>2, <1>3, <1>5, <1>6, <2>1
<1>9. e \in Stretch
  BY ElementAssumption DEF Stretch
<1>10. d = Append(c, e)
  <2>1. /\ Append(c, e) \in Seq(Stretch) /\ Len(Append(c, e)) = n + 1
        /\ \A k \in 1 .. n : Append(c, e)[k] = c[k]
        /\ Append(c, e)[n + 1] = e
    BY <1>4, <1>9, AppendProperties
  <2>2. \A k \in 1 .. n + 1 : d[k] = Append(c, e)[k]
    BY <1>2, <1>7, <1>8, <2>1
  <2> QED BY <1>5, <2>1, <2>2, SeqEqual
<1> QED BY <1>1, <1>4, <1>10 DEF Fifo!Enqueue, c, d

\* A dequeue takes away the first element of what the client sees.
LEMMA DequeueTakesFirst ==
  ASSUME RingOK, dequeue
  PROVE  Fifo!Dequeue
<1> DEFINE n == size(data)
           c == Contents
           d == Contents'
<1>1. /\ MetaOK(data) /\ MetaOK(data')
      /\ n > 0 /\ size(data') = n - 1
      /\ front_idx(data') = Behind(data, 1)
      /\ \A t \in 0 .. Capacity - 1 :
           read_element(data', Place(t)) = read_element(data, Place(t))
  <2>1. RingOK' => MetaOK(data')
    BY DEF RingOK, MetaOK, size, front_idx
  <2> QED BY <2>1, RingMeta, DequeueStep
<1>2. n \in Nat /\ n \in 0 .. Capacity
  BY RingFacts, SizesOfRing
<1>3. \A k \in 0 .. Capacity - 1 : Behind(data', k) = Behind(data, k + 1)
  BY <1>1, BehindNext DEF MetaOK
<1>4. /\ c \in Seq(Stretch) /\ Len(c) = n
      /\ \A k \in 1 .. n : c[k] = read_element(data, Place(Behind(data, k - 1)))
  BY <1>1, ContentsFacts DEF Contents
<1>5. /\ d \in Seq(Stretch) /\ Len(d) = n - 1
      /\ \A k \in 1 .. n - 1 : d[k] = read_element(data', Place(Behind(data', k - 1)))
  <2>1. /\ ContentsOf(data') \in Seq(Stretch) /\ Len(ContentsOf(data')) = size(data')
        /\ \A k \in 1 .. size(data') :
             ContentsOf(data')[k] = read_element(data', Place(Behind(data', k - 1)))
    BY <1>1, ContentsFacts
  <2>2. d = ContentsOf(data')
    BY DEF Contents, ContentsOf, size, addr, front_idx, capacity, read_element
  <2> HIDE DEF n, d
  <2> QED BY <1>1, <2>1, <2>2
<1>6. \A k \in 0 .. Capacity : Behind(data, k) \in 0 .. Capacity - 1
  BY RingFacts
<1> HIDE DEF n, c, d
<1>7. \A k \in 1 .. n - 1 : d[k] = c[k + 1]
  <2> TAKE k \in 1 .. n - 1
  <2>1. /\ k + 1 \in 1 .. n /\ k - 1 \in 0 .. Capacity - 1 /\ k \in 0 .. Capacity
        /\ (k - 1) + 1 = k /\ (k + 1) - 1 = k
    BY <1>2, SizesOfRing
  <2>2. d[k] = read_element(data', Place(Behind(data, k)))
    BY <1>3, <1>5, <2>1
  <2>3. c[k + 1] = read_element(data, Place(Behind(data, k)))
    BY <1>4, <2>1
  <2> QED BY <1>1, <1>6, <2>1, <2>2, <2>3
<1>8. c # << >>
  BY <1>1, <1>4, EmptySeq
<1>9. d = Tail(c)
  <2>1. /\ Tail(c) \in Seq(Stretch) /\ Len(Tail(c)) = n - 1
        /\ \A k \in 1 .. n - 1 : Tail(c)[k] = c[k + 1]
    BY <1>4, <1>8, HeadTailProperties
  <2>2. \A k \in 1 .. n - 1 : d[k] = Tail(c)[k]
    BY <1>7, <2>1
  <2> QED BY <1>5, <2>1, <2>2, SeqEqual
<1> QED BY <1>8, <1>9 DEF Fifo!Dequeue, c, d

\* SimpleQueue is a bounded first-in first-out queue, for every capacity and
\* size of element.
THEOREM QueueIsFIFO == Spec => ImplementsFIFO
<1>1. Init => Fifo!Init
  <2> SUFFICES ASSUME Init PROVE Contents = << >>
    BY DEF Fifo!Init
  <2>1. PICK junk \in {e[0] : e \in Element} : data = Constructed(junk)
    BY DEF Init
  <2>2. size(data) = 0
    BY <2>1, LengthWord, HeaderWords DEF Constructed, size
  <2> QED BY <2>2 DEF Contents, ContentsOf
<1>2. RingOK /\ [Next]_qvars => [Fifo!Next]_Contents
  <2> SUFFICES ASSUME RingOK, [Next]_qvars PROVE [Fifo!Next]_Contents
    OBVIOUS
  <2>1. CASE \E e \in Element : enqueue(e)
    BY <2>1, EnqueueAppends DEF Fifo!Next
  <2>2. CASE dequeue
    BY <2>2, DequeueTakesFirst DEF Fifo!Next
  <2>3. CASE UNCHANGED data
    BY <2>3 DEF Contents, ContentsOf, size, addr, front_idx, capacity, read_element
  <2> QED BY <2>1, <2>2, <2>3 DEF Next, front, reset_nob, qvars
<1> QED BY <1>1, <1>2, RingInvariant, PTL DEF Spec, ImplementsFIFO, Fifo!Spec

\* front() returns the oldest element.
THEOREM FrontTheorem == Spec => FrontIsOldest
<1>1. RingOK /\ [Next]_qvars => [ret' # ret => ret' = Contents[1]]_qvars
  <2> SUFFICES ASSUME RingOK, front PROVE ret' = Contents[1]
    BY DEF Next, enqueue, dequeue, reset_nob, qvars
  <2>1. MetaOK(data) /\ data[1] = Word(Capacity, ElementSize)
    BY RingMeta DEF RingOK
  <2>2. ret' = read_element(data, Place(front_idx(data)))
    BY <2>1, HeaderWords DEF front, Place
  <2>3. front_idx(data) \in 0 .. Capacity - 1 /\ 0 \in 0 .. Capacity
    BY <2>1, SizesOfRing DEF MetaOK
  <2>4. Behind(data, 0) = front_idx(data)
    <3>1. Behind(data, 0) = IF front_idx(data) + 0 < Capacity THEN front_idx(data) + 0
                            ELSE front_idx(data) + 0 - Capacity
      BY <2>1, <2>3, BehindFacts
    <3> DEFINE f == front_idx(data)
    <3>2. f \in 0 .. Capacity - 1
      BY <2>3
    <3> HIDE DEF f
    <3>3. f + 0 = f /\ f < Capacity
      BY <3>2, SizesOfRing
    <3> QED BY <3>1, <3>3 DEF f
  <2>5. 1 \in 1 .. size(data) /\ 1 - 1 = 0
    BY RingFacts DEF front, empty
  <2> QED BY <2>1, <2>2, <2>4, <2>5, ContentsFacts DEF Contents
<1> QED BY <1>1, RingInvariant, PTL DEF Spec, FrontIsOldest

=============================================================================
