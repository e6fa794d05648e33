------------------------- MODULE LinkedBlocksProofs -------------------------
(***************************************************************************)
(* What the operations on the linked lists of LinkedBlocks do to the       *)
(* sequences of blocks that are linked.                                    *)
(***************************************************************************)
EXTENDS LinkedBlocks, IntegerDivision, SequenceTheorems, FunctionTheorems,
        FiniteSetTheorems, WellFoundedInduction

-----------------------------------------------------------------------------
(* Lists as sequences of blocks *)

\* The blocks of the sequence c are linked, in its order, into a list.
IsList(m, list, c) ==
  /\ begin_addr(m, list) = IF c = << >> THEN 0 ELSE c[1]
  /\ end_addr(m, list) = IF c = << >> THEN 0 ELSE c[Len(c)]
  /\ \A k \in 1 .. Len(c) :
       /\ get_block_prev_addr(m, c[k]) = IF k = 1 THEN 0 ELSE c[k - 1]
       /\ get_block_next_addr(m, c[k]) = IF k = Len(c) THEN 0 ELSE c[k + 1]

\* No block is in the sequence twice.
Distinct(c) == \A i, j \in 1 .. Len(c) : c[i] = c[j] => i = j

-----------------------------------------------------------------------------
(* The enumeration of a list *)

\* A set of naturals that is not empty has a least number.
LEMMA LeastNumber ==
  ASSUME NEW T \in SUBSET Nat, T # {}
  PROVE  \E x \in T : \A y \in T : x <= y
<1>1. PICK x \in T : \A y \in T : ~ (<<y, x>> \in OpToRel(<, Nat))
  <2>1. IsWellFoundedOn(OpToRel(<, Nat), Nat)
    BY NatLessThanWellFounded
  <2> QED BY <2>1, WFMin
<1>2. \A y \in T : ~ (y < x)
  BY <1>1 DEF OpToRel
<1>3. x \in T
  BY <1>1
<1>4. x \in Nat /\ \A y \in T : y \in Nat /\ x <= y
  BY <1>2, <1>3
<1> QED BY <1>3, <1>4

\* Walking the next addresses of a list yields its blocks in order.
LEMMA ChainOfList ==
  ASSUME NEW B, 0 \notin B, NEW c \in Seq(B), Len(c) <= Capacity,
         NEW m, NEW list, IsList(m, list, c)
  PROVE  Chain(m, list) = c
<1> DEFINE D == 1 .. Capacity + 1
           f == [k \in D |-> IF k <= Len(c) THEN c[k] ELSE 0]
           step(g, k) == IF k = 1 THEN begin_addr(m, list)
                         ELSE IF g[k - 1] = 0 THEN 0
                         ELSE get_block_next_addr(m, g[k - 1])
           at == CHOOSE g : g = [k \in D |-> step(g, k)]
<1>0. Capacity \in Nat \ {0} /\ Len(c) \in Nat
  BY BlocksAssumption
<1>1. \A k \in 1 .. Len(c) : c[k] \in B /\ c[k] # 0
  OBVIOUS
<1>2. \A k \in D : f[k] = step(f, k)
  <2> TAKE k \in D
  <2>1. CASE k = 1
    BY <1>0, <2>1 DEF IsList
  <2>2. CASE k # 1
    <3>1. k - 1 \in D /\ k - 1 \in Nat
      BY <1>0, <2>2
    <3>2. CASE k - 1 <= Len(c)
      <4>1. k - 1 \in 1 .. Len(c) /\ f[k - 1] = c[k - 1] /\ c[k - 1] # 0
        BY <1>0, <1>1, <2>2, <3>1, <3>2
      <4>2. get_block_next_addr(m, c[k - 1])
              = IF k - 1 = Len(c) THEN 0 ELSE c[k - 1 + 1]
        BY <4>1 DEF IsList
      <4> QED BY <1>0, <2>2, <3>2, <4>1, <4>2
    <3>3. CASE ~ (k - 1 <= Len(c))
      BY <1>0, <2>2, <3>1, <3>3
    <3> QED BY <3>2, <3>3
  <2> QED BY <2>1, <2>2
<1>3. at = [k \in D |-> step(at, k)]
  <2>1. f = [k \in D |-> step(f, k)]
    BY <1>2
  <2> HIDE DEF f
  <2> QED BY <2>1
<1>7. Chain(m, list)
        = [k \in 1 .. Cardinality({j \in D : at[j] # 0}) |-> at[k]]
  BY DEF Chain
<1> HIDE DEF at
<1>a. \A k \in D : at[k] = step(at, k)
  BY <1>3
<1> HIDE DEF f
<1>4. \A k \in D : at[k] = f[k]
  <2> DEFINE T == {k \in D : at[k] # f[k]}
  <2> SUFFICES ASSUME T # {}
               PROVE  FALSE
    OBVIOUS
  <2>1. T \in SUBSET Nat
    BY <1>0
  <2>2. PICK k \in T : \A y \in T : k <= y
    BY <2>1, LeastNumber
  <2>3. k \in D /\ at[k] # f[k]
    BY <2>2
  <2>4. at[k] = step(at, k) /\ f[k] = step(f, k)
    BY <1>2, <1>a, <2>3
  <2>5. CASE k = 1
    BY <2>3, <2>4, <2>5
  <2>6. CASE k # 1
    <3>1. k - 1 \in D /\ ~ (k <= k - 1)
      BY <1>0, <2>3, <2>6
    <3>2. at[k - 1] = f[k - 1]
      BY <2>2, <3>1
    <3> QED BY <2>3, <2>4, <2>6, <3>2
  <2> QED BY <2>5, <2>6
<1>5. {j \in D : at[j] # 0} = 1 .. Len(c)
  BY <1>0, <1>1, <1>4 DEF f
<1>6. Cardinality(1 .. Len(c)) = Len(c)
  <2>1. Cardinality(1 .. Len(c)) = IF 1 > Len(c) THEN 0 ELSE Len(c) - 1 + 1
    <3>1. 1 \in Int /\ Len(c) \in Int
      BY <1>0
    <3> QED BY ONLY <3>1, FS_Interval, Zenon
  <2> QED BY <1>0, <2>1
<1>8. \A k \in 1 .. Len(c) : at[k] = c[k]
  BY <1>0, <1>4 DEF f
<1>9. Chain(m, list) = [k \in 1 .. Len(c) |-> at[k]]
  BY <1>5, <1>6, <1>7
<1> QED BY <1>8, <1>9

-----------------------------------------------------------------------------
(* Words *)

\* The halves of a word.
Hi == -Half .. Half - 1
Lo == 0 .. Full - 1

\* The bounds of the fields, as what the proofs need of them.
LEMMA HalfOfFull == Half \in Nat \ {0} /\ Full \in Nat \ {0} /\ Half <= Full
  BY DEF Half, Full

\* Writing a word changes that word.
LEMMA SetAddr ==
  ASSUME NEW A, NEW m \in [A -> Words], NEW a \in A, NEW hi \in Hi, NEW lo \in Lo
  PROVE  /\ set_addr(m, a, hi, lo) \in [A -> Words]
         /\ set_addr(m, a, hi, lo)[a].hi = hi
         /\ set_addr(m, a, hi, lo)[a].lo = lo
         /\ \A x \in A : x # a => set_addr(m, a, hi, lo)[x] = m[x]
<1> DEFINE w == Word(hi, lo)
<1>1. w \in Words /\ w.hi = hi /\ w.lo = lo
  BY DEF Words, Word, Hi, Lo
<1>2. set_addr(m, a, hi, lo) = [m EXCEPT ![a] = w]
  BY DEF set_addr
<1> HIDE DEF w
<1> QED BY <1>1, <1>2

\* Writing the upper half of a word leaves the lower one.
LEMMA SetHi ==
  ASSUME NEW A, NEW m \in [A -> Words], NEW a \in A, NEW hi \in Hi
  PROVE  /\ set_hi(m, a, hi) \in [A -> Words]
         /\ set_hi(m, a, hi)[a].hi = hi
         /\ set_hi(m, a, hi)[a].lo = m[a].lo
         /\ \A x \in A : x # a => set_hi(m, a, hi)[x] = m[x]
<1>1. m[a].lo \in Lo
  BY DEF Words, Lo
<1> QED BY <1>1, SetAddr DEF set_hi

\* Writing the lower half of a word leaves the upper one.
LEMMA SetLo ==
  ASSUME NEW A, NEW m \in [A -> Words], NEW a \in A, NEW lo \in Lo
  PROVE  /\ set_lo(m, a, lo) \in [A -> Words]
         /\ set_lo(m, a, lo)[a].hi = m[a].hi
         /\ set_lo(m, a, lo)[a].lo = lo
         /\ \A x \in A : x # a => set_lo(m, a, lo)[x] = m[x]
<1>1. m[a].hi \in Hi
  BY DEF Words, Hi
<1> QED BY <1>1, SetAddr DEF set_lo

-----------------------------------------------------------------------------
(* The operations on one list *)

\* The sequence without its i-th block, and with the block b as its i-th.
Removal(c, i) == [j \in 1 .. Len(c) - 1 |-> IF j < i THEN c[j] ELSE c[j + 1]]
Insertion(c, i, b) ==
  [j \in 1 .. Len(c) + 1 |->
     IF j < i THEN c[j] ELSE IF j = i THEN b ELSE c[j - 1]]

\* A removal takes one place away and moves those behind it up.
LEMMA RemovalFacts ==
  ASSUME NEW B, NEW c \in Seq(B), NEW i \in 1 .. Len(c)
  PROVE  /\ Removal(c, i) \in Seq(B)
         /\ Len(Removal(c, i)) = Len(c) - 1
         /\ Removal(c, i) = << >> <=> Len(c) = 1
         /\ \A j \in 1 .. Len(c) - 1 :
              Removal(c, i)[j] = IF j < i THEN c[j] ELSE c[j + 1]
         /\ Distinct(c) => Distinct(Removal(c, i))
<1> DEFINE n == Len(c) - 1
           d == Removal(c, i)
           e(j) == IF j < i THEN c[j] ELSE c[j + 1]
<1>1. n \in Nat /\ Len(c) \in Nat
  OBVIOUS
<1>2. \A j \in 1 .. n : e(j) \in B
  <2> TAKE j \in 1 .. n
  <2>1. j \in 1 .. Len(c) /\ j + 1 \in 1 .. Len(c)
    BY <1>1
  <2>2. c[j] \in B /\ c[j + 1] \in B
    BY <2>1
  <2> QED BY <2>2
<1>3. d = [j \in 1 .. n |-> e(j)]
  BY DEF Removal
<1>4. \A j \in 1 .. n : d[j] = e(j)
  BY <1>3
<1> HIDE DEF n
<1>5. d \in Seq(B) /\ Len(d) = n
  <2> HIDE DEF e, d
  <2> QED BY <1>1, <1>2, <1>3
<1>6. d = << >> <=> n = 0
  <2> HIDE DEF d
  <2> QED BY <1>5
<1>7. ASSUME Distinct(c) PROVE Distinct(d)
  <2> HIDE DEF d
  <2> SUFFICES ASSUME NEW j \in 1 .. n, NEW k \in 1 .. n, e(j) = e(k)
               PROVE  j = k
    BY <1>4, <1>5 DEF Distinct
  <2>1. /\ j \in 1 .. Len(c) /\ j + 1 \in 1 .. Len(c)
        /\ k \in 1 .. Len(c) /\ k + 1 \in 1 .. Len(c)
    BY <1>1 DEF n
  <2>2. \A x, y \in 1 .. Len(c) : c[x] = c[y] => x = y
    BY <1>7 DEF Distinct
  <2> QED BY <2>1, <2>2
<1> QED BY <1>1, <1>4, <1>5, <1>6, <1>7 DEF n

\* An insertion moves the places from the i-th on down.
LEMMA InsertionFacts ==
  ASSUME NEW B, NEW c \in Seq(B), NEW i \in 1 .. Len(c) + 1, NEW b \in B,
         \A k \in 1 .. Len(c) : c[k] # b
  PROVE  /\ Insertion(c, i, b) \in Seq(B)
         /\ Len(Insertion(c, i, b)) = Len(c) + 1
         /\ \A j \in 1 .. Len(c) + 1 :
              Insertion(c, i, b)[j]
                = IF j < i THEN c[j] ELSE IF j = i THEN b ELSE c[j - 1]
         /\ Distinct(c) => Distinct(Insertion(c, i, b))
<1> DEFINE n == Len(c) + 1
           d == Insertion(c, i, b)
           e(j) == IF j < i THEN c[j] ELSE IF j = i THEN b ELSE c[j - 1]
<1>1. n \in Nat /\ Len(c) \in Nat
  OBVIOUS
<1>2. \A j \in 1 .. n : e(j) \in B
  <2> TAKE j \in 1 .. n
  <2>1. j < i => j \in 1 .. Len(c) /\ c[j] \in B
    BY <1>1
  <2>2. j > i => j - 1 \in 1 .. Len(c) /\ c[j - 1] \in B
    BY <1>1
  <2> QED BY <2>1, <2>2
<1>3. d = [j \in 1 .. n |-> e(j)]
  BY DEF Insertion
<1>4. \A j \in 1 .. n : d[j] = e(j)
  BY <1>3
<1> HIDE DEF n
<1>5. d \in Seq(B) /\ Len(d) = n
  <2> HIDE DEF e, d
  <2> QED BY <1>1, <1>2, <1>3
<1>6. ASSUME Distinct(c) PROVE Distinct(d)
  <2> HIDE DEF d
  <2> SUFFICES ASSUME NEW j \in 1 .. n, NEW k \in 1 .. n, e(j) = e(k)
               PROVE  j = k
    BY <1>4, <1>5 DEF Distinct
  <2>1. /\ j < i => j \in 1 .. Len(c)
        /\ j > i => j - 1 \in 1 .. Len(c)
        /\ k < i => k \in 1 .. Len(c)
        /\ k > i => k - 1 \in 1 .. Len(c)
    BY <1>1 DEF n
  <2>2. \A x, y \in 1 .. Len(c) : c[x] = c[y] => x = y
    BY <1>6 DEF Distinct
  <2> QED BY <2>1, <2>2
<1> QED BY <1>1, <1>4, <1>5, <1>6 DEF n

\* The list at address list of the array m links the blocks c; it lies among
\* the words A, and its addresses fit their fields.
ListAt(A, B, m, list, c) ==
  /\ m \in [A -> Words]
  /\ B \subseteq A /\ B \subseteq 1 .. Half - 1
  /\ list \in A \ B
  /\ c \in Seq(B) /\ Distinct(c)
  /\ IsList(m, list, c)

\* Only the word of the list and those of its blocks have changed.
OnlyList(A, m, n, list, c) ==
  \A x \in A : x # list /\ (\A k \in 1 .. Len(c) : x # c[k]) => n[x] = m[x]

\* What a list that is not empty looks like at its ends.
LEMMA Ends ==
  ASSUME NEW A, NEW B, NEW m, NEW list, NEW c, ListAt(A, B, m, list, c)
  PROVE  /\ Len(c) \in Nat
         /\ \A k \in 1 .. Len(c) : c[k] \in B /\ c[k] \in A /\ c[k] # list
                                   /\ c[k] \in Hi /\ c[k] \in Lo /\ c[k] # 0
         /\ 0 \in Hi /\ 0 \in Lo
         /\ c # << >> <=> Len(c) > 0
         /\ begin_addr(m, list) = IF Len(c) = 0 THEN 0 ELSE c[1]
         /\ end_addr(m, list) = IF Len(c) = 0 THEN 0 ELSE c[Len(c)]
<1>1. Len(c) \in Nat /\ (c # << >> <=> Len(c) > 0) /\ (c = << >> <=> Len(c) = 0)
  BY DEF ListAt
<1>2. \A k \in 1 .. Len(c) : c[k] \in B
  BY DEF ListAt
<1>3. \A b \in B : b \in A /\ b # list /\ b \in Hi /\ b \in Lo /\ b # 0
  <2>1. B \subseteq A /\ B \subseteq 1 .. Half - 1 /\ list \notin B
    BY DEF ListAt
  <2>2. \A x \in 1 .. Half - 1 : x \in Hi /\ x \in Lo /\ x # 0
    BY HalfOfFull DEF Hi, Lo
  <2> QED BY <2>1, <2>2
<1>4. 0 \in Hi /\ 0 \in Lo
  BY HalfOfFull DEF Hi, Lo
<1> QED BY <1>1, <1>2, <1>3, <1>4 DEF ListAt, IsList

\* Taking the first block off a list leaves the others linked.
LEMMA TakeFirstTakes ==
  ASSUME NEW A, NEW B, NEW m, NEW list, NEW c, ListAt(A, B, m, list, c),
         c # << >>
  PROVE  /\ ListAt(A, B, TakeFirst(m, list), list, Removal(c, 1))
         /\ OnlyList(A, m, TakeFirst(m, list), list, c)
<1> DEFINE len == Len(c)
           n == TakeFirst(m, list)
           d == Removal(c, 1)
<1>1. len \in Nat \ {0} /\ m \in [A -> Words] /\ list \in A
  BY Ends DEF ListAt
<1>2. \A k \in 1 .. len : c[k] \in B /\ c[k] \in A /\ c[k] # list
                          /\ c[k] \in Hi /\ c[k] \in Lo /\ c[k] # 0
  BY Ends
<1>3. begin_addr(m, list) = c[1] /\ end_addr(m, list) = c[len]
  BY <1>1, Ends
<1>4. \A k \in 1 .. len :
        /\ m[c[k]].hi = IF k = 1 THEN 0 ELSE c[k - 1]
        /\ m[c[k]].lo = IF k = len THEN 0 ELSE c[k + 1]
  BY DEF ListAt, IsList, get_block_prev_addr, get_block_next_addr
<1>5. \A i, j \in 1 .. len : c[i] = c[j] => i = j
  BY DEF ListAt, Distinct
<1>6. 0 \in Hi /\ 0 \in Lo
  BY Ends
<1>7. d \in Seq(B) /\ Len(d) = len - 1 /\ (d = << >> <=> len = 1)
      /\ \A j \in 1 .. len - 1 : d[j] = c[j + 1]
  <2>1. c \in Seq(B) /\ 1 \in 1 .. len
    BY <1>1 DEF ListAt
  <2>2. /\ d \in Seq(B) /\ Len(d) = len - 1 /\ (d = << >> <=> len = 1)
        /\ \A j \in 1 .. len - 1 : d[j] = IF j < 1 THEN c[j] ELSE c[j + 1]
    BY <2>1, RemovalFacts
  <2> QED BY <2>2
<1>8. Distinct(d)
  <2>1. c \in Seq(B) /\ 1 \in 1 .. len /\ Distinct(c)
    BY <1>1 DEF ListAt
  <2> QED BY <2>1, RemovalFacts
<1>9. /\ n \in [A -> Words]
      /\ IsList(n, list, d)
      /\ OnlyList(A, m, n, list, c)
  <2>1. CASE len = 1
    <3>1. m[c[1]].lo = 0
      BY <1>4, <2>1
    <3>2. n = set_addr(m, list, 0, 0)
      BY <1>3, <3>1 DEF TakeFirst, get_block_next_addr
    <3>3. /\ n \in [A -> Words]
          /\ n[list].hi = 0 /\ n[list].lo = 0
          /\ \A x \in A : x # list => n[x] = m[x]
      BY <1>1, <1>6, <3>2, SetAddr
    <3> HIDE DEF n, d
    <3> QED BY <1>1, <1>7, <2>1, <3>3
        DEF IsList, OnlyList, begin_addr, end_addr
  <2>2. CASE len > 1
    <3> DEFINE p == set_hi(m, c[2], 0)
    <3>1. m[c[1]].lo = c[2] /\ c[2] # 0 /\ 2 \in 1 .. len
      <4>1. 1 \in 1 .. len /\ 2 \in 1 .. len
        BY <1>1, <2>2
      <4>2. m[c[1]].lo = IF 1 = len THEN 0 ELSE c[1 + 1]
        BY <1>4, <4>1
      <4> QED BY <1>2, <2>2, <4>1, <4>2
    <3>2. n = set_hi(p, list, c[2])
      BY <1>3, <3>1 DEF TakeFirst, get_block_next_addr
    <3>3. /\ p \in [A -> Words]
          /\ p[c[2]].hi = 0 /\ p[c[2]].lo = m[c[2]].lo
          /\ \A x \in A : x # c[2] => p[x] = m[x]
      BY <1>1, <1>2, <1>6, <3>1, SetHi
    <3> HIDE DEF p
    <3>4. /\ n \in [A -> Words]
          /\ n[list].hi = c[2] /\ n[list].lo = p[list].lo
          /\ \A x \in A : x # list => n[x] = p[x]
      BY <1>1, <1>2, <3>1, <3>2, <3>3, SetHi
    <3> HIDE DEF n, d
    <3>5. n[list].hi = d[1] /\ n[list].lo = d[len - 1]
      BY <1>1, <1>2, <1>3, <1>7, <2>2, <3>1, <3>3, <3>4 DEF end_addr
    <3>6. \A j \in 1 .. len - 1 :
            /\ n[d[j]].hi = IF j = 1 THEN 0 ELSE d[j - 1]
            /\ n[d[j]].lo = IF j = len - 1 THEN 0 ELSE d[j + 1]
      <4> TAKE j \in 1 .. len - 1
      <4>1. d[j] = c[j + 1] /\ j + 1 \in 1 .. len /\ j \in 1 .. len
            /\ (j + 1 = len <=> j = len - 1) /\ j + 1 # 1
            /\ (j + 1) - 1 = j /\ (j # 1 => d[j - 1] = c[j])
            /\ (j # len - 1 => d[j + 1] = c[j + 1 + 1])
        BY <1>1, <1>7
      <4>2. n[d[j]] = p[c[j + 1]]
        BY <1>2, <3>4, <4>1
      <4>3. m[c[j + 1]].hi = c[j]
            /\ m[c[j + 1]].lo = IF j = len - 1 THEN 0 ELSE c[j + 1 + 1]
        BY <1>4, <4>1
      <4>4. CASE j = 1
        BY <3>3, <4>1, <4>2, <4>3, <4>4
      <4>5. CASE j # 1
        <5>1. c[j + 1] # c[2]
          BY <1>1, <1>5, <3>1, <4>1, <4>5
        <5> QED BY <1>2, <3>3, <4>1, <4>2, <4>3, <4>5, <5>1
      <4> QED BY <4>4, <4>5
    <3>7. IsList(n, list, d)
      BY <1>1, <1>7, <2>2, <3>5, <3>6
      DEF IsList, begin_addr, end_addr, get_block_prev_addr, get_block_next_addr
    <3>8. OnlyList(A, m, n, list, c)
      BY <3>1, <3>3, <3>4 DEF OnlyList
    <3> QED BY <3>4, <3>7, <3>8
  <2>3. len = 1 \/ len > 1
    <3> HIDE DEF len
    <3> QED BY <1>1
  <2> QED BY <2>1, <2>2, <2>3
<1> QED BY <1>7, <1>8, <1>9 DEF ListAt

\* Taking the last block off a list leaves the others linked.
LEMMA TakeLastTakes ==
  ASSUME NEW A, NEW B, NEW m, NEW list, NEW c, ListAt(A, B, m, list, c),
         c # << >>
  PROVE  /\ ListAt(A, B, TakeLast(m, list), list, Removal(c, Len(c)))
         /\ OnlyList(A, m, TakeLast(m, list), list, c)
<1> DEFINE len == Len(c)
           n == TakeLast(m, list)
           d == Removal(c, len)
<1>1. len \in Nat \ {0} /\ m \in [A -> Words] /\ list \in A
  BY Ends DEF ListAt
<1>2. \A k \in 1 .. len : c[k] \in B /\ c[k] \in A /\ c[k] # list
                          /\ c[k] \in Hi /\ c[k] \in Lo /\ c[k] # 0
  BY Ends
<1>3. begin_addr(m, list) = c[1] /\ end_addr(m, list) = c[len]
  BY <1>1, Ends
<1>4. \A k \in 1 .. len :
        /\ m[c[k]].hi = IF k = 1 THEN 0 ELSE c[k - 1]
        /\ m[c[k]].lo = IF k = len THEN 0 ELSE c[k + 1]
  BY DEF ListAt, IsList, get_block_prev_addr, get_block_next_addr
<1>5. \A i, j \in 1 .. len : c[i] = c[j] => i = j
  BY DEF ListAt, Distinct
<1>6. 0 \in Hi /\ 0 \in Lo
  BY Ends
<1>7. d \in Seq(B) /\ Len(d) = len - 1 /\ (d = << >> <=> len = 1)
      /\ \A j \in 1 .. len - 1 : d[j] = c[j]
  <2>1. c \in Seq(B) /\ len \in 1 .. len
    BY <1>1 DEF ListAt
  <2>2. /\ d \in Seq(B) /\ Len(d) = len - 1 /\ (d = << >> <=> len = 1)
        /\ \A j \in 1 .. len - 1 : d[j] = IF j < len THEN c[j] ELSE c[j + 1]
    BY <2>1, RemovalFacts
  <2> QED BY <1>1, <2>2
<1>8. Distinct(d)
  <2>1. c \in Seq(B) /\ len \in 1 .. len /\ Distinct(c)
    BY <1>1 DEF ListAt
  <2> QED BY <2>1, RemovalFacts
<1>9. /\ n \in [A -> Words]
      /\ IsList(n, list, d)
      /\ OnlyList(A, m, n, list, c)
  <2>1. CASE len = 1
    <3>1. m[c[len]].hi = 0
      BY <1>4, <2>1
    <3>2. n = set_addr(m, list, 0, 0)
      BY <1>3, <3>1 DEF TakeLast, get_block_prev_addr
    <3>3. /\ n \in [A -> Words]
          /\ n[list].hi = 0 /\ n[list].lo = 0
          /\ \A x \in A : x # list => n[x] = m[x]
      BY <1>1, <1>6, <3>2, SetAddr
    <3> HIDE DEF n, d
    <3> QED BY <1>1, <1>7, <2>1, <3>3
        DEF IsList, OnlyList, begin_addr, end_addr
  <2>2. CASE len > 1
    <3> DEFINE p == set_lo(m, c[len - 1], 0)
    <3>1. m[c[len]].hi = c[len - 1] /\ c[len - 1] # 0 /\ len - 1 \in 1 .. len
      <4>1. len \in 1 .. len /\ len - 1 \in 1 .. len
        BY <1>1, <2>2
      <4>2. m[c[len]].hi = IF len = 1 THEN 0 ELSE c[len - 1]
        BY <1>4, <4>1
      <4> QED BY <1>2, <2>2, <4>1, <4>2
    <3>2. n = set_lo(p, list, c[len - 1])
      BY <1>3, <3>1 DEF TakeLast, get_block_prev_addr
    <3>3. /\ p \in [A -> Words]
          /\ p[c[len - 1]].lo = 0 /\ p[c[len - 1]].hi = m[c[len - 1]].hi
          /\ \A x \in A : x # c[len - 1] => p[x] = m[x]
      BY <1>1, <1>2, <1>6, <3>1, SetLo
    <3> HIDE DEF p
    <3>4. /\ n \in [A -> Words]
          /\ n[list].lo = c[len - 1] /\ n[list].hi = p[list].hi
          /\ \A x \in A : x # list => n[x] = p[x]
      BY <1>1, <1>2, <3>1, <3>2, <3>3, SetLo
    <3> HIDE DEF n, d
    <3>5. n[list].hi = d[1] /\ n[list].lo = d[len - 1]
      BY <1>1, <1>2, <1>3, <1>7, <2>2, <3>1, <3>3, <3>4 DEF begin_addr
    <3>6. \A j \in 1 .. len - 1 :
            /\ n[d[j]].hi = IF j = 1 THEN 0 ELSE d[j - 1]
            /\ n[d[j]].lo = IF j = len - 1 THEN 0 ELSE d[j + 1]
      <4> TAKE j \in 1 .. len - 1
      <4>1. d[j] = c[j] /\ j \in 1 .. len /\ j # len
            /\ (j # 1 => d[j - 1] = c[j - 1])
            /\ (j # len - 1 => d[j + 1] = c[j + 1])
        BY <1>1, <1>7
      <4>2. n[d[j]] = p[c[j]]
        BY <1>2, <3>4, <4>1
      <4>3. m[c[j]].lo = c[j + 1]
            /\ m[c[j]].hi = IF j = 1 THEN 0 ELSE c[j - 1]
        BY <1>4, <4>1
      <4>4. CASE j = len - 1
        BY <3>3, <4>1, <4>2, <4>3, <4>4
      <4>5. CASE j # len - 1
        <5>1. c[j] # c[len - 1]
          BY <1>1, <1>5, <3>1, <4>1, <4>5
        <5> QED BY <1>2, <3>3, <4>1, <4>2, <4>3, <4>5, <5>1
      <4> QED BY <4>4, <4>5
    <3>7. IsList(n, list, d)
      BY <1>1, <1>7, <2>2, <3>5, <3>6
      DEF IsList, begin_addr, end_addr, get_block_prev_addr, get_block_next_addr
    <3>8. OnlyList(A, m, n, list, c)
      BY <3>1, <3>3, <3>4 DEF OnlyList
    <3> QED BY <3>4, <3>7, <3>8
  <2>3. len = 1 \/ len > 1
    <3> HIDE DEF len
    <3> QED BY <1>1
  <2> QED BY <2>1, <2>2, <2>3
<1> QED BY <1>7, <1>8, <1>9 DEF ListAt

\* Putting a block before the first one of a list links it before them all.
LEMMA PutFirstPuts ==
  ASSUME NEW A, NEW B, NEW m, NEW list, NEW c, ListAt(A, B, m, list, c),
         NEW a \in B, \A k \in 1 .. Len(c) : c[k] # a
  PROVE  /\ ListAt(A, B, PutFirst(m, list, a), list, Insertion(c, 1, a))
         /\ OnlyList(A, m, PutFirst(m, list, a), list, Insertion(c, 1, a))
<1> DEFINE len == Len(c)
           n == PutFirst(m, list, a)
           d == Insertion(c, 1, a)
<1>1. len \in Nat /\ m \in [A -> Words] /\ list \in A
  BY Ends DEF ListAt
<1>2. /\ \A k \in 1 .. len : c[k] \in A /\ c[k] # list /\ c[k] # a
                            /\ c[k] \in Hi /\ c[k] \in Lo /\ c[k] # 0
      /\ a \in A /\ a # list /\ a \in Hi /\ a \in Lo
  <2>1. \A k \in 1 .. len : c[k] \in A /\ c[k] # list /\ c[k] # a
                          /\ c[k] \in Hi /\ c[k] \in Lo /\ c[k] # 0
    BY Ends
  <2>2. a \in A /\ a # list /\ a \in 1 .. Half - 1
    BY DEF ListAt
  <2>3. a \in Hi /\ a \in Lo
    BY <2>2, HalfOfFull DEF Hi, Lo
  <2> QED BY <2>1, <2>2, <2>3
<1>3. /\ begin_addr(m, list) = IF len = 0 THEN 0 ELSE c[1]
      /\ end_addr(m, list) = IF len = 0 THEN 0 ELSE c[len]
  BY Ends
<1>4. \A k \in 1 .. len :
        /\ m[c[k]].hi = IF k = 1 THEN 0 ELSE c[k - 1]
        /\ m[c[k]].lo = IF k = len THEN 0 ELSE c[k + 1]
  BY DEF ListAt, IsList, get_block_prev_addr, get_block_next_addr
<1>5. \A i, j \in 1 .. len : c[i] = c[j] => i = j
  BY DEF ListAt, Distinct
<1>6. 0 \in Hi /\ 0 \in Lo
  BY Ends
<1>7. /\ d \in Seq(B) /\ Len(d) = len + 1 /\ d # << >>
      /\ \A j \in 1 .. len + 1 :
           d[j] = IF j < 1 THEN c[j] ELSE IF j = 1 THEN a ELSE c[j - 1]
  <2>1. c \in Seq(B) /\ 1 \in 1 .. len + 1
    BY <1>1 DEF ListAt
  <2>2. /\ d \in Seq(B) /\ Len(d) = len + 1
        /\ \A j \in 1 .. len + 1 :
             d[j] = IF j < 1 THEN c[j] ELSE IF j = 1 THEN a ELSE c[j - 1]
    BY <2>1, InsertionFacts
  <2>3. d # << >>
    <3> HIDE DEF d, len
    <3> QED BY <1>1, <2>2
  <2> QED BY <2>2, <2>3
<1>8. Distinct(d)
  <2>1. c \in Seq(B) /\ 1 \in 1 .. len + 1 /\ Distinct(c)
    BY <1>1 DEF ListAt
  <2> QED BY <2>1, InsertionFacts
<1> HIDE DEF len
<1>9. /\ n \in [A -> Words]
      /\ IsList(n, list, d)
      /\ OnlyList(A, m, n, list, d)
  <2>1. CASE len = 0
    <3> DEFINE p == set_addr(m, a, 0, 0)
    <3>1. n = set_addr(p, list, a, a)
      BY <1>3, <2>1 DEF PutFirst
    <3>2. /\ p \in [A -> Words] /\ p[a].hi = 0 /\ p[a].lo = 0
          /\ \A x \in A : x # a => p[x] = m[x]
      BY <1>1, <1>2, <1>6, SetAddr
    <3> HIDE DEF p
    <3>3. /\ n \in [A -> Words]
          /\ n[list].hi = a /\ n[list].lo = a
          /\ \A x \in A : x # list => n[x] = p[x]
      BY <1>1, <1>2, <3>1, <3>2, SetAddr
    <3> HIDE DEF n, d
    <3>4. Len(d) = 1 /\ d[1] = a
      BY <1>7, <2>1
    <3>5. n[a].hi = 0 /\ n[a].lo = 0
      BY <1>2, <3>2, <3>3
    <3>e. \A k \in 1 .. Len(d) : k = 1 /\ k = Len(d)
      BY <3>4
    <3>6. IsList(n, list, d)
      BY <1>7, <3>3, <3>4, <3>5, <3>e
      DEF IsList, begin_addr, end_addr, get_block_prev_addr, get_block_next_addr
    <3>7. OnlyList(A, m, n, list, d)
      BY <3>2, <3>3, <3>4 DEF OnlyList
    <3> QED BY <3>3, <3>6, <3>7
  <2>2. CASE len > 0
    <3> DEFINE p == set_hi(m, c[1], a)
               q == set_addr(p, a, 0, c[1])
    <3>1. 1 \in 1 .. len /\ len \in 1 .. len
      BY <1>1, <2>2
    <3>2. n = set_hi(q, list, a)
      BY <1>2, <1>3, <2>2, <3>1 DEF PutFirst
    <3>3. /\ p \in [A -> Words]
          /\ p[c[1]].hi = a /\ p[c[1]].lo = m[c[1]].lo
          /\ \A x \in A : x # c[1] => p[x] = m[x]
      BY <1>1, <1>2, <3>1, SetHi
    <3> HIDE DEF p
    <3>4. /\ q \in [A -> Words]
          /\ q[a].hi = 0 /\ q[a].lo = c[1]
          /\ \A x \in A : x # a => q[x] = p[x]
      BY <1>2, <1>6, <3>1, <3>3, SetAddr
    <3> HIDE DEF q
    <3>5. /\ n \in [A -> Words]
          /\ n[list].hi = a /\ n[list].lo = q[list].lo
          /\ \A x \in A : x # list => n[x] = q[x]
      BY <1>1, <1>2, <3>2, <3>4, SetHi
    <3> HIDE DEF n, d
    <3>6. n[list].hi = d[1] /\ n[list].lo = d[len + 1]
      BY <1>1, <1>2, <1>3, <1>7, <2>2, <3>1, <3>3, <3>4, <3>5 DEF end_addr
    <3>7. \A j \in 1 .. len + 1 :
            /\ n[d[j]].hi = IF j = 1 THEN 0 ELSE d[j - 1]
            /\ n[d[j]].lo = IF j = len + 1 THEN 0 ELSE d[j + 1]
      <4> TAKE j \in 1 .. len + 1
      <4>1. CASE j = 1
        <5>1. d[1] = a /\ d[2] = c[1] /\ 2 \in 1 .. len + 1
          BY <1>1, <1>7, <2>2
        <5>2. n[a] = q[a]
          BY <1>2, <3>5
        <5> QED BY <1>1, <2>2, <3>4, <4>1, <5>1, <5>2
      <4>2. CASE j > 1
        <5> DEFINE k == j - 1
        <5>1. k \in 1 .. len /\ j = k + 1 /\ j # 1
          BY <1>1, <4>2
        <5> HIDE DEF k
        <5>2. /\ d[j] = c[k] /\ d[j - 1] = (IF k = 1 THEN a ELSE c[k - 1])
              /\ (k # len => d[j + 1] = c[k + 1])
          BY <1>1, <1>7, <5>1
        <5>3. /\ m[c[k]].hi = IF k = 1 THEN 0 ELSE c[k - 1]
              /\ m[c[k]].lo = IF k = len THEN 0 ELSE c[k + 1]
          BY <1>4, <5>1
        <5>4. n[c[k]] = p[c[k]]
          BY <1>2, <3>4, <3>5, <5>1
        <5>5. CASE k = 1
          BY <1>1, <3>3, <5>1, <5>2, <5>3, <5>4, <5>5
        <5>6. CASE k # 1
          <6>1. c[k] # c[1]
            BY <1>5, <3>1, <5>1, <5>6
          <6> QED BY <1>1, <1>2, <3>3, <5>1, <5>2, <5>3, <5>4, <5>6, <6>1
        <5> QED BY <5>5, <5>6
      <4> QED BY <1>1, <4>1, <4>2
    <3>8. IsList(n, list, d)
      BY <1>1, <1>7, <2>2, <3>6, <3>7
      DEF IsList, begin_addr, end_addr, get_block_prev_addr, get_block_next_addr
    <3>9. (\E k \in 1 .. Len(d) : d[k] = a) /\ (\E k \in 1 .. Len(d) : d[k] = c[1])
      <4>1. d[1] = a /\ 1 \in 1 .. len + 1
        BY <1>1, <1>7, <2>2
      <4>2. d[2] = c[1] /\ 2 \in 1 .. len + 1
        BY <1>1, <1>7, <2>2
      <4> QED BY <1>7, <4>1, <4>2
    <3>10. OnlyList(A, m, n, list, d)
      BY <1>7, <3>3, <3>4, <3>5, <3>9 DEF OnlyList
    <3> QED BY <3>5, <3>8, <3>10
  <2>3. len = 0 \/ len > 0
    BY <1>1
  <2> QED BY <2>1, <2>2, <2>3
<1> HIDE DEF n, d
<1>10. ListAt(A, B, n, list, d)
  BY <1>7, <1>8, <1>9 DEF ListAt
<1> QED BY <1>9, <1>10 DEF len, n, d

\* Putting a block behind the last one of a list links it behind them all.
LEMMA PutLastPuts ==
  ASSUME NEW A, NEW B, NEW m, NEW list, NEW c, ListAt(A, B, m, list, c),
         NEW a \in B, \A k \in 1 .. Len(c) : c[k] # a
  PROVE  /\ ListAt(A, B, PutLast(m, list, a), list, Insertion(c, Len(c) + 1, a))
         /\ OnlyList(A, m, PutLast(m, list, a), list, Insertion(c, Len(c) + 1, a))
<1> DEFINE len == Len(c)
           n == PutLast(m, list, a)
           d == Insertion(c, len + 1, a)
<1>1. len \in Nat /\ m \in [A -> Words] /\ list \in A
  BY Ends DEF ListAt
<1>2. /\ \A k \in 1 .. len : c[k] \in A /\ c[k] # list /\ c[k] # a
                            /\ c[k] \in Hi /\ c[k] \in Lo /\ c[k] # 0
      /\ a \in A /\ a # list /\ a \in Hi /\ a \in Lo
  <2>1. \A k \in 1 .. len : c[k] \in A /\ c[k] # list /\ c[k] # a
                          /\ c[k] \in Hi /\ c[k] \in Lo /\ c[k] # 0
    BY Ends
  <2>2. a \in A /\ a # list /\ a \in 1 .. Half - 1
    BY DEF ListAt
  <2>3. a \in Hi /\ a \in Lo
    BY <2>2, HalfOfFull DEF Hi, Lo
  <2> QED BY <2>1, <2>2, <2>3
<1>3. /\ begin_addr(m, list) = IF len = 0 THEN 0 ELSE c[1]
      /\ end_addr(m, list) = IF len = 0 THEN 0 ELSE c[len]
  BY Ends
<1>4. \A k \in 1 .. len :
        /\ m[c[k]].hi = IF k = 1 THEN 0 ELSE c[k - 1]
        /\ m[c[k]].lo = IF k = len THEN 0 ELSE c[k + 1]
  BY DEF ListAt, IsList, get_block_prev_addr, get_block_next_addr
<1>5. \A i, j \in 1 .. len : c[i] = c[j] => i = j
  BY DEF ListAt, Distinct
<1>6. 0 \in Hi /\ 0 \in Lo
  BY Ends
<1>7. /\ d \in Seq(B) /\ Len(d) = len + 1 /\ d # << >>
      /\ \A j \in 1 .. len + 1 :
           d[j] = IF j < len + 1 THEN c[j] ELSE IF j = len + 1 THEN a ELSE c[j - 1]
  <2>1. c \in Seq(B) /\ len + 1 \in 1 .. len + 1
    BY <1>1 DEF ListAt
  <2>2. /\ d \in Seq(B) /\ Len(d) = len + 1
        /\ \A j \in 1 .. len + 1 :
             d[j] = IF j < len + 1 THEN c[j] ELSE IF j = len + 1 THEN a ELSE c[j - 1]
    BY <2>1, InsertionFacts
  <2>3. d # << >>
    <3> HIDE DEF d, len
    <3> QED BY <1>1, <2>2
  <2> QED BY <2>2, <2>3
<1>8. Distinct(d)
  <2>1. c \in Seq(B) /\ len + 1 \in 1 .. len + 1 /\ Distinct(c)
    BY <1>1 DEF ListAt
  <2> QED BY <2>1, InsertionFacts
<1> HIDE DEF len
<1>9. /\ n \in [A -> Words]
      /\ IsList(n, list, d)
      /\ OnlyList(A, m, n, list, d)
  <2>1. CASE len = 0
    <3> DEFINE p == set_addr(m, a, 0, 0)
    <3>1. n = set_addr(p, list, a, a)
      BY <1>3, <2>1 DEF PutLast
    <3>2. /\ p \in [A -> Words] /\ p[a].hi = 0 /\ p[a].lo = 0
          /\ \A x \in A : x # a => p[x] = m[x]
      BY <1>1, <1>2, <1>6, SetAddr
    <3> HIDE DEF p
    <3>3. /\ n \in [A -> Words]
          /\ n[list].hi = a /\ n[list].lo = a
          /\ \A x \in A : x # list => n[x] = p[x]
      BY <1>1, <1>2, <3>1, <3>2, SetAddr
    <3> HIDE DEF n, d
    <3>4. Len(d) = 1 /\ d[1] = a
      BY <1>7, <2>1
    <3>5. n[a].hi = 0 /\ n[a].lo = 0
      BY <1>2, <3>2, <3>3
    <3>e. \A k \in 1 .. Len(d) : k = 1 /\ k = Len(d)
      BY <3>4
    <3>6. IsList(n, list, d)
      BY <1>7, <3>3, <3>4, <3>5, <3>e
      DEF IsList, begin_addr, end_addr, get_block_prev_addr, get_block_next_addr
    <3>7. OnlyList(A, m, n, list, d)
      BY <3>2, <3>3, <3>4 DEF OnlyList
    <3> QED BY <3>3, <3>6, <3>7
  <2>2. CASE len > 0
    <3> DEFINE p == set_lo(m, c[len], a)
               q == set_addr(p, a, c[len], 0)
    <3>1. 1 \in 1 .. len /\ len \in 1 .. len
      BY <1>1, <2>2
    <3>2. n = set_lo(q, list, a)
      BY <1>2, <1>3, <2>2, <3>1 DEF PutLast
    <3>3. /\ p \in [A -> Words]
          /\ p[c[len]].lo = a /\ p[c[len]].hi = m[c[len]].hi
          /\ \A x \in A : x # c[len] => p[x] = m[x]
      BY <1>1, <1>2, <3>1, SetLo
    <3> HIDE DEF p
    <3>4. /\ q \in [A -> Words]
          /\ q[a].hi = c[len] /\ q[a].lo = 0
          /\ \A x \in A : x # a => q[x] = p[x]
      BY <1>2, <1>6, <3>1, <3>3, SetAddr
    <3> HIDE DEF q
    <3>5. /\ n \in [A -> Words]
          /\ n[list].lo = a /\ n[list].hi = q[list].hi
          /\ \A x \in A : x # list => n[x] = q[x]
      BY <1>1, <1>2, <3>2, <3>4, SetLo
    <3> HIDE DEF n, d
    <3>6. n[list].hi = d[1] /\ n[list].lo = d[len + 1]
      BY <1>1, <1>2, <1>3, <1>7, <2>2, <3>1, <3>3, <3>4, <3>5 DEF begin_addr
    <3>7. \A j \in 1 .. len + 1 :
            /\ n[d[j]].hi = IF j = 1 THEN 0 ELSE d[j - 1]
            /\ n[d[j]].lo = IF j = len + 1 THEN 0 ELSE d[j + 1]
      <4> TAKE j \in 1 .. len + 1
      <4>1. CASE j = len + 1
        <5>1. d[len + 1] = a /\ d[len] = c[len]
          BY <1>1, <1>7, <2>2
        <5>2. n[a] = q[a]
          BY <1>2, <3>5
        <5> QED BY <1>1, <2>2, <3>4, <4>1, <5>1, <5>2
      <4>2. CASE j < len + 1
        <5>1. j \in 1 .. len /\ j # len + 1
          BY <1>1, <4>2
        <5>2. /\ d[j] = c[j] /\ (j # 1 => d[j - 1] = c[j - 1])
              /\ d[j + 1] = (IF j = len THEN a ELSE c[j + 1])
          BY <1>1, <1>7, <5>1
        <5>3. /\ m[c[j]].hi = IF j = 1 THEN 0 ELSE c[j - 1]
              /\ m[c[j]].lo = IF j = len THEN 0 ELSE c[j + 1]
          BY <1>4, <5>1
        <5>4. n[c[j]] = p[c[j]]
          BY <1>2, <3>4, <3>5, <5>1
        <5>5. CASE j = len
          BY <1>1, <3>3, <5>1, <5>2, <5>3, <5>4, <5>5
        <5>6. CASE j # len
          <6>1. c[j] # c[len]
            BY <1>5, <3>1, <5>1, <5>6
          <6> QED BY <1>1, <1>2, <3>3, <5>1, <5>2, <5>3, <5>4, <5>6, <6>1
        <5> QED BY <5>5, <5>6
      <4> QED BY <1>1, <4>1, <4>2
    <3>8. IsList(n, list, d)
      BY <1>1, <1>7, <2>2, <3>6, <3>7
      DEF IsList, begin_addr, end_addr, get_block_prev_addr, get_block_next_addr
    <3>9. (\E k \in 1 .. Len(d) : d[k] = a) /\ (\E k \in 1 .. Len(d) : d[k] = c[len])
      <4>1. d[len + 1] = a /\ len + 1 \in 1 .. len + 1
        BY <1>1, <1>7, <2>2
      <4>2. d[len] = c[len] /\ len \in 1 .. len + 1
        BY <1>1, <1>7, <2>2
      <4> QED BY <1>7, <4>1, <4>2
    <3>10. OnlyList(A, m, n, list, d)
      BY <1>7, <3>3, <3>4, <3>5, <3>9 DEF OnlyList
    <3> QED BY <3>5, <3>8, <3>10
  <2>3. len = 0 \/ len > 0
    BY <1>1
  <2> QED BY <2>1, <2>2, <2>3
<1> HIDE DEF n, d
<1>10. ListAt(A, B, n, list, d)
  BY <1>7, <1>8, <1>9 DEF ListAt
<1> QED BY <1>9, <1>10 DEF len, n, d

-----------------------------------------------------------------------------
(* Several lists over the same blocks *)

\* The lists at the addresses DOMAIN ch link the blocks of the sequences ch,
\* and no block is linked into two of them.
Lists(A, B, m, ch) ==
  /\ \A l \in DOMAIN ch : ListAt(A, B, m, l, ch[l])
  /\ \A l, p \in DOMAIN ch : l # p =>
       \A i \in 1 .. Len(ch[l]), j \in 1 .. Len(ch[p]) : ch[l][i] # ch[p][j]

\* The block b is in one of the lists.
InLists(ch, b) == \E l \in DOMAIN ch : \E k \in 1 .. Len(ch[l]) : ch[l][k] = b

\* A list another one of which changes stays as it is.
LEMMA OtherList ==
  ASSUME NEW A, NEW B, NEW m, NEW n \in [A -> Words], NEW l, NEW p, l # p,
         NEW c, NEW d \in Seq(B), ListAt(A, B, m, p, c), OnlyList(A, m, n, l, d),
         \A i \in 1 .. Len(c), j \in 1 .. Len(d) : c[i] # d[j],
         l \notin B
  PROVE  ListAt(A, B, n, p, c)
<1>1. p \in A /\ p \notin B
  BY DEF ListAt
<1>2. n[p] = m[p]
  <2>1. \A k \in 1 .. Len(d) : d[k] \in B
    OBVIOUS
  <2> QED BY <1>1, <2>1 DEF OnlyList
<1>3. \A k \in 1 .. Len(c) : n[c[k]] = m[c[k]]
  <2>1. \A k \in 1 .. Len(c) : c[k] \in A /\ c[k] \in B
    BY Ends
  <2>2. \A k \in 1 .. Len(c) : c[k] # l
    BY <2>1
  <2> QED BY <2>1, <2>2 DEF OnlyList
<1>4. IsList(m, p, c)
  BY DEF ListAt
<1>5. IsList(n, p, c)
  BY <1>2, <1>3, <1>4
  DEF IsList, begin_addr, end_addr, get_block_prev_addr, get_block_next_addr
<1> QED BY <1>5 DEF ListAt

\* When one of the lists is changed and takes no block of another, the lists
\* are as before but for that one.
LEMMA ListsChange ==
  ASSUME NEW A, NEW B, NEW m, NEW ch, Lists(A, B, m, ch), NEW l \in DOMAIN ch,
         NEW n, NEW c, ListAt(A, B, n, l, c),
         NEW d \in Seq(B), OnlyList(A, m, n, l, d),
         \A k \in 1 .. Len(c) : \E j \in 1 .. Len(d) : d[j] = c[k],
         \A p \in DOMAIN ch : p # l =>
           \A i \in 1 .. Len(ch[p]), j \in 1 .. Len(d) : ch[p][i] # d[j]
  PROVE  Lists(A, B, n, [ch EXCEPT ![l] = c])
<1> DEFINE ch2 == [ch EXCEPT ![l] = c]
<1>1. DOMAIN ch2 = DOMAIN ch /\ ch2[l] = c
      /\ \A p \in DOMAIN ch : p # l => ch2[p] = ch[p]
  OBVIOUS
<1> HIDE DEF ch2
<1>2. n \in [A -> Words] /\ l \notin B
  BY DEF ListAt
<1>3. \A p \in DOMAIN ch2 : ListAt(A, B, n, p, ch2[p])
  <2> TAKE p \in DOMAIN ch2
  <2>1. CASE p = l
    BY <1>1, <2>1
  <2>2. CASE p # l
    <3>1. ListAt(A, B, m, p, ch[p])
      BY <1>1 DEF Lists
    <3>2. \A i \in 1 .. Len(ch[p]), j \in 1 .. Len(d) : ch[p][i] # d[j]
      BY <1>1, <2>2
    <3>3. ListAt(A, B, n, p, ch[p])
      BY <1>2, <2>2, <3>1, <3>2, OtherList
    <3> QED BY <1>1, <2>2, <3>3
  <2> QED BY <2>1, <2>2
<1>4. ASSUME NEW p \in DOMAIN ch2, p # l,
             NEW i \in 1 .. Len(ch2[p]), NEW j \in 1 .. Len(c)
      PROVE  ch2[p][i] # c[j]
  <2>1. PICK k \in 1 .. Len(d) : d[k] = c[j]
    OBVIOUS
  <2> QED BY <1>1, <1>4, <2>1
<1>5. ASSUME NEW p \in DOMAIN ch2, NEW q \in DOMAIN ch2, p # q,
             NEW i \in 1 .. Len(ch2[p]), NEW j \in 1 .. Len(ch2[q])
      PROVE  ch2[p][i] # ch2[q][j]
  <2>1. CASE p = l
    BY <1>1, <1>4, <1>5, <2>1
  <2>2. CASE q = l
    BY <1>1, <1>4, <1>5, <2>2
  <2>3. CASE p # l /\ q # l
    BY <1>1, <1>5, <2>3 DEF Lists
  <2> QED BY <2>1, <2>2, <2>3
<1> QED BY <1>3, <1>5 DEF Lists, ch2

\* When the i-th block is taken off a list, it is in none.
LEMMA ListsTake ==
  ASSUME NEW A, NEW B, NEW m, NEW ch, Lists(A, B, m, ch), NEW l \in DOMAIN ch,
         NEW i \in 1 .. Len(ch[l]), NEW n,
         ListAt(A, B, n, l, Removal(ch[l], i)), OnlyList(A, m, n, l, ch[l])
  PROVE  /\ Lists(A, B, n, [ch EXCEPT ![l] = Removal(ch[l], i)])
         /\ \A b : InLists([ch EXCEPT ![l] = Removal(ch[l], i)], b)
                   <=> InLists(ch, b) /\ b # ch[l][i]
<1> DEFINE c == ch[l]
           d == Removal(c, i)
           ch2 == [ch EXCEPT ![l] = d]
<1>1. c \in Seq(B) /\ Distinct(c) /\ Len(c) \in Nat
  BY DEF Lists, ListAt
<1>2. /\ Len(d) = Len(c) - 1
      /\ \A j \in 1 .. Len(c) - 1 : d[j] = IF j < i THEN c[j] ELSE c[j + 1]
  BY <1>1, RemovalFacts
<1> HIDE DEF d
<1>3. ASSUME NEW k \in 1 .. Len(d)
      PROVE  \E j \in 1 .. Len(c) : j # i /\ c[j] = d[k]
  <2>1. k \in 1 .. Len(c) /\ k + 1 \in 1 .. Len(c)
    BY <1>1, <1>2
  <2>2. CASE k < i
    BY <1>2, <2>1, <2>2
  <2>3. CASE ~ (k < i)
    <3>1. d[k] = c[k + 1] /\ k + 1 # i
      BY <1>1, <1>2, <2>3
    <3> QED BY <2>1, <3>1
  <2> QED BY <2>2, <2>3
<1>4. ASSUME NEW j \in 1 .. Len(c), j # i
      PROVE  \E k \in 1 .. Len(d) : d[k] = c[j]
  <2>1. CASE j < i
    <3>1. j \in 1 .. Len(d) /\ d[j] = c[j]
      BY <1>1, <1>2, <2>1
    <3> QED BY <3>1
  <2>2. CASE ~ (j < i)
    <3>1. j - 1 \in 1 .. Len(d) /\ ~ (j - 1 < i) /\ (j - 1) + 1 = j
      BY <1>1, <1>2, <1>4, <2>2
    <3>2. d[j - 1] = c[(j - 1) + 1]
      BY <1>2, <3>1
    <3> QED BY <3>1, <3>2
  <2> QED BY <2>1, <2>2
<1>5. Lists(A, B, n, ch2)
  <2>1. \A k \in 1 .. Len(d) : \E j \in 1 .. Len(c) : c[j] = d[k]
    BY <1>3
  <2>2. \A p \in DOMAIN ch : p # l =>
          \A x \in 1 .. Len(ch[p]), j \in 1 .. Len(c) : ch[p][x] # c[j]
    BY DEF Lists
  <2>3. ListAt(A, B, n, l, d) /\ OnlyList(A, m, n, l, c)
    BY DEF d
  <2> HIDE DEF c
  <2> QED BY <1>1, <2>1, <2>2, <2>3, ListsChange
<1>6. DOMAIN ch2 = DOMAIN ch /\ ch2[l] = d
      /\ \A p \in DOMAIN ch : p # l => ch2[p] = ch[p]
  OBVIOUS
<1> HIDE DEF ch2
<1>7. ASSUME NEW b, InLists(ch2, b)
      PROVE  InLists(ch, b) /\ b # c[i]
  <2>1. PICK p \in DOMAIN ch : \E k \in 1 .. Len(ch2[p]) : ch2[p][k] = b
    BY <1>6, <1>7 DEF InLists
  <2>2. CASE p = l
    <3>1. PICK k \in 1 .. Len(d) : d[k] = b
      BY <1>6, <2>1, <2>2
    <3>2. PICK j \in 1 .. Len(c) : j # i /\ c[j] = b
      BY <1>3, <3>1
    <3> QED BY <1>1, <3>2 DEF InLists, Distinct
  <2>3. CASE p # l
    <3>1. PICK k \in 1 .. Len(ch[p]) : ch[p][k] = b
      BY <1>6, <2>1, <2>3
    <3>2. b # c[i]
      BY <2>3, <3>1 DEF Lists
    <3> QED BY <3>1, <3>2 DEF InLists
  <2> QED BY <2>2, <2>3
<1>8. ASSUME NEW b, InLists(ch, b), b # c[i]
      PROVE  InLists(ch2, b)
  <2>1. PICK p \in DOMAIN ch : \E k \in 1 .. Len(ch[p]) : ch[p][k] = b
    BY <1>8 DEF InLists
  <2>2. CASE p = l
    <3>1. PICK k \in 1 .. Len(c) : c[k] = b
      BY <2>1, <2>2
    <3>2. \E j \in 1 .. Len(d) : d[j] = b
      BY <1>4, <1>8, <3>1
    <3> QED BY <1>6, <3>2 DEF InLists
  <2>3. CASE p # l
    BY <1>6, <2>1, <2>3 DEF InLists
  <2> QED BY <2>2, <2>3
<1> QED BY <1>5, <1>7, <1>8 DEF ch2, d

\* When a block that is in no list is put into one, it is in that one.
LEMMA ListsPut ==
  ASSUME NEW A, NEW B, NEW m, NEW ch, Lists(A, B, m, ch), NEW l \in DOMAIN ch,
         NEW i \in 1 .. Len(ch[l]) + 1, NEW a \in B, ~ InLists(ch, a), NEW n,
         ListAt(A, B, n, l, Insertion(ch[l], i, a)),
         OnlyList(A, m, n, l, Insertion(ch[l], i, a))
  PROVE  /\ Lists(A, B, n, [ch EXCEPT ![l] = Insertion(ch[l], i, a)])
         /\ \A b : InLists([ch EXCEPT ![l] = Insertion(ch[l], i, a)], b)
                   <=> InLists(ch, b) \/ b = a
<1> DEFINE c == ch[l]
           d == Insertion(c, i, a)
           ch2 == [ch EXCEPT ![l] = d]
<1>1. c \in Seq(B) /\ Distinct(c) /\ Len(c) \in Nat
  BY DEF Lists, ListAt
<1>a. \A p \in DOMAIN ch : \A k \in 1 .. Len(ch[p]) : ch[p][k] # a
  BY DEF InLists
<1>2. /\ d \in Seq(B) /\ Len(d) = Len(c) + 1
      /\ \A j \in 1 .. Len(c) + 1 :
           d[j] = IF j < i THEN c[j] ELSE IF j = i THEN a ELSE c[j - 1]
  BY <1>1, <1>a, InsertionFacts
<1> HIDE DEF d
<1>3. ASSUME NEW k \in 1 .. Len(d)
      PROVE  d[k] = a \/ \E j \in 1 .. Len(c) : c[j] = d[k]
  <2>1. CASE k < i
    <3>1. k \in 1 .. Len(c) /\ d[k] = c[k]
      BY <1>1, <1>2, <2>1
    <3> QED BY <3>1
  <2>2. CASE k = i
    BY <1>2, <2>2
  <2>3. CASE k > i
    <3>1. d[k] = c[k - 1] /\ k - 1 \in 1 .. Len(c)
      BY <1>1, <1>2, <2>3
    <3> QED BY <3>1
  <2> QED BY <1>1, <1>2, <2>1, <2>2, <2>3
<1>4. ASSUME NEW j \in 1 .. Len(c)
      PROVE  \E k \in 1 .. Len(d) : d[k] = c[j]
  <2>1. CASE j < i
    <3>1. j \in 1 .. Len(d) /\ d[j] = c[j]
      BY <1>1, <1>2, <2>1
    <3> QED BY <3>1
  <2>2. CASE ~ (j < i)
    <3>1. j + 1 \in 1 .. Len(d) /\ j + 1 > i /\ (j + 1) - 1 = j
      BY <1>1, <1>2, <2>2
    <3>2. d[j + 1] = c[(j + 1) - 1]
      BY <1>1, <1>2, <3>1
    <3> QED BY <3>1, <3>2
  <2> QED BY <2>1, <2>2
<1>b. i \in 1 .. Len(d) /\ d[i] = a
  BY <1>1, <1>2
<1>5. Lists(A, B, n, ch2)
  <2>1. \A k \in 1 .. Len(d) : \E j \in 1 .. Len(d) : d[j] = d[k]
    OBVIOUS
  <2>2. ASSUME NEW p \in DOMAIN ch, p # l, NEW x \in 1 .. Len(ch[p]),
               NEW j \in 1 .. Len(d)
        PROVE  ch[p][x] # d[j]
    <3>1. \A k \in 1 .. Len(c) : ch[p][x] # c[k]
      BY <2>2 DEF Lists
    <3> QED BY <1>3, <1>a, <3>1
  <2>3. ListAt(A, B, n, l, d) /\ OnlyList(A, m, n, l, d)
    BY DEF d
  <2> QED BY <1>2, <2>1, <2>2, <2>3, ListsChange
<1>6. DOMAIN ch2 = DOMAIN ch /\ ch2[l] = d
      /\ \A p \in DOMAIN ch : p # l => ch2[p] = ch[p]
  OBVIOUS
<1> HIDE DEF ch2
<1>7. ASSUME NEW b, InLists(ch2, b)
      PROVE  InLists(ch, b) \/ b = a
  <2>1. PICK p \in DOMAIN ch : \E k \in 1 .. Len(ch2[p]) : ch2[p][k] = b
    BY <1>6, <1>7 DEF InLists
  <2>2. CASE p = l
    <3>1. PICK k \in 1 .. Len(d) : d[k] = b
      BY <1>6, <2>1, <2>2
    <3> QED BY <1>3, <3>1 DEF InLists
  <2>3. CASE p # l
    BY <1>6, <2>1, <2>3 DEF InLists
  <2> QED BY <2>2, <2>3
<1>8. ASSUME NEW b, InLists(ch, b) \/ b = a
      PROVE  InLists(ch2, b)
  <2>1. CASE b = a
    BY <1>6, <1>b, <2>1 DEF InLists
  <2>2. CASE InLists(ch, b)
    <3>1. PICK p \in DOMAIN ch : \E k \in 1 .. Len(ch[p]) : ch[p][k] = b
      BY <2>2 DEF InLists
    <3>2. CASE p = l
      <4>1. \E j \in 1 .. Len(d) : d[j] = b
        BY <1>4, <3>1, <3>2
      <4> QED BY <1>6, <4>1 DEF InLists
    <3>3. CASE p # l
      BY <1>6, <3>1, <3>3 DEF InLists
    <3> QED BY <3>2, <3>3
  <2> QED BY <1>8, <2>1, <2>2
<1> QED BY <1>5, <1>7, <1>8 DEF ch2, d

\* Lists stay as they are when none of their words is written.
LEMMA ListsKeep ==
  ASSUME NEW A, NEW B, NEW m, NEW ch, Lists(A, B, m, ch), NEW n \in [A -> Words],
         \A x \in B \cup DOMAIN ch : n[x] = m[x]
  PROVE  Lists(A, B, n, ch)
<1>1. ASSUME NEW l \in DOMAIN ch
      PROVE  ListAt(A, B, n, l, ch[l])
  <2>1. ListAt(A, B, m, l, ch[l])
    BY DEF Lists
  <2>2. n[l] = m[l] /\ \A k \in 1 .. Len(ch[l]) : n[ch[l][k]] = m[ch[l][k]]
    BY <2>1, Ends
  <2>3. IsList(m, l, ch[l])
    BY <2>1 DEF ListAt
  <2>4. IsList(n, l, ch[l])
    BY <2>2, <2>3
    DEF IsList, begin_addr, end_addr, get_block_prev_addr, get_block_next_addr
  <2> QED BY <2>1, <2>4 DEF ListAt
<1> QED BY <1>1 DEF Lists

\* A list is linked to and fro between its ends.
LEMMA ListOfBlocks ==
  ASSUME NEW A, NEW B, NEW m, NEW list, NEW c, ListAt(A, B, m, list, c)
  PROVE  ListOf(m, list, {c[k] : k \in 1 .. Len(c)})
<1> DEFINE S == {c[k] : k \in 1 .. Len(c)}
           len == Len(c)
<1>1. len \in Nat
  BY Ends
<1>2. \A k \in 1 .. len : c[k] # 0 /\ c[k] \in S
  BY Ends
<1>3. /\ begin_addr(m, list) = IF len = 0 THEN 0 ELSE c[1]
      /\ end_addr(m, list) = IF len = 0 THEN 0 ELSE c[len]
  BY Ends
<1>4. \A k \in 1 .. len :
        /\ get_block_prev_addr(m, c[k]) = IF k = 1 THEN 0 ELSE c[k - 1]
        /\ get_block_next_addr(m, c[k]) = IF k = len THEN 0 ELSE c[k + 1]
  BY DEF ListAt, IsList
<1>5. \A i, j \in 1 .. len : c[i] = c[j] => i = j
  BY DEF ListAt, Distinct
<1>6. \A b \in S : \E k \in 1 .. len : b = c[k]
  OBVIOUS
<1>7. S = {} <=> len = 0
  <2>1. len # 0 => 1 \in 1 .. len
    <3> HIDE DEF len
    <3> QED BY <1>1
  <2>2. len = 0 => 1 .. len = {}
    BY SMT
  <2> QED BY <1>2, <2>1, <2>2
<1> HIDE DEF S, len
<1>8. len # 0 => 1 \in 1 .. len /\ len \in 1 .. len
  BY <1>1
<1>9. /\ begin_addr(m, list) \in S \cup {0}
      /\ end_addr(m, list) \in S \cup {0}
      /\ S = {} <=> begin_addr(m, list) = 0
      /\ S = {} <=> end_addr(m, list) = 0
  BY <1>2, <1>3, <1>7, <1>8
<1>10. ASSUME NEW b \in S
       PROVE  /\ get_block_next_addr(m, b) \in S \cup {0}
              /\ get_block_prev_addr(m, b) \in S \cup {0}
              /\ get_block_next_addr(m, b) = 0 <=> b = end_addr(m, list)
              /\ get_block_prev_addr(m, b) = 0 <=> b = begin_addr(m, list)
              /\ get_block_next_addr(m, b) # 0 =>
                   get_block_prev_addr(m, get_block_next_addr(m, b)) = b
              /\ get_block_prev_addr(m, b) # 0 =>
                   get_block_next_addr(m, get_block_prev_addr(m, b)) = b
  <2>1. PICK k \in 1 .. len : b = c[k]
    BY <1>6
  <2>2. len # 0
    BY <2>1
  <2>3. /\ get_block_next_addr(m, b) \in S \cup {0}
        /\ get_block_next_addr(m, b) = 0 <=> b = end_addr(m, list)
        /\ get_block_next_addr(m, b) # 0 =>
             get_block_prev_addr(m, get_block_next_addr(m, b)) = b
    <3>1. CASE k = len
      <4>1. get_block_next_addr(m, b) = 0 /\ b = end_addr(m, list)
        BY <1>3, <1>4, <2>1, <2>2, <3>1
      <4> QED BY <4>1
    <3>2. CASE k # len
      <4> DEFINE j == k + 1
      <4>1. j \in 1 .. len /\ j # 1 /\ j - 1 = k
        BY <1>1, <3>2
      <4>2. get_block_next_addr(m, b) = c[j] /\ get_block_prev_addr(m, c[j]) = c[j - 1]
        BY <1>4, <2>1, <3>2, <4>1
      <4>3. b # end_addr(m, list)
        BY <1>3, <1>5, <1>8, <2>1, <2>2, <3>2
      <4> HIDE DEF j
      <4> QED BY <1>2, <2>1, <4>1, <4>2, <4>3
    <3> QED BY <3>1, <3>2
  <2>4. /\ get_block_prev_addr(m, b) \in S \cup {0}
        /\ get_block_prev_addr(m, b) = 0 <=> b = begin_addr(m, list)
        /\ get_block_prev_addr(m, b) # 0 =>
             get_block_next_addr(m, get_block_prev_addr(m, b)) = b
    <3>1. CASE k = 1
      <4>1. get_block_prev_addr(m, b) = 0 /\ b = begin_addr(m, list)
        BY <1>3, <1>4, <2>1, <2>2, <3>1
      <4> QED BY <4>1
    <3>2. CASE k # 1
      <4> DEFINE j == k - 1
      <4>1. j \in 1 .. len /\ j # len /\ j + 1 = k
        BY <1>1, <3>2
      <4>2. get_block_prev_addr(m, b) = c[j] /\ get_block_next_addr(m, c[j]) = c[j + 1]
        BY <1>4, <2>1, <3>2, <4>1
      <4>3. b # begin_addr(m, list)
        BY <1>3, <1>5, <1>8, <2>1, <2>2, <3>2
      <4> HIDE DEF j
      <4> QED BY <1>2, <2>1, <4>1, <4>2, <4>3
    <3> QED BY <3>1, <3>2
  <2> QED BY <2>3, <2>4
<1>11. ListOf(m, list, S)
  BY <1>9, <1>10 DEF ListOf
<1> QED BY <1>11 DEF S

-----------------------------------------------------------------------------
(* The blocks and their elements *)

\* The sizes are positive numbers.
LEMMA BlockSizes ==
  /\ Capacity \in Nat \ {0}
  /\ ElementSize \in Nat \ {0}
  /\ BlockSize \in Nat \ {0}
  /\ BlockSize = 1 + ElementSize
  BY BlocksAssumption, ElementAssumption DEF BlockSize

\* No more blocks than the capacity are in a list.
LEMMA ListLength ==
  ASSUME NEW first, NEW c \in Seq(BlocksFrom(first)), Distinct(c)
  PROVE  Len(c) <= Capacity
<1> DEFINE I == 0 .. Capacity - 1
           B == BlocksFrom(first)
           f == [k \in I |-> first + k * BlockSize]
           D == 1 .. Len(c)
<1>1. f \in Surjection(I, B)
  <2>1. f \in [I -> B]
    BY DEF BlocksFrom
  <2>2. \A b \in B : \E k \in I : f[k] = b
    BY DEF BlocksFrom
  <2> HIDE DEF I, B, f
  <2> QED BY <2>1, <2>2, Fun_IsSurj
<1>2. IsFiniteSet(I) /\ Cardinality(I) = Capacity
  <2> DEFINE n == Capacity - 1
  <2>1. n \in Nat /\ n + 1 = Capacity
    BY BlockSizes
  <2> HIDE DEF n
  <2>2. IsFiniteSet(0 .. n) /\ Cardinality(0 .. n) = IF 0 > n THEN 0 ELSE n - 0 + 1
    BY <2>1, FS_Interval
  <2>3. Cardinality(0 .. n) = n + 1
    BY <2>1, <2>2
  <2> QED BY <2>1, <2>2, <2>3 DEF n
<1>3. IsFiniteSet(D) /\ Cardinality(D) = Len(c)
  <2> DEFINE n == Len(c)
  <2>1. n \in Nat
    OBVIOUS
  <2> HIDE DEF n
  <2>2. IsFiniteSet(1 .. n) /\ Cardinality(1 .. n) = IF 1 > n THEN 0 ELSE n - 1 + 1
    BY <2>1, FS_Interval
  <2>3. Cardinality(1 .. n) = n
    BY <2>1, <2>2
  <2> QED BY <2>2, <2>3 DEF n
<1>4. c \in [D -> B]
  OBVIOUS
<1>5. c \in Injection(D, B)
  <2>1. \A i, j \in D : c[i] = c[j] => i = j
    BY DEF Distinct
  <2> HIDE DEF B, D
  <2> QED BY <1>4, <2>1, Fun_IsInj
<1> HIDE DEF I, B, f, D
<1>6. IsFiniteSet(B) /\ Cardinality(B) <= Cardinality(I)
  BY <1>1, <1>2, FS_Surjection
<1>7. Cardinality(D) <= Cardinality(B)
  BY <1>5, <1>6, FS_Injection
<1>8. Cardinality(B) \in Nat
  BY <1>6, FS_CardinalityType
<1> QED BY <1>2, <1>3, <1>6, <1>7, <1>8, BlockSizes DEF D

\* A block starts a multiple of the block size behind the first one and ends
\* before the end of the array.
LEMMA BlockInside ==
  ASSUME NEW first \in Nat, NEW b \in BlocksFrom(first)
  PROVE  /\ Capacity * BlockSize \in Nat
         /\ b \in Nat
         /\ first <= b
         /\ b + BlockSize <= first + Capacity * BlockSize
<1>1. PICK k \in 0 .. Capacity - 1 : b = first + k * BlockSize
  BY DEF BlocksFrom
<1>2. k \in Nat /\ k + 1 \in Nat /\ k + 1 <= Capacity
  BY BlockSizes
<1>3. k * BlockSize \in Nat /\ Capacity * BlockSize \in Nat
  BY <1>2, BlockSizes, ProductNat
<1>4. (k + 1) * BlockSize <= Capacity * BlockSize
  BY <1>2, BlockSizes, ProductMonotone
<1>5. (k + 1) * BlockSize = k * BlockSize + BlockSize
  BY <1>2, BlockSizes
<1> QED BY <1>1, <1>3, <1>4, <1>5, BlockSizes

\* Two blocks have no int in common.
LEMMA BlocksDisjoint ==
  ASSUME NEW first \in Nat, NEW b \in BlocksFrom(first),
         NEW d \in BlocksFrom(first), b # d
  PROVE  b + BlockSize <= d \/ d + BlockSize <= b
<1>1. PICK i \in 0 .. Capacity - 1 : b = first + i * BlockSize
  BY DEF BlocksFrom
<1>2. PICK j \in 0 .. Capacity - 1 : d = first + j * BlockSize
  BY DEF BlocksFrom
<1>3. i \in Nat /\ j \in Nat /\ i # j
  BY <1>1, <1>2, BlockSizes
<1>4. ASSUME NEW x \in Nat, NEW y \in Nat, x < y
      PROVE  x * BlockSize + BlockSize <= y * BlockSize
             /\ x * BlockSize \in Nat /\ y * BlockSize \in Nat
  <2>1. x + 1 <= y
    BY <1>4
  <2>2. (x + 1) * BlockSize <= y * BlockSize
    BY <2>1, BlockSizes, ProductMonotone
  <2>3. (x + 1) * BlockSize = x * BlockSize + BlockSize
    BY BlockSizes
  <2>4. x * BlockSize \in Nat /\ y * BlockSize \in Nat
    BY BlockSizes, ProductNat
  <2> QED BY <2>2, <2>3, <2>4
<1>5. CASE i < j
  BY <1>1, <1>2, <1>3, <1>4, <1>5, BlockSizes
<1>6. CASE j < i
  BY <1>1, <1>2, <1>3, <1>4, <1>6, BlockSizes
<1> QED BY <1>3, <1>5, <1>6

\* The ints of the elements are those of no block's links and of no other
\* block's element.
LEMMA ElementApart ==
  ASSUME NEW first \in Nat, NEW b \in BlocksFrom(first),
         NEW k \in 0 .. ElementSize - 1
  PROVE  /\ b + 1 + k \in first .. first + Capacity * BlockSize - 1
         /\ b + 1 + k \notin BlocksFrom(first)
         /\ \A d \in BlocksFrom(first) : d # b =>
              b + 1 + k \notin d + 1 .. d + 1 + ElementSize - 1
<1>1. /\ Capacity * BlockSize \in Nat /\ b \in Nat /\ first <= b
      /\ b + BlockSize <= first + Capacity * BlockSize
  BY BlockInside
<1>2. k \in Nat /\ k < ElementSize /\ ElementSize \in Nat
      /\ BlockSize = 1 + ElementSize
  BY BlockSizes
<1>3. b + 1 + k \in first .. first + Capacity * BlockSize - 1
  BY <1>1, <1>2
<1>4. ASSUME NEW d \in BlocksFrom(first)
      PROVE  b + 1 + k # d
  <2>1. d \in Nat
    BY BlockInside
  <2>2. d # b => b + BlockSize <= d \/ d + BlockSize <= b
    BY BlocksDisjoint
  <2> QED BY <1>1, <1>2, <2>1, <2>2
<1>5. ASSUME NEW d \in BlocksFrom(first), d # b
      PROVE  b + 1 + k \notin d + 1 .. d + 1 + ElementSize - 1
  <2>1. d \in Nat
    BY BlockInside
  <2>2. b + BlockSize <= d \/ d + BlockSize <= b
    BY <1>5, BlocksDisjoint
  <2> QED BY <1>1, <1>2, <2>1, <2>2
<1> QED BY <1>3, <1>4, <1>5

\* An element is read back as it was written, and nothing else is written.
LEMMA WriteElement ==
  ASSUME NEW A, NEW m \in [A -> Words], NEW x \in Nat, NEW e \in Element,
         x .. x + ElementSize - 1 \subseteq A
  PROVE  /\ write_element(m, x, e) \in [A -> Words]
         /\ read_element(write_element(m, x, e), x) = e
         /\ \A y \in A : y \notin x .. x + ElementSize - 1 =>
              write_element(m, x, e)[y] = m[y]
<1> DEFINE n == write_element(m, x, e)
           I == 0 .. ElementSize - 1
<1>1. ElementSize \in Nat /\ e \in [I -> Words] /\ DOMAIN m = A
  BY ElementAssumption
<1>2. n = [y \in A |-> IF y \in x .. x + ElementSize - 1 THEN e[y - x] ELSE m[y]]
  BY <1>1 DEF write_element
<1>3. ASSUME NEW y \in x .. x + ElementSize - 1
      PROVE  y - x \in I /\ y \in A
  BY <1>1
<1>4. n \in [A -> Words]
  <2>1. ASSUME NEW y \in A
        PROVE  (IF y \in x .. x + ElementSize - 1 THEN e[y - x] ELSE m[y]) \in Words
    BY <1>1, <1>3
  <2> QED BY <1>2, <2>1
<1>5. \A k \in I : n[x + k] = e[k]
  <2> TAKE k \in I
  <2>1. x + k \in x .. x + ElementSize - 1 /\ (x + k) - x = k /\ x + k \in A
    BY <1>1
  <2> QED BY <1>2, <2>1
<1>6. read_element(n, x) = e
  BY <1>1, <1>5 DEF read_element
<1> QED BY <1>2, <1>4, <1>6

\* An element is read from its ints alone.
LEMMA ReadElement ==
  ASSUME NEW m, NEW n, NEW x,
         \A k \in 0 .. ElementSize - 1 : n[x + k] = m[x + k]
  PROVE  read_element(n, x) = read_element(m, x)
  BY DEF read_element

\* Sequences of no more blocks than the capacity that are linked into lists are
\* what next addresses reach.
LEMMA ChainsOfLists ==
  ASSUME NEW first \in Nat \ {0}, NEW A, NEW m, NEW ch,
         Lists(A, BlocksFrom(first), m, ch)
  PROVE  \A l \in DOMAIN ch : Chain(m, l) = ch[l]
<1> DEFINE B == BlocksFrom(first)
<1> TAKE l \in DOMAIN ch
<1>1. ListAt(A, B, m, l, ch[l])
  BY DEF Lists
<1>2. ch[l] \in Seq(B) /\ Distinct(ch[l]) /\ IsList(m, l, ch[l])
  BY <1>1 DEF ListAt
<1>3. Len(ch[l]) <= Capacity
  BY <1>2, ListLength
<1>4. 0 \notin B
  <2>1. \A b \in B : first <= b /\ b \in Nat
    BY BlockInside
  <2> QED BY <2>1
<1> HIDE DEF B
<1> QED BY <1>2, <1>3, <1>4, ChainOfList

-----------------------------------------------------------------------------
(* The blocks a constructor links *)

\* The blocks in order, the first of which is at first.
BlockAt(first, k) == first + (k - 1) * BlockSize

\* The blocks are a block size apart, and differ.
LEMMA BlocksInOrder ==
  ASSUME NEW first \in Nat, NEW k \in 1 .. Capacity
  PROVE  /\ BlockAt(first, k) \in BlocksFrom(first)
         /\ BlockAt(first, k) \in Nat
         /\ BlockAt(first, k) + BlockSize = BlockAt(first, k + 1)
         /\ k # 1 => BlockAt(first, k) - BlockSize = BlockAt(first, k - 1)
         /\ \A j \in 1 .. Capacity : BlockAt(first, j) = BlockAt(first, k) => j = k
<1>1. BlockAt(first, k) \in BlocksFrom(first)
  <2>1. k - 1 \in 0 .. Capacity - 1
    BY BlockSizes
  <2> QED BY <2>1 DEF BlockAt, BlocksFrom
<1>2. BlockAt(first, k) \in Nat
  BY <1>1, BlockInside
<1>3. ASSUME NEW j \in 1 .. Capacity, j # k
      PROVE  BlockAt(first, j) # BlockAt(first, k)
  <2>1. j - 1 \in Nat /\ k - 1 \in Nat /\ j - 1 # k - 1 /\ 0 \in 0 .. BlockSize - 1
    BY <1>3, BlockSizes
  <2>2. (j - 1) * BlockSize + 0 # (k - 1) * BlockSize + 0
    BY <2>1, BlockSizes, BlocksApart
  <2>3. (j - 1) * BlockSize \in Nat /\ (k - 1) * BlockSize \in Nat
    BY <2>1, BlockSizes, ProductNat
  <2> QED BY <2>2, <2>3 DEF BlockAt
<1>4. \A x \in Int : x * BlockSize \in Int /\ (x + 1) * BlockSize = x * BlockSize + BlockSize
  BY BlockSizes
<1>5. BlockAt(first, k) + BlockSize = BlockAt(first, k + 1)
  <2>1. k - 1 \in Int /\ (k - 1) + 1 = (k + 1) - 1
    BY BlockSizes
  <2>2. ((k + 1) - 1) * BlockSize = (k - 1) * BlockSize + BlockSize
        /\ (k - 1) * BlockSize \in Int
    BY <1>4, <2>1
  <2> QED BY <2>2, BlockSizes DEF BlockAt
<1>6. BlockAt(first, k) - BlockSize = BlockAt(first, k - 1)
  <2>1. (k - 1) - 1 \in Int /\ ((k - 1) - 1) + 1 = k - 1
    BY BlockSizes
  <2>2. (k - 1) * BlockSize = ((k - 1) - 1) * BlockSize + BlockSize
        /\ ((k - 1) - 1) * BlockSize \in Int
    BY <1>4, <2>1
  <2> QED BY <2>2, BlockSizes DEF BlockAt
<1> QED BY <1>1, <1>2, <1>3, <1>5, <1>6

\* The links of a block fit their fields.
LEMMA LinkedWords ==
  ASSUME NEW first \in Nat \ {0}, first + Capacity * BlockSize < Half,
         NEW b \in BlocksFrom(first)
  PROVE  Linked(first, b) \in Words
<1> DEFINE hi == IF b = first THEN 0 ELSE b - BlockSize
           lo == IF b # first /\ b = first + (Capacity - 1) * BlockSize
                 THEN 0 ELSE b + BlockSize
<1>1. /\ b \in Nat /\ first <= b
      /\ b + BlockSize <= first + Capacity * BlockSize
      /\ first + Capacity * BlockSize \in Nat
  <2>1. Capacity * BlockSize \in Nat
    BY BlockSizes, ProductNat
  <2> QED BY <2>1, BlockInside
<1>2. b = first \/ b - BlockSize >= first
  <2>1. first \in BlocksFrom(first)
    <3>1. 0 \in 0 .. Capacity - 1 /\ first = first + 0 * BlockSize
      BY BlockSizes
    <3> QED BY <3>1 DEF BlocksFrom
  <2>2. b # first => first + BlockSize <= b
    BY <1>1, <2>1, BlocksDisjoint, BlockSizes
  <2> QED BY <1>1, <2>2, BlockSizes
<1>3. hi \in 0 .. Half - 1
  BY <1>1, <1>2, BlockSizes, HalfOfFull
<1>4. lo \in 0 .. Half - 1
  BY <1>1, BlockSizes, HalfOfFull
<1> HIDE DEF hi, lo
<1>5. Word(hi, lo) \in Words
  BY <1>3, <1>4, HalfOfFull DEF Word, Words
<1> QED BY <1>5 DEF Linked, hi, lo

\* Two blocks or more are linked in order.
LEMMA FreshList ==
  ASSUME Capacity >= 2, NEW first \in Nat, NEW A, NEW m \in [A -> Words], NEW list,
         BlocksFrom(first) \subseteq A, BlocksFrom(first) \subseteq 1 .. Half - 1,
         list \in A \ BlocksFrom(first),
         m[list] = Word(first, first + Capacity * BlockSize - BlockSize),
         \A b \in BlocksFrom(first) : m[b] = Linked(first, b),
         NEW c, c = [k \in 1 .. Capacity |-> BlockAt(first, k)]
  PROVE  /\ c \in Seq(BlocksFrom(first)) /\ Len(c) = Capacity
         /\ ListAt(A, BlocksFrom(first), m, list, c)
         /\ \A b \in BlocksFrom(first) : \E k \in 1 .. Capacity : c[k] = b
<1> DEFINE B == BlocksFrom(first)
<1>0. Capacity \in Nat /\ 1 \in 1 .. Capacity /\ Capacity \in 1 .. Capacity
  BY BlockSizes
<1>1. \A k \in 1 .. Capacity : c[k] = BlockAt(first, k) /\ c[k] \in B
  BY BlocksInOrder
<1>2. c \in Seq(B) /\ Len(c) = Capacity /\ c # << >>
  BY <1>0, <1>1
<1>3. Distinct(c)
  <2>1. \A i, j \in 1 .. Capacity : BlockAt(first, i) = BlockAt(first, j) => i = j
    BY BlocksInOrder
  <2> QED BY <1>1, <1>2, <2>1 DEF Distinct
<1>4. c[1] = first
  <2>1. (1 - 1) * BlockSize = 0
    BY BlockSizes
  <2> QED BY <1>0, <1>1, <2>1 DEF BlockAt
<1>5. c[Capacity] = first + Capacity * BlockSize - BlockSize
      /\ c[Capacity] = first + (Capacity - 1) * BlockSize
  <2>1. (Capacity - 1) * BlockSize = Capacity * BlockSize - BlockSize
        /\ Capacity * BlockSize \in Int
    BY BlockSizes
  <2> QED BY <1>0, <1>1, <2>1, BlockSizes DEF BlockAt
<1>6. m[list].hi = c[1] /\ m[list].lo = c[Capacity]
  BY <1>4, <1>5 DEF Word
<1>7. ASSUME NEW k \in 1 .. Capacity
      PROVE  /\ m[c[k]].hi = IF k = 1 THEN 0 ELSE c[k - 1]
             /\ m[c[k]].lo = IF k = Capacity THEN 0 ELSE c[k + 1]
  <2>1. m[c[k]] = Linked(first, c[k])
    BY <1>1
  <2>2. (c[k] = c[1] <=> k = 1) /\ (c[k] = c[Capacity] <=> k = Capacity)
    BY <1>0, <1>2, <1>3 DEF Distinct
  <2>3. /\ m[c[k]].hi = IF c[k] = c[1] THEN 0 ELSE c[k] - BlockSize
        /\ m[c[k]].lo = IF c[k] # c[1] /\ c[k] = c[Capacity] THEN 0
                        ELSE c[k] + BlockSize
    BY <1>4, <1>5, <2>1 DEF Linked, Word
  <2>4. k # 1 => c[k] - BlockSize = c[k - 1]
    <3>1. k # 1 => k - 1 \in 1 .. Capacity
      BY <1>0
    <3> QED BY <1>1, <3>1, BlocksInOrder
  <2>5. k # Capacity => c[k] + BlockSize = c[k + 1]
    <3>1. k # Capacity => k + 1 \in 1 .. Capacity
      BY <1>0
    <3> QED BY <1>1, <3>1, BlocksInOrder
  <2>6. ~ (k = 1 /\ k = Capacity)
    BY <1>0
  <2> QED BY <2>2, <2>3, <2>4, <2>5, <2>6
<1>8. IsList(m, list, c)
  BY <1>2, <1>6, <1>7
  DEF IsList, begin_addr, end_addr, get_block_prev_addr, get_block_next_addr
<1>9. \A b \in B : \E k \in 1 .. Capacity : c[k] = b
  <2> TAKE b \in B
  <2>1. PICK j \in 0 .. Capacity - 1 : b = first + j * BlockSize
    BY DEF BlocksFrom
  <2>2. j + 1 \in 1 .. Capacity /\ (j + 1) - 1 = j
    BY BlockSizes
  <2>3. c[j + 1] = b
    BY <2>1, <2>2 DEF BlockAt
  <2> QED BY <2>2, <2>3
<1> QED BY <1>2, <1>3, <1>8, <1>9 DEF ListAt

-----------------------------------------------------------------------------
(* Insertions at the ends *)

\* What is appended is inserted behind the others.
LEMMA AppendInserts ==
  ASSUME NEW S, NEW s \in Seq(S), NEW e
  PROVE  Append(s, e) = Insertion(s, Len(s) + 1, e)
<1> DEFINE T == S \cup {e}
           a == Append(s, e)
<1>1. s \in Seq(T) /\ e \in T /\ Len(s) \in Nat
  OBVIOUS
<1>2. /\ a \in Seq(T) /\ Len(a) = Len(s) + 1
      /\ \A i \in 1 .. Len(s) : a[i] = s[i]
      /\ a[Len(s) + 1] = e
  BY <1>1, AppendProperties
<1> HIDE DEF a, T
<1>3. a = [j \in 1 .. Len(s) + 1 |-> a[j]]
  BY <1>2
<1>4. \A j \in 1 .. Len(s) + 1 :
        a[j] = IF j < Len(s) + 1 THEN s[j]
               ELSE IF j = Len(s) + 1 THEN e ELSE s[j - 1]
  BY <1>1, <1>2
<1>5. a = Insertion(s, Len(s) + 1, e)
  BY <1>3, <1>4 DEF Insertion
<1> QED BY <1>5 DEF a

=============================================================================
