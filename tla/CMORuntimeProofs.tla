-------------------------- MODULE CMORuntimeProofs --------------------------
(***************************************************************************)
(* The runtime, for every cache geometry, every number of objects and      *)
(* every length, in three parts: what the address arithmetic of            *)
(* ShadowLayout guarantees (the offsets of a region have indices of their  *)
(* own, the regions of a section share no L1 set, and the ways bound the   *)
(* pages a region reaches); the invariant of CMORuntime and what follows   *)
(* from it; and that the runtime implements ObliviousArrays, so that its   *)
(* client sees plain arrays whatever is copied, evicted and rolled back.   *)
(***************************************************************************)
EXTENDS CMORuntime, IntegerDivision, FiniteSetTheorems

-----------------------------------------------------------------------------
(* One region *)

\* A page has at least one int.
LEMMA PagePos == PageInts \in Nat \ {0}
  BY GeometryAssumption, ProductPos DEF PageInts

\* Wrap puts an offset into the page its quotient gives, and there into one of
\* the sets of the region.
LEMMA WrapShape ==
  ASSUME NEW off \in Nat, NEW sets \in Nat \ {0}, NEW base \in Nat,
         base + sets <= L1Sets
  PROVE  /\ Wrap(off, sets, base) \in Nat
         /\ PageOf(Wrap(off, sets, base)) = off \div (sets * LineSize)
         /\ Wrap(off, sets, base) % PageInts
              = (off % (sets * LineSize)) + base * LineSize
         /\ SetOf(Wrap(off, sets, base)) \in base .. base + sets - 1
<1> DEFINE k == sets * LineSize
           q == off \div k
           r == off % k
           b == base * LineSize
<1>0. LineSize \in Nat \ {0} /\ L1Sets \in Nat
  BY GeometryAssumption
<1>1. k \in Nat \ {0} /\ b \in Nat
  BY <1>0, ProductPos, ProductNat
<1>2. q \in Nat /\ r \in Nat /\ r < k
  BY <1>1, Division
<1>3. r + b < PageInts
  <2>1. (base + sets) * LineSize <= L1Sets * LineSize
    BY <1>0, ProductMonotone
  <2>2. (base + sets) * LineSize = b + k
    BY <1>0
  <2> HIDE DEF k, b, r
  <2> QED BY <1>0, <1>1, <1>2, <2>1, <2>2, PagePos DEF PageInts
<1>4. Wrap(off, sets, base) = q * PageInts + (r + b)
  <2>1. q * PageInts \in Nat
    BY <1>2, PagePos, ProductNat
  <2>2. Wrap(off, sets, base) = q * PageInts + r + b
    BY DEF Wrap
  <2> HIDE DEF q, r, b, k
  <2> QED BY <1>1, <1>2, <2>1, <2>2
<1>5. q * PageInts \in Nat
  BY <1>2, PagePos, ProductNat
<1> HIDE DEF q, r, b
<1>6. /\ (q * PageInts + (r + b)) \div PageInts = q
      /\ (q * PageInts + (r + b)) % PageInts = r + b
  <2> DEFINE t == r + b
  <2>1. t \in Nat /\ t < PageInts
    BY <1>1, <1>2, <1>3
  <2> HIDE DEF t
  <2>2. (q * PageInts + t) \div PageInts = q /\ (q * PageInts + t) % PageInts = t
    BY <1>2, <2>1, PagePos, QuotientUnique
  <2> QED BY <2>2 DEF t
<1>7. (r + b) \div LineSize \in base .. base + sets - 1
  <2> DEFINE u == r \div LineSize
             v == r % LineSize
  <2>1. u \in Nat /\ v \in Nat /\ v < LineSize /\ r = u * LineSize + v
    BY <1>0, <1>2, Division
  <2>2. u < sets
    BY <1>0, <1>2, QuotientBound
  <2> HIDE DEF u, v
  <2>3. r + b = (u + base) * LineSize + v
    <3>1. (u + base) * LineSize = u * LineSize + b
      BY <1>0, <2>1 DEF b
    <3>2. u * LineSize \in Nat
      BY <1>0, <2>1, ProductNat
    <3> QED BY <1>1, <2>1, <3>1, <3>2, <1>0
  <2>4. (r + b) \div LineSize = u + base
    <3> DEFINE t == u + base
    <3>1. t \in Nat
      BY <2>1
    <3> HIDE DEF t
    <3>2. (t * LineSize + v) \div LineSize = t
      BY <1>0, <2>1, <3>1, QuotientUnique
    <3> QED BY <2>3, <3>2 DEF t
  <2> QED BY <2>1, <2>2, <2>4
<1> QED
  BY <1>1, <1>2, <1>4, <1>5, <1>6, <1>7 DEF PageOf, SetOf, q, r, b

\* Two offsets of a region never share an index.
LEMMA WrapInjective ==
  ASSUME NEW m \in Nat, NEW n \in Nat, NEW sets \in Nat \ {0}, NEW base \in Nat,
         base + sets <= L1Sets,
         Wrap(m, sets, base) = Wrap(n, sets, base)
  PROVE  m = n
<1> DEFINE k == sets * LineSize
<1>1. k \in Nat \ {0} /\ base * LineSize \in Nat
  BY GeometryAssumption, ProductPos, ProductNat
<1>2. m \div k = n \div k
  BY WrapShape
<1>3. (m % k) + base * LineSize = (n % k) + base * LineSize
  BY WrapShape
<1> HIDE DEF k
<1>4. /\ m % k \in Nat /\ n % k \in Nat
      /\ m = (m \div k) * k + (m % k) /\ n = (n \div k) * k + (n % k)
  BY <1>1, Division
<1> QED BY <1>1, <1>2, <1>3, <1>4

\* Regions that share no set share no index.
LEMMA WrapApart ==
  ASSUME NEW m \in Nat, NEW n \in Nat,
         NEW sets1 \in Nat \ {0}, NEW base1 \in Nat,
         NEW sets2 \in Nat \ {0}, NEW base2 \in Nat,
         base1 + sets1 <= base2, base2 + sets2 <= L1Sets
  PROVE  Wrap(m, sets1, base1) # Wrap(n, sets2, base2)
<1>1. base1 + sets1 <= L1Sets
  BY GeometryAssumption
<1>2. SetOf(Wrap(m, sets1, base1)) \in base1 .. base1 + sets1 - 1
  BY <1>1, WrapShape
<1>3. SetOf(Wrap(n, sets2, base2)) \in base2 .. base2 + sets2 - 1
  BY WrapShape
<1> QED BY <1>2, <1>3

\* A region that holds no more than `ways` lines a set stays in the first
\* `ways` pages.
LEMMA WrapPages ==
  ASSUME NEW off \in Nat, NEW sets \in Nat \ {0}, NEW base \in Nat,
         NEW ways \in Nat, base + sets <= L1Sets,
         off < ways * (sets * LineSize)
  PROVE  PageOf(Wrap(off, sets, base)) < ways
<1>1. sets * LineSize \in Nat \ {0}
  BY GeometryAssumption, ProductPos
<1>2. off \div (sets * LineSize) < ways
  BY <1>1, QuotientBound
<1> QED BY <1>2, WrapShape

\* An index whose page exists is an index of g_shadow_mem.
LEMMA InShadow ==
  ASSUME NEW a \in Nat, PageOf(a) < ShadowPages
  PROVE  a \in Addr
<1>1. a < ShadowPages * PageInts
  BY PagePos, GeometryAssumption, ProductBound DEF PageOf
<1>2. ShadowPages * PageInts \in Nat
  BY PagePos, GeometryAssumption, ProductNat
<1> QED BY <1>1, <1>2 DEF Addr, ShadowInts

-----------------------------------------------------------------------------
(* The division of the sets *)

\* The sizes the regions are counted in are positive.
LEMMA SizesPos ==
  /\ ActiveSetSize \in Nat \ {0}
  /\ ReadNobSize \in Nat \ {0}
  BY GeometryAssumption, ProductPos DEF ActiveSetSize, ReadNobSize

\* The share a floor division gives the writers is no more than all.
LEMMA Share ==
  ASSUME NEW left \in Nat, NEW w \in Nat, NEW r \in Nat, w + r # 0
  PROVE  (left * w) \div (w + r) \in 0 .. left
<1> DEFINE c == w + r
<1>1. c \in Nat \ {0} /\ left * w \in Nat
  BY ProductNat
<1>2. (left * w) \div c \in Nat
  BY <1>1, Division
<1>3. left * w < (left + 1) * c
  <2>1. w * left <= c * left
    BY ProductMonotone
  <2>2. w * left = left * w /\ c * left = left * c
    BY <1>1
  <2>3. (left + 1) * c = left * c + c /\ left * c \in Nat
    BY <1>1
  <2> HIDE DEF c
  <2> QED BY <1>1, <2>1, <2>2, <2>3
<1>4. (left * w) \div c < left + 1
  <2> DEFINE x == left * w
  <2>1. x \in Nat /\ x < (left + 1) * c
    BY <1>1, <1>3
  <2> HIDE DEF x, c
  <2>2. x \div c < left + 1
    BY <1>1, <2>1, QuotientBound
  <2> QED BY <2>2 DEF x
<1> HIDE DEF c
<1>5. (left * w) \div c \in 0 .. left
  BY <1>2, <1>4
<1> QED BY <1>5 DEF c

\* When the arrays fit, what begin_leaky_sec writes into the ALLOC record is a
\* partition of the sets.
LEMMA DivideIsPartition ==
  ASSUME NEW n \in Nat, NEW rn \in Nat, NEW r \in Nat, NEW w \in Nat,
         NEW old \in Alloc,
         NobFits(n), ReadNobFits(n, rn),
         w = 0 /\ r = 0 => old.ob_r = 0 /\ old.ob_w = 0
  PROVE  /\ Partition(Divide(n, rn, r, w, old))
         /\ Divide(n, rn, r, w, old).nob_w = NobSets(n)
         /\ Divide(n, rn, r, w, old).nob_r = ReadNobSets(rn)
         /\ w = 0 /\ r = 0 => /\ Divide(n, rn, r, w, old).ob_r = 0
                              /\ Divide(n, rn, r, w, old).ob_w = 0
<1> DEFINE left == SetsLeft(n, rn)
           al   == Divide(n, rn, r, w, old)
<1>1. NobSets(n) \in Nat \ {0} /\ ReadNobSets(rn) \in Nat \ {0}
  BY SizesPos, Division DEF NobSets, ReadNobSets
<1>2. left \in Nat /\ 1 + left + NobSets(n) + ReadNobSets(rn) = L1Sets
  BY <1>1, GeometryAssumption DEF ReadNobFits, SetsLeft
<1> HIDE DEF left
<1>3. CASE w = 0 /\ r = 0
  <2>1. al = [meta |-> 1, ob_w |-> 0, ob_r |-> 0,
              nob_w |-> NobSets(n), nob_r |-> ReadNobSets(rn)]
    BY <1>3 DEF Divide, Alloc
  <2>2. al \in Alloc
    BY <1>1, <2>1 DEF Alloc
  <2>3. al.meta = 1 /\ al.nob_w = NobSets(n) /\ al.nob_r = ReadNobSets(rn)
        /\ al.ob_r = 0 /\ al.ob_w = 0
    BY <1>3, <2>1 DEF Alloc
  <2> HIDE DEF al
  <2>4. Partition(al)
    BY <1>1, <1>2, <2>2, <2>3 DEF Partition
  <2> QED BY <2>3, <2>4 DEF al
<1>4. CASE ~(w = 0 /\ r = 0)
  <2> DEFINE ob_w == (left * w) \div (w + r)
  <2>1. ob_w \in 0 .. left
    BY <1>2, <1>4, Share
  <2> HIDE DEF ob_w
  <2>2. al = [meta |-> 1, ob_w |-> ob_w, ob_r |-> left - ob_w,
              nob_w |-> NobSets(n), nob_r |-> ReadNobSets(rn)]
    BY <1>4 DEF Divide, left, ob_w
  <2> HIDE DEF al
  <2>3. al \in Alloc
    BY <1>1, <1>2, <2>1, <2>2 DEF Alloc
  <2>4. al.meta = 1 /\ al.nob_w = NobSets(n) /\ al.nob_r = ReadNobSets(rn)
        /\ al.ob_r = left - ob_w /\ al.ob_w = ob_w
    BY <2>2
  <2>5. Partition(al)
    BY <1>1, <1>2, <2>1, <2>3, <2>4 DEF Partition
  <2> QED BY <1>4, <2>4, <2>5 DEF al
<1> QED BY <1>3, <1>4

\* The slots of `count` iterators fill no more than their region, and with no
\* more iterators than ints in a set none of them is empty.
LEMMA Slots ==
  ASSUME NEW sets \in Nat, NEW count \in Nat \ {0}
  PROVE  /\ SlotSize(sets, count) \in Nat
         /\ \A k \in 0 .. count - 1 :
              (k + 1) * SlotSize(sets, count) <= sets * ActiveSetSize
         /\ sets # 0 /\ count <= ActiveSetSize => SlotSize(sets, count) # 0
         /\ sets = 0 => SlotSize(sets, count) = 0
<1> DEFINE all  == sets * ActiveSetSize
           slot == all \div count
<1>1. all \in Nat
  BY SizesPos, ProductNat
<1>2. /\ slot \in Nat /\ all % count \in Nat /\ all % count < count
      /\ all = slot * count + (all % count)
  BY <1>1, Division
<1>3. slot * count <= all
  <2>1. slot * count \in Nat
    BY <1>2, ProductNat
  <2> HIDE DEF all, slot
  <2> QED BY <1>1, <1>2, <2>1
<1>4. ASSUME NEW k \in 0 .. count - 1
      PROVE  (k + 1) * slot <= all
  <2> HIDE DEF all, slot
  <2>1. (k + 1) * slot <= count * slot
    BY <1>2, <1>4, ProductMonotone
  <2>2. count * slot = slot * count /\ count * slot \in Nat /\ (k + 1) * slot \in Nat
    BY <1>2, <1>4
  <2> QED BY <1>1, <1>3, <2>1, <2>2
<1>5. ASSUME sets # 0, count <= ActiveSetSize
      PROVE  slot # 0
  <2>1. 1 * ActiveSetSize <= sets * ActiveSetSize
    BY <1>5, SizesPos, ProductMonotone
  <2>2. count <= all
    BY <1>1, <1>5, <2>1, SizesPos
  <2> HIDE DEF all, slot
  <2>3. CASE slot = 0
    <3>1. slot * count = 0
      BY <2>3
    <3> QED BY <1>1, <1>2, <2>2, <3>1
  <2> QED BY <2>3
<1>6. ASSUME sets = 0
      PROVE  slot = 0
  <2>1. all = 0
    BY <1>6, SizesPos
  <2> HIDE DEF all
  <2> QED BY <2>1, Division
<1> HIDE DEF all, slot
<1>7. SlotSize(sets, count) = slot
  BY DEF SlotSize, slot, all
<1> QED BY <1>2, <1>4, <1>5, <1>6, <1>7 DEF all

-----------------------------------------------------------------------------
(* How deep a region gets *)

\* The arithmetic of three shares of what is left.
LEMMA Regroup ==
  ASSUME NEW a \in Nat, NEW b \in Nat, NEW c \in Nat
  PROVE  a * (b * c) = b * (a * c)
  BY SMT

\* The iterators of a region fill at most ActiveWays lines of each of its sets.
LEMMA IteratorDepth ==
  ASSUME NEW sets \in Nat, NEW off \in Nat, off < sets * ActiveSetSize
  PROVE  off < ActiveWays * (sets * LineSize)
  BY Regroup, GeometryAssumption DEF ActiveSetSize

\* So do the arrays.
LEMMA NobDepth ==
  ASSUME NEW n \in Nat, NEW off \in Nat, off < n
  PROVE  /\ NobSets(n) \in Nat \ {0}
         /\ n < NobSets(n) * ActiveSetSize
         /\ off < ActiveWays * (NobSets(n) * LineSize)
<1>1. NobSets(n) \in Nat \ {0}
  BY SizesPos, Division DEF NobSets
<1>2. n < NobSets(n) * ActiveSetSize
  <2>1. n \div ActiveSetSize < NobSets(n)
    BY SizesPos, Division DEF NobSets
  <2> QED BY <1>1, <2>1, SizesPos, ProductBound
<1>3. off < NobSets(n) * ActiveSetSize
  <2>1. NobSets(n) * ActiveSetSize \in Nat
    BY <1>1, SizesPos, ProductNat
  <2> QED BY <1>2, <2>1
<1> QED BY <1>1, <1>2, <1>3, IteratorDepth

\* The read-only arrays, whose offsets begin where those of the other arrays
\* end, stay inside the pages of the shadow memory.
LEMMA ReadNobDepth ==
  ASSUME NEW n \in Nat, NEW rn \in Nat, NobFits(n), ReadNobFits(n, rn),
         NEW off \in Nat, off < n + rn
  PROVE  /\ ReadNobSets(rn) \in Nat \ {0}
         /\ off < ShadowPages * (ReadNobSets(rn) * LineSize)
<1> DEFINE m == ReadNobSets(rn)
           u == m * LineSize
           h == L1Sets - 2
<1>1. m \in Nat \ {0} /\ NobSets(n) \in Nat \ {0}
  BY SizesPos, Division DEF ReadNobSets, NobSets
<1>2. h \in Nat /\ NobSets(n) <= h
  BY <1>1, GeometryAssumption DEF ReadNobFits
<1>3. u \in Nat \ {0} /\ LineSize <= u
  <2>1. 1 * LineSize <= m * LineSize
    BY <1>1, GeometryAssumption, ProductMonotone
  <2> QED BY <1>1, <2>1, GeometryAssumption, ProductPos
<1> HIDE DEF m, u, h
<1>4. rn < ReadNobWays * u
  <2>1. rn \div ReadNobSize < m
    BY SizesPos, Division DEF ReadNobSets, m
  <2>2. rn < m * ReadNobSize
    BY <1>1, <2>1, SizesPos, ProductBound
  <2>3. m * ReadNobSize = ReadNobWays * u
    BY <1>1, Regroup, GeometryAssumption DEF u, ReadNobSize
  <2> QED BY <2>2, <2>3
<1>5. n <= (h * ActiveWays) * u
  <2>1. n < NobSets(n) * ActiveSetSize /\ NobSets(n) * ActiveSetSize \in Nat
    <3>1. n \div ActiveSetSize < NobSets(n)
      BY SizesPos, Division DEF NobSets
    <3> QED BY <1>1, <3>1, SizesPos, ProductBound, ProductNat
  <2>2. NobSets(n) * ActiveSetSize <= h * ActiveSetSize
    BY <1>1, <1>2, SizesPos, ProductMonotone
  <2>3. h * ActiveSetSize = LineSize * (h * ActiveWays)
    BY <1>2, GeometryAssumption DEF ActiveSetSize
  <2>4. h * ActiveWays \in Nat
    BY <1>2, GeometryAssumption, ProductNat
  <2>5. LineSize * (h * ActiveWays) <= u * (h * ActiveWays)
    BY <1>3, <2>4, GeometryAssumption, ProductMonotone
  <2>6. u * (h * ActiveWays) = (h * ActiveWays) * u
    BY <1>3, <2>4
  <2>7. h * ActiveSetSize \in Nat /\ (h * ActiveWays) * u \in Nat
    BY <1>2, <1>3, <2>4, SizesPos, ProductNat
  <2> HIDE DEF h
  <2> QED BY <2>1, <2>2, <2>3, <2>5, <2>6, <2>7
<1>6. off < (h * ActiveWays) * u + ReadNobWays * u
  <2>1. h * ActiveWays \in Nat
    BY <1>2, GeometryAssumption, ProductNat
  <2>2. (h * ActiveWays) * u \in Nat /\ ReadNobWays * u \in Nat
    BY <1>3, <2>1, GeometryAssumption, ProductNat
  <2> QED BY <1>4, <1>5, <2>2
<1>7. (h * ActiveWays) * u + ReadNobWays * u <= ShadowPages * u
  <2> DEFINE x == h * ActiveWays
  <2>1. x \in Nat
    BY <1>2, GeometryAssumption, ProductNat
  <2>2. x + ReadNobWays <= ShadowPages
    BY CapacityAssumption DEF h
  <2> HIDE DEF x
  <2>3. (x + ReadNobWays) * u <= ShadowPages * u
    BY <1>3, <2>1, <2>2, GeometryAssumption, ProductMonotone
  <2>4. (x + ReadNobWays) * u = x * u + ReadNobWays * u
    BY <1>3, <2>1, GeometryAssumption
  <2> QED BY <2>3, <2>4 DEF x
<1>8. off < ShadowPages * u
  <2> DEFINE x == (h * ActiveWays) * u
             y == ReadNobWays * u
             z == ShadowPages * u
  <2>1. h * ActiveWays \in Nat
    BY <1>2, GeometryAssumption, ProductNat
  <2>2. x \in Nat /\ y \in Nat /\ z \in Nat
    BY <1>3, <2>1, GeometryAssumption, ProductNat
  <2>3. off < x + y /\ x + y <= z
    BY <1>6, <1>7
  <2> HIDE DEF x, y, z
  <2>4. off < z
    BY <2>2, <2>3
  <2> QED BY <2>4 DEF z
<1> QED BY <1>1, <1>8 DEF m, u

-----------------------------------------------------------------------------
(* The region of an object *)

RegionSets(k) ==
  CASE k = "r_ob"  -> alloc.ob_r
    [] k = "w_ob"  -> alloc.ob_w
    [] k = "nob"   -> alloc.nob_w
    [] k = "r_nob" -> alloc.nob_r

RegionBase(k) ==
  CASE k = "r_ob"  -> alloc.meta
    [] k = "w_ob"  -> alloc.meta + alloc.ob_r
    [] k = "nob"   -> alloc.meta + alloc.ob_r + alloc.ob_w
    [] k = "r_nob" -> alloc.meta + alloc.ob_r + alloc.ob_w + alloc.nob_w

RegionDepth(k) == IF k = "r_nob" THEN ShadowPages ELSE ActiveWays

\* Min2 is the lesser of two numbers.
LEMMA Min2Facts ==
  ASSUME NEW a \in Nat, NEW b \in Nat
  PROVE  Min2(a, b) \in Nat /\ Min2(a, b) <= a /\ Min2(a, b) <= b
         /\ (Min2(a, b) = a \/ Min2(a, b) = b)
  BY DEF Min2

\* The vectors' view of one object.
LEMMA ObjectFacts ==
  ASSUME IInv, NEW s \in Objects, obj[s].kind # "none"
  PROVE  /\ obj[s].kind \in AllKinds
         /\ obj[s].len \in Nat /\ obj[s].idx \in Nat /\ obj[s].before \in Nat
         /\ vec[obj[s].kind].size \in Nat \ {0}
         /\ vec[obj[s].kind].size <= MaxObjects
         /\ vec[obj[s].kind].total \in Nat
         /\ obj[s].idx < vec[obj[s].kind].size
         /\ obj[s].before + obj[s].len <= vec[obj[s].kind].total
<1>1. obj[s].kind \in AllKinds /\ obj[s].len \in Nat /\ obj[s].idx \in Nat
      /\ obj[s].before \in Nat
  BY DEF IInv, TypeOK
<1>2. vec[obj[s].kind].size \in Nat /\ vec[obj[s].kind].total \in Nat
  BY <1>1 DEF IInv, TypeOK
<1>3. /\ obj[s].idx < vec[obj[s].kind].size
      /\ obj[s].before + obj[s].len <= vec[obj[s].kind].total
      /\ vec[obj[s].kind].size <= MaxObjects
  BY <1>1 DEF IInv, VectorsOK
<1> QED BY <1>1, <1>2, <1>3

\* The slot of an iterator.
LEMMA SlotFacts ==
  ASSUME IInv, NEW s \in Iterators
  PROVE  /\ StreamSets(s) \in Nat
         /\ Slot(s) \in Nat
         /\ (obj[s].idx + 1) * Slot(s) <= StreamSets(s) * ActiveSetSize
         /\ StreamSets(s) # 0 => Slot(s) # 0
         /\ StreamSets(s) = 0 => Slot(s) = 0
<1>1. s \in Objects /\ obj[s].kind \in {"r_ob", "w_ob"}
  BY DEF Iterators, OfKind
<1>2. StreamSets(s) \in Nat
  BY DEF StreamSets, IInv, TypeOK, Alloc
<1>3. /\ vec[obj[s].kind].size \in Nat \ {0}
      /\ vec[obj[s].kind].size <= ActiveSetSize
      /\ obj[s].idx \in 0 .. vec[obj[s].kind].size - 1
  BY <1>1, ObjectFacts, ClientAssumption, SizesPos
<1> QED BY <1>2, <1>3, Slots DEF Slot

\* The counts and lengths of a kind of object are natural numbers.
LEMMA Totals ==
  ASSUME IInv, NEW k \in AllKinds
  PROVE  vec[k].total \in Nat /\ vec[k].size \in Nat
  BY DEF IInv, TypeOK

\* Every offset a section holds lies in the region of its object, no deeper
\* than the region may be.
LEMMA LiveCell ==
  ASSUME IInv, phase = "leaky", NEW s \in Objects, NEW i \in Live(s)
  PROVE  /\ obj[s].kind \in AllKinds
         /\ i \in Nat /\ shadow_mem[s] + i \in Nat
         /\ RegionSets(obj[s].kind) \in Nat \ {0}
         /\ RegionBase(obj[s].kind) \in Nat \ {0}
         /\ RegionBase(obj[s].kind) + RegionSets(obj[s].kind) <= L1Sets
         /\ shadow_mem[s] + i
              < RegionDepth(obj[s].kind) * (RegionSets(obj[s].kind) * LineSize)
         /\ Cell(s, i) = Wrap(shadow_mem[s] + i, RegionSets(obj[s].kind),
                              RegionBase(obj[s].kind))
<1> DEFINE k == obj[s].kind
<1>1. k # "none"
  <2>1. CASE k = "none"
    <3>1. obj[s].len = 0
      BY <2>1 DEF IInv, VectorsOK
    <3>2. s \notin Iterators
      BY <2>1 DEF Iterators, OfKind
    <3> QED BY <3>1, <3>2 DEF Live
  <2> QED BY <2>1
<1>2. /\ k \in AllKinds
      /\ obj[s].len \in Nat /\ obj[s].idx \in Nat /\ obj[s].before \in Nat
      /\ vec[k].total \in Nat
      /\ obj[s].before + obj[s].len <= vec[k].total
  BY <1>1, ObjectFacts
<1>3. Partition(alloc)
  BY DEF IInv, SlotsOK
<1>4. /\ alloc.ob_r \in Nat /\ alloc.ob_w \in Nat
      /\ alloc.nob_w \in Nat \ {0} /\ alloc.nob_r \in Nat \ {0} /\ alloc.meta = 1
      /\ 1 + alloc.ob_r + alloc.ob_w + alloc.nob_w + alloc.nob_r <= L1Sets
  BY <1>3 DEF Partition, Alloc
<1>5. /\ RegionBase(k) \in Nat \ {0} /\ RegionSets(k) \in Nat
      /\ RegionBase(k) + RegionSets(k) <= L1Sets
  BY <1>2, <1>4, GeometryAssumption DEF RegionBase, RegionSets, AllKinds
<1>6. Cell(s, i) = Wrap(shadow_mem[s] + i, RegionSets(k), RegionBase(k))
  BY <1>2 DEF Cell, RegionSets, RegionBase, AllKinds,
              cal_ob, cal_ob_rw, cal_nob, cal_read_nob
<1>7. CASE s \in Iterators
  <2>1. k \in {"r_ob", "w_ob"} /\ RegionSets(k) = StreamSets(s)
        /\ RegionDepth(k) = ActiveWays
    BY <1>7 DEF Iterators, OfKind, RegionSets, StreamSets, RegionDepth
  <2>2. /\ shadow_mem_pos[s] \in Nat /\ shadow_mem_len[s] \in Nat
        /\ shadow_mem_pos[s] <= obj[s].len
        /\ shadow_mem_len[s] = Min2(Slot(s), obj[s].len - shadow_mem_pos[s])
    BY <1>7 DEF IInv, TypeOK, ChunksOK
  <2>3. /\ StreamSets(s) \in Nat /\ Slot(s) \in Nat
        /\ (obj[s].idx + 1) * Slot(s) <= StreamSets(s) * ActiveSetSize
        /\ StreamSets(s) = 0 => Slot(s) = 0
    BY <1>7, SlotFacts
  <2>4. i \in Nat /\ i < Slot(s) /\ i < obj[s].len - shadow_mem_pos[s]
    <3> DEFINE rest == obj[s].len - shadow_mem_pos[s]
    <3>1. rest \in Nat
      BY <1>2, <2>2
    <3>2. i \in 0 .. shadow_mem_len[s] - 1
      BY <1>7 DEF Live
    <3> HIDE DEF rest
    <3>3. Min2(Slot(s), rest) <= Slot(s) /\ Min2(Slot(s), rest) <= rest
      BY <2>3, <3>1, Min2Facts
    <3>4. shadow_mem_len[s] <= Slot(s) /\ shadow_mem_len[s] <= rest
      BY <2>2, <3>3 DEF rest
    <3>5. i \in Nat /\ i < Slot(s) /\ i < rest
      BY <2>2, <2>3, <3>1, <3>2, <3>4
    <3> QED BY <3>5 DEF rest
  <2>5. Streaming
    <3>1. vec[k].total # 0
      BY <1>2, <2>2, <2>4
    <3> QED BY <2>1, <3>1 DEF Streaming
  <2>6. shadow_mem[s] = obj[s].idx * Slot(s)
    BY <1>7, <2>5 DEF IInv, SlotsOK
  <2>7. shadow_mem[s] \in Nat /\ shadow_mem[s] + i < StreamSets(s) * ActiveSetSize
    <3>1. (obj[s].idx + 1) * Slot(s) = shadow_mem[s] + Slot(s) /\ shadow_mem[s] \in Nat
      BY <1>2, <2>3, <2>6
    <3>2. StreamSets(s) * ActiveSetSize \in Nat
      BY <2>3, SizesPos, ProductNat
    <3> QED BY <2>3, <2>4, <3>1, <3>2
  <2>8. shadow_mem[s] + i < ActiveWays * (StreamSets(s) * LineSize)
    BY <2>3, <2>4, <2>7, IteratorDepth
  <2>9. StreamSets(s) # 0
    BY <2>3, <2>4
  <2> QED BY <1>2, <1>5, <1>6, <2>1, <2>3, <2>4, <2>7, <2>8, <2>9
<1>8. CASE s \notin Iterators
  <2>1. k \in {"nob", "r_nob"}
    BY <1>2, <1>8 DEF Iterators, OfKind, AllKinds
  <2>2. i \in 0 .. obj[s].len - 1
    BY <1>8 DEF Live
  <2>3. CASE k = "nob"
    <3>1. shadow_mem[s] = obj[s].before /\ alloc.nob_w = NobSets(vec[k].total)
      BY <2>3 DEF IInv, SlotsOK, OfKind
    <3>2. shadow_mem[s] + i \in Nat /\ shadow_mem[s] + i < vec[k].total
      BY <1>2, <2>2, <3>1
    <3>3. shadow_mem[s] + i < ActiveWays * (NobSets(vec[k].total) * LineSize)
      BY <1>2, <3>2, NobDepth
    <3>4. RegionSets(k) = NobSets(vec[k].total) /\ RegionDepth(k) = ActiveWays
      BY <2>3, <3>1 DEF RegionSets, RegionDepth
    <3>5. RegionSets(k) # 0
      BY <1>4, <2>3 DEF RegionSets
    <3> QED BY <1>2, <1>5, <1>6, <2>2, <3>2, <3>3, <3>4, <3>5
  <2>4. CASE k = "r_nob"
    <3>1. /\ shadow_mem[s] = vec["nob"].total + obj[s].before
          /\ alloc.nob_r = ReadNobSets(vec[k].total) /\ SectionFits
      BY <2>4 DEF IInv, SlotsOK, OfKind
    <3>2. vec["nob"].total \in Nat
      BY Totals DEF AllKinds
    <3>3. /\ shadow_mem[s] + i \in Nat
          /\ shadow_mem[s] + i < vec["nob"].total + vec[k].total
      BY <1>2, <2>2, <3>1, <3>2
    <3>4. NobFits(vec["nob"].total) /\ ReadNobFits(vec["nob"].total, vec[k].total)
      BY <2>4, <3>1 DEF SectionFits
    <3>5. shadow_mem[s] + i < ShadowPages * (ReadNobSets(vec[k].total) * LineSize)
      BY <1>2, <3>2, <3>3, <3>4, ReadNobDepth
    <3>6. RegionSets(k) = ReadNobSets(vec[k].total) /\ RegionDepth(k) = ShadowPages
      BY <2>4, <3>1 DEF RegionSets, RegionDepth
    <3>7. RegionSets(k) # 0
      BY <1>4, <2>4 DEF RegionSets
    <3> QED BY <1>2, <1>5, <1>6, <2>2, <3>3, <3>5, <3>6, <3>7
  <2> QED BY <2>1, <2>3, <2>4
<1> QED BY <1>7, <1>8

-----------------------------------------------------------------------------
(* No two ints of a section share an index *)

\* A live int is inside g_shadow_mem and not in a line of the metadata.
LEMMA CellSafe ==
  ASSUME IInv, phase = "leaky", NEW s \in Objects, NEW i \in Live(s)
  PROVE  /\ Cell(s, i) \in Addr /\ Cell(s, i) \notin Metadata
         /\ PageOf(Cell(s, i)) \in Nat
         /\ PageOf(Cell(s, i)) < RegionDepth(obj[s].kind)
<1> DEFINE k == obj[s].kind
           a == Cell(s, i)
<1>1. /\ shadow_mem[s] + i \in Nat
      /\ RegionSets(k) \in Nat \ {0} /\ RegionBase(k) \in Nat \ {0}
      /\ RegionBase(k) + RegionSets(k) <= L1Sets
      /\ shadow_mem[s] + i < RegionDepth(k) * (RegionSets(k) * LineSize)
      /\ a = Wrap(shadow_mem[s] + i, RegionSets(k), RegionBase(k))
  BY LiveCell
<1>2. RegionDepth(k) \in Nat /\ RegionDepth(k) <= ShadowPages
  BY GeometryAssumption, CapacityAssumption DEF RegionDepth
<1> HIDE DEF a, k
<1>3. a \in Nat /\ SetOf(a) \in RegionBase(k) .. RegionBase(k) + RegionSets(k) - 1
  BY <1>1, WrapShape
<1>4. PageOf(a) < RegionDepth(k)
  BY <1>1, <1>2, WrapPages
<1>5. PageOf(a) \in Nat
  BY <1>3, PagePos, Division DEF PageOf
<1>6. a \in Addr
  BY <1>2, <1>3, <1>4, <1>5, InShadow, GeometryAssumption
<1>7. SetOf(a) # 0
  BY <1>1, <1>3
<1> QED BY <1>4, <1>5, <1>6, <1>7 DEF Metadata, a, k

\* The regions of two kinds lie side by side.
LEMMA RegionsApart ==
  ASSUME IInv, phase = "leaky", NEW k \in AllKinds, NEW l \in AllKinds, k # l
  PROVE  \/ RegionBase(k) + RegionSets(k) <= RegionBase(l)
         \/ RegionBase(l) + RegionSets(l) <= RegionBase(k)
<1>1. Partition(alloc)
  BY DEF IInv, SlotsOK
<1>2. /\ alloc.ob_r \in Nat /\ alloc.ob_w \in Nat
      /\ alloc.nob_w \in Nat /\ alloc.nob_r \in Nat /\ alloc.meta \in Nat
  BY <1>1 DEF Partition, Alloc
<1> QED BY <1>2 DEF RegionBase, RegionSets, AllKinds

\* Two objects of a kind have different offsets.
LEMMA SlotsApart ==
  ASSUME IInv, phase = "leaky",
         NEW s \in Objects, NEW i \in Live(s), NEW t \in Objects, NEW j \in Live(t),
         s # t, obj[s].kind = obj[t].kind
  PROVE  shadow_mem[s] + i # shadow_mem[t] + j
<1> DEFINE k == obj[s].kind
<1>1. k \in AllKinds /\ i \in Nat /\ j \in Nat
  BY LiveCell
<1>2. k # "none"
  BY <1>1 DEF AllKinds
<1>3. /\ obj[s].len \in Nat /\ obj[s].idx \in Nat /\ obj[s].before \in Nat
      /\ obj[t].len \in Nat /\ obj[t].idx \in Nat /\ obj[t].before \in Nat
  BY <1>2, ObjectFacts
<1>4. /\ obj[s].idx # obj[t].idx
      /\ \/ obj[s].before + obj[s].len <= obj[t].before
         \/ obj[t].before + obj[t].len <= obj[s].before
  BY <1>2 DEF IInv, VectorsOK, SameKind
<1>5. CASE s \in Iterators
  <2>1. t \in Iterators /\ StreamSets(s) = StreamSets(t) /\ Slot(s) = Slot(t)
    BY <1>5 DEF Iterators, OfKind, StreamSets, Slot
  <2>2. Slot(s) \in Nat
    BY <1>5, SlotFacts
  <2>3. /\ shadow_mem_pos[s] \in Nat /\ shadow_mem_pos[s] <= obj[s].len
        /\ shadow_mem_pos[t] \in Nat /\ shadow_mem_pos[t] <= obj[t].len
        /\ shadow_mem_len[s] = Min2(Slot(s), obj[s].len - shadow_mem_pos[s])
        /\ shadow_mem_len[t] = Min2(Slot(s), obj[t].len - shadow_mem_pos[t])
    BY <1>5, <2>1 DEF IInv, TypeOK, ChunksOK
  <2>4. i < Slot(s) /\ j < Slot(s) /\ i < obj[s].len - shadow_mem_pos[s]
    <3> DEFINE restS == obj[s].len - shadow_mem_pos[s]
               restT == obj[t].len - shadow_mem_pos[t]
    <3>1. restS \in Nat /\ restT \in Nat
      BY <1>3, <2>3
    <3>2. i \in 0 .. shadow_mem_len[s] - 1 /\ j \in 0 .. shadow_mem_len[t] - 1
      BY <1>5, <2>1 DEF Live
    <3> HIDE DEF restS, restT
    <3>3. /\ Min2(Slot(s), restS) \in Nat /\ Min2(Slot(s), restT) \in Nat
          /\ Min2(Slot(s), restS) <= Slot(s) /\ Min2(Slot(s), restS) <= restS
          /\ Min2(Slot(s), restT) <= Slot(s)
      BY <2>2, <3>1, Min2Facts
    <3>4. i < Slot(s) /\ j < Slot(s) /\ i < restS
      BY <2>2, <2>3, <3>1, <3>2, <3>3 DEF restS, restT
    <3> QED BY <3>4 DEF restS
  <2>5. Streaming
    <3>1. vec[k].total # 0 /\ k \in {"r_ob", "w_ob"}
      BY <1>1, <1>2, <1>3, <1>5, <2>3, <2>4, ObjectFacts DEF Iterators, OfKind
    <3> QED BY <3>1 DEF Streaming
  <2>6. /\ shadow_mem[s] = obj[s].idx * Slot(s)
        /\ shadow_mem[t] = obj[t].idx * Slot(s)
    BY <1>5, <2>1, <2>5 DEF IInv, SlotsOK
  <2>7. Slot(s) \in Nat \ {0}
    BY <1>1, <2>2, <2>4
  <2>8. /\ (obj[s].idx * Slot(s) + i) \div Slot(s) = obj[s].idx
        /\ (obj[t].idx * Slot(s) + j) \div Slot(s) = obj[t].idx
    BY <1>1, <1>3, <2>4, <2>7, QuotientUnique
  <2> QED BY <1>4, <2>6, <2>8
<1>6. CASE s \notin Iterators
  <2>1. t \notin Iterators /\ k \in {"nob", "r_nob"}
    BY <1>1, <1>6 DEF Iterators, OfKind, AllKinds
  <2>2. i < obj[s].len /\ j < obj[t].len
    BY <1>1, <1>3, <1>6, <2>1 DEF Live
  <2>3. \E b \in Nat : shadow_mem[s] = b + obj[s].before /\ shadow_mem[t] = b + obj[t].before
    <3>1. CASE k = "nob"
      <4>1. shadow_mem[s] = obj[s].before /\ shadow_mem[t] = obj[t].before
        BY <3>1 DEF IInv, SlotsOK, OfKind
      <4>2. shadow_mem[s] = 0 + obj[s].before /\ shadow_mem[t] = 0 + obj[t].before
        BY <1>3, <4>1
      <4> WITNESS 0 \in Nat
      <4> QED BY <4>2
    <3>2. CASE k = "r_nob"
      <4>1. /\ shadow_mem[s] = vec["nob"].total + obj[s].before
            /\ shadow_mem[t] = vec["nob"].total + obj[t].before
        BY <3>2 DEF IInv, SlotsOK, OfKind
      <4>2. vec["nob"].total \in Nat
        BY Totals DEF AllKinds
      <4> WITNESS vec["nob"].total \in Nat
      <4> QED BY <4>1
    <3> QED BY <2>1, <3>1, <3>2
  <2> QED BY <1>1, <1>3, <1>4, <2>2, <2>3
<1> QED BY <1>5, <1>6

\* No two ints that an open section holds share a place in shadow memory.
LEMMA CellsApart ==
  ASSUME IInv, phase = "leaky",
         NEW s \in Objects, NEW i \in Live(s), NEW t \in Objects, NEW j \in Live(t),
         Cell(s, i) = Cell(t, j)
  PROVE  s = t /\ i = j
<1> DEFINE k == obj[s].kind
           l == obj[t].kind
           m == shadow_mem[s] + i
           n == shadow_mem[t] + j
<1>1. /\ k \in AllKinds /\ m \in Nat /\ i \in Nat
      /\ RegionSets(k) \in Nat \ {0} /\ RegionBase(k) \in Nat \ {0}
      /\ RegionBase(k) + RegionSets(k) <= L1Sets
      /\ Cell(s, i) = Wrap(m, RegionSets(k), RegionBase(k))
  BY LiveCell
<1>2. /\ l \in AllKinds /\ n \in Nat /\ j \in Nat
      /\ RegionSets(l) \in Nat \ {0} /\ RegionBase(l) \in Nat \ {0}
      /\ RegionBase(l) + RegionSets(l) <= L1Sets
      /\ Cell(t, j) = Wrap(n, RegionSets(l), RegionBase(l))
  BY LiveCell
<1> HIDE DEF k, l, m, n
<1>3. CASE k # l
  <2>1. \/ RegionBase(k) + RegionSets(k) <= RegionBase(l)
        \/ RegionBase(l) + RegionSets(l) <= RegionBase(k)
    BY <1>1, <1>2, <1>3, RegionsApart
  <2>2. Wrap(m, RegionSets(k), RegionBase(k)) # Wrap(n, RegionSets(l), RegionBase(l))
    <3>1. CASE RegionBase(k) + RegionSets(k) <= RegionBase(l)
      BY <1>1, <1>2, <3>1, WrapApart
    <3>2. CASE RegionBase(l) + RegionSets(l) <= RegionBase(k)
      BY <1>1, <1>2, <3>2, WrapApart
    <3> QED BY <2>1, <3>1, <3>2
  <2> QED BY <1>1, <1>2, <2>2
<1>4. CASE k = l
  <2>1. m = n
    BY <1>1, <1>2, <1>4, WrapInjective
  <2>2. s = t
    BY <1>4, <2>1, SlotsApart DEF k, l, m, n
  <2>3. shadow_mem[s] \in Int
    BY DEF IInv, TypeOK
  <2> QED BY <1>1, <1>2, <2>1, <2>2, <2>3 DEF m, n
<1> QED BY <1>3, <1>4

\* The invariant gives every int an index of its own.
LEMMA IInvNoAlias == IInv => NoAlias
  BY CellSafe, CellsApart DEF NoAlias

\* The iterators and the arrays stay in the first ActiveWays pages, the metadata
\* in the first AllocPage + 1: no more pages than a set has ways.
LEMMA IInvL1Resident == IInv => L1Resident
<1> SUFFICES ASSUME IInv, phase = "leaky", NEW set \in 0 .. L1Sets - 1
             PROVE  LET cells == UNION {{Cell(s, i) : i \in Live(s)}
                                          : s \in {t \in Objects : obj[t].kind # "r_nob"}}
                    IN  Cardinality({PageOf(a) : a \in {b \in cells \cup Metadata : SetOf(b) = set}})
                          <= L1Ways
  BY DEF L1Resident
<1> DEFINE cells == UNION {{Cell(s, i) : i \in Live(s)}
                             : s \in {t \in Objects : obj[t].kind # "r_nob"}}
           pages == {PageOf(a) : a \in {b \in cells \cup Metadata : SetOf(b) = set}}
<1>1. L1Ways \in Nat /\ ActiveWays \in Nat /\ AllocPage \in Nat
      /\ ActiveWays <= L1Ways /\ AllocPage < L1Ways
  BY GeometryAssumption, CapacityAssumption
<1>2. ASSUME NEW a \in cells
      PROVE  PageOf(a) \in 0 .. L1Ways - 1
  <2>1. PICK s \in {t \in Objects : obj[t].kind # "r_nob"} :
          a \in {Cell(s, i) : i \in Live(s)}
    OBVIOUS
  <2>2. PICK i \in Live(s) : a = Cell(s, i)
    BY <2>1
  <2>3. PageOf(a) \in Nat /\ PageOf(a) < ActiveWays
    BY <2>2, CellSafe DEF RegionDepth
  <2> QED BY <1>1, <2>3
<1>3. ASSUME NEW a \in Metadata
      PROVE  PageOf(a) \in 0 .. L1Ways - 1
  BY <1>1 DEF Metadata
<1>4. pages \subseteq 0 .. L1Ways - 1
  BY <1>2, <1>3
<1> HIDE DEF pages
<1>5. IsFiniteSet(0 .. L1Ways - 1) /\ Cardinality(0 .. L1Ways - 1) <= L1Ways
  <2> DEFINE m == L1Ways - 1
  <2>1. m \in Nat /\ m + 1 = L1Ways
    BY <1>1
  <2> HIDE DEF m
  <2>2. IsFiniteSet(0 .. m) /\ Cardinality(0 .. m) = IF 0 > m THEN 0 ELSE m - 0 + 1
    BY <2>1, FS_Interval
  <2>3. Cardinality(0 .. m) <= L1Ways
    BY <1>1, <2>1, <2>2
  <2> QED BY <2>2, <2>3 DEF m
<1>6. pages \in SUBSET (0 .. L1Ways - 1)
  BY <1>4
<1>7. /\ IsFiniteSet(pages) /\ Cardinality(pages) <= Cardinality(0 .. L1Ways - 1)
  BY <1>5, <1>6, FS_Subset
<1>8. Cardinality(pages) \in Nat /\ Cardinality(0 .. L1Ways - 1) \in Nat
  BY <1>5, <1>7, FS_CardinalityType
<1>9. Cardinality(pages) <= L1Ways
  BY <1>1, <1>5, <1>7, <1>8
<1> QED BY <1>9 DEF pages

\* A chunk is ready for the next access of its iterator.
LEMMA IInvChunkReady == IInv => ChunkReady
<1> SUFFICES ASSUME IInv, phase = "leaky", NEW s \in Iterators
             PROVE  /\ shadow_mem_pos[s] + shadow_mem_len[s] <= obj[s].len
                    /\ iter_pos[s] <= shadow_mem_len[s]
                    /\ Unfinished(s) /\ StreamSets(s) # 0
                         => iter_pos[s] < shadow_mem_len[s]
  BY DEF ChunkReady
<1> DEFINE rest == obj[s].len - shadow_mem_pos[s]
<1>1. s \in Objects
  BY DEF Iterators, OfKind
<1>2. /\ shadow_mem_pos[s] \in Nat /\ shadow_mem_pos[s] <= obj[s].len /\ obj[s].len \in Nat
      /\ iter_pos[s] \in Nat /\ iter_pos[s] <= shadow_mem_len[s]
      /\ shadow_mem_len[s] = Min2(Slot(s), rest)
      /\ iter_pos[s] = shadow_mem_len[s] /\ iter_pos[s] # 0 =>
           shadow_mem_pos[s] + iter_pos[s] = obj[s].len
  BY <1>1 DEF IInv, TypeOK, ChunksOK
<1>3. rest \in Nat
  BY <1>2
<1>4. Slot(s) \in Nat /\ (StreamSets(s) # 0 => Slot(s) # 0)
  BY SlotFacts
<1>5. /\ Min2(Slot(s), rest) \in Nat /\ Min2(Slot(s), rest) <= rest
      /\ Min2(Slot(s), rest) = Slot(s) \/ Min2(Slot(s), rest) = rest
  BY <1>3, <1>4, Min2Facts
<1> QED BY <1>2, <1>3, <1>4, <1>5 DEF Unfinished

-----------------------------------------------------------------------------
(* What the parts of the actions do to the types *)

\* Copying a chunk into shadow memory leaves a shadow memory.
LEMMA StoreType ==
  ASSUME NEW sh \in [Addr -> Value], NEW stores,
         \A x \in stores : x[2] \in Value
  PROVE  Store(sh, stores) \in [Addr -> Value]
  BY DEF Store

\* The arrays stay arrays of their length.
LEMMA CopiedBackType ==
  ASSUME IInv, phase = "leaky", NEW sh \in [Addr -> Value],
         NEW s \in OfKind("w_ob")
  PROVE  CopiedBack(sh, s) \in [0 .. obj[s].len - 1 -> Value]
<1>1. s \in Objects /\ s \in Iterators
  BY DEF OfKind, Iterators
<1>2. data[s] \in [0 .. obj[s].len - 1 -> Value]
  BY <1>1 DEF IInv, TypeOK
<1>3. ASSUME NEW i \in 0 .. obj[s].len - 1,
             i - shadow_mem_pos[s] \in 0 .. shadow_mem_len[s] - 1
      PROVE  sh[Cell(s, i - shadow_mem_pos[s])] \in Value
  <2>1. i - shadow_mem_pos[s] \in Live(s)
    BY <1>1, <1>3 DEF Live
  <2>2. Cell(s, i - shadow_mem_pos[s]) \in Addr
    BY <1>1, <2>1, CellSafe
  <2> QED BY <2>2
<1> QED BY <1>2, <1>3 DEF CopiedBack

\* An iterator never gets past the end of its array.
LEMMA AdvancedFacts ==
  ASSUME IInv, phase = "leaky", NEW it \in [Objects -> Nat],
         \A s \in Iterators : it[s] <= shadow_mem_len[s]
  PROVE  /\ Advanced(it) \in [Objects -> Nat]
         /\ \A s \in Objects : Advanced(it)[s] <= obj[s].len
<1>1. \A s \in Objects : shadow_mem_pos[s] \in Nat /\ shadow_mem_pos[s] <= obj[s].len
                         /\ obj[s].len \in Nat
  BY DEF IInv, TypeOK, ChunksOK
<1>2. ASSUME NEW s \in Iterators
      PROVE  shadow_mem_pos[s] + it[s] <= obj[s].len
  <2>1. ChunkReady
    BY IInvChunkReady
  <2>2. s \in Objects /\ shadow_mem_pos[s] + shadow_mem_len[s] <= obj[s].len
    BY <2>1 DEF ChunkReady, Iterators, OfKind
  <2>3. shadow_mem_len[s] \in Nat
    BY <2>2 DEF IInv, TypeOK
  <2> QED BY <1>1, <1>2, <2>2, <2>3
<1> QED BY <1>1, <1>2 DEF Advanced

\* begin_tx leaves well-typed chunks, as long as slots and arrays allow.
LEMMA BeginTxFacts ==
  ASSUME IInv, NEW sh \in [Addr -> Value], begin_tx(sh),
         obj' = obj, vec' = vec, alloc' \in Alloc, ret' \in Value,
         shadow_mem_pos' \in [Objects -> Nat],
         \A s \in Objects : shadow_mem_pos'[s] <= obj[s].len,
         \A s \in Objects : data'[s] \in [0 .. obj[s].len - 1 -> Value]
  PROVE  /\ shadow_mem_len' \in [Objects -> Nat]
         /\ iter_pos' = [s \in Objects |-> 0]
         /\ shadow' \in [Addr -> Value]
         /\ chk' \in [shadow : [Addr -> Value], iter_pos : [Objects -> Nat], ret : Value]
         /\ chk'.iter_pos = [s \in Objects |-> 0]
         /\ \A s \in Iterators :
              shadow_mem_len'[s] = Min2(Slot(s)', obj[s].len - shadow_mem_pos'[s])
<1>1. ASSUME NEW s \in Iterators
      PROVE  /\ s \in Objects
             /\ Slot(s)' \in Nat
             /\ shadow_mem_len'[s] = Min2(Slot(s)', obj[s].len - shadow_mem_pos'[s])
             /\ shadow_mem_len'[s] \in Nat
             /\ shadow_mem_len'[s] <= obj[s].len - shadow_mem_pos'[s]
  <2>1. s \in Objects /\ obj[s].kind \in {"r_ob", "w_ob"}
    BY DEF Iterators, OfKind
  <2>2. StreamSets(s)' \in Nat
    BY DEF StreamSets, Alloc
  <2>3. vec[obj[s].kind].size \in Nat \ {0}
    BY <2>1, ObjectFacts
  <2>4. SlotSize(StreamSets(s)', vec[obj[s].kind].size) \in Nat
    BY <2>2, <2>3, Slots
  <2>5. Slot(s)' \in Nat
    BY <2>4 DEF Slot
  <2>6. obj[s].len - shadow_mem_pos'[s] \in Nat
    BY <2>1 DEF IInv, TypeOK
  <2>7. shadow_mem_len'[s] = Min2(Slot(s)', obj[s].len - shadow_mem_pos'[s])
    BY <2>1 DEF begin_tx
  <2> QED BY <2>1, <2>5, <2>6, <2>7, Min2Facts
<1>2. shadow_mem_len' \in [Objects -> Nat]
  <2>1. shadow_mem_len' = [s \in Objects |->
          IF s \in Iterators
          THEN Min2(Slot(s)', obj[s].len - shadow_mem_pos'[s]) ELSE 0]
    BY DEF begin_tx
  <2>2. \A s \in Objects : shadow_mem_len'[s] \in Nat
    BY <1>1, <2>1
  <2> QED BY <2>1, <2>2
<1>3. iter_pos' = [s \in Objects |-> 0] /\ iter_pos' \in [Objects -> Nat]
  BY DEF begin_tx
<1>4. shadow' \in [Addr -> Value]
  <2> DEFINE stores == UNION {
       {<<Cell(s, i)', data'[s][shadow_mem_pos'[s] + i]>>
          : i \in 0 .. shadow_mem_len'[s] - 1} : s \in Iterators}
  <2>1. ASSUME NEW x \in stores
        PROVE  x[2] \in Value
    <3>1. PICK s \in Iterators : x \in
            {<<Cell(s, i)', data'[s][shadow_mem_pos'[s] + i]>>
               : i \in 0 .. shadow_mem_len'[s] - 1}
      OBVIOUS
    <3>2. PICK i \in 0 .. shadow_mem_len'[s] - 1 :
            x = <<Cell(s, i)', data'[s][shadow_mem_pos'[s] + i]>>
      BY <3>1
    <3>3. obj[s].len \in Nat /\ shadow_mem_pos'[s] \in Nat
      BY <1>1 DEF IInv, TypeOK
    <3>4. shadow_mem_pos'[s] + i \in 0 .. obj[s].len - 1
      <4> DEFINE n == shadow_mem_len'[s]
                 p == shadow_mem_pos'[s]
                 m == obj[s].len
      <4>1. n \in Nat /\ p \in Nat /\ m \in Nat /\ n <= m - p /\ i \in 0 .. n - 1
        BY <1>1, <3>3
      <4> HIDE DEF n, p, m
      <4>2. p + i \in 0 .. m - 1
        BY <4>1
      <4> QED BY <4>2 DEF p, m
    <3>5. data'[s][shadow_mem_pos'[s] + i] \in Value
      BY <1>1, <3>4
    <3> QED BY <3>2, <3>5
  <2>2. shadow' = Store(sh, stores)
    BY DEF begin_tx
  <2> HIDE DEF stores
  <2> QED BY <2>1, <2>2, StoreType
<1>5. chk' = [shadow |-> shadow', iter_pos |-> iter_pos', ret |-> ret']
  BY DEF begin_tx
<1> QED BY <1>1, <1>2, <1>3, <1>4, <1>5

-----------------------------------------------------------------------------
(* The invariant is inductive *)

\* The initial state, no object registered, satisfies the invariant.
LEMMA InitIInv == Init => IInv
<1> SUFFICES ASSUME Init PROVE IInv
  OBVIOUS
<1> USE DEF Init, NoObject
<1>1. TypeOK
  BY ClientAssumption DEF TypeOK, Phases, AllKinds, Alloc, NoCheckpoint
<1>2. VectorsOK
  <2>1. MaxObjects \in Nat /\ \A k \in AllKinds : vec[k].size = 0
    BY ClientAssumption
  <2>2. 0 \in 0 .. MaxObjects /\ meta_pos = 0 * PageInts
    BY <2>1, PagePos
  <2> QED BY <2>1, <2>2 DEF VectorsOK, SameKind
<1>3. CursorsOK
  BY DEF CursorsOK
<1>4. SlotsOK
  BY DEF SlotsOK
<1>5. ChunksOK
  BY DEF ChunksOK
<1> QED BY <1>1, <1>2, <1>3, <1>4, <1>5 DEF IInv

\* A call outside a section that moves no object and opens no section.
LEMMA QuietStep ==
  ASSUME IInv, phase # "leaky",
         phase' = phase \/ phase' \in {"freed", "aborted", "trapped"},
         UNCHANGED <<sections, objects, cur_ob, cur_ob_rw, cur_nob, alloc,
                     shadow_mem_len, iter_pos, shadow, chk, ret>>,
         shadow_mem' \in [Objects -> Nat \cup {-1}],
         shadow_mem_pos' \in [Objects -> Nat],
         \A s \in Objects : shadow_mem_pos'[s] <= obj[s].len,
         data' = [x \in Objects |-> data'[x]],
         \A s \in Objects : data'[s] \in [0 .. obj[s].len - 1 -> Value]
  PROVE  IInv'
<1>1. phase' # "leaky" /\ phase' \in Phases /\ (phase' = "setup" => phase = "setup")
  BY DEF IInv, TypeOK, Phases
<1>2. TypeOK'
  BY <1>1 DEF IInv, TypeOK, objects
<1>3. VectorsOK'
  BY <1>1 DEF IInv, VectorsOK, SameKind, objects
<1>4. CursorsOK'
  BY <1>1 DEF IInv, CursorsOK
<1>5. SlotsOK'
  BY <1>1 DEF IInv, SlotsOK, Streaming, objects
<1>6. ChunksOK'
  BY <1>1 DEF IInv, ChunksOK, objects
<1> QED BY <1>2, <1>3, <1>4, <1>5, <1>6 DEF IInv

\* A step inside a section that leaves the slots alone.
LEMMA LayoutKept ==
  ASSUME IInv, UNCHANGED <<phase, objects, slots>>
  PROVE  VectorsOK' /\ CursorsOK' /\ SlotsOK'
<1>1. VectorsOK'
  BY DEF IInv, VectorsOK, SameKind, objects
<1>2. CursorsOK'
  BY DEF IInv, CursorsOK, slots
<1>3. SlotsOK'
  BY DEF IInv, SlotsOK, Streaming, SectionFits, Iterators, OfKind, StreamSets,
         Slot, objects, slots
<1> QED BY <1>1, <1>2, <1>3

\* In the setup phase meta_pos is the page of the next object.
LEMMA NextPage ==
  ASSUME IInv, phase = "setup"
  PROVE  LET n == meta_pos \div PageInts
         IN  /\ n \in 0 .. MaxObjects
             /\ meta_pos + PageInts = (n + 1) * PageInts
             /\ \A k \in AllKinds : vec[k].size <= n
             /\ \A s \in Objects : s >= n => obj[s].kind = "none"
<1>1. PICK n \in 0 .. MaxObjects :
        /\ meta_pos = n * PageInts
        /\ \A k \in AllKinds : vec[k].size <= n
        /\ \A s \in Objects : s >= n => obj[s].kind = "none"
  BY DEF IInv, VectorsOK
<1>2. n \in Nat
  BY ClientAssumption
<1> DEFINE m == n * PageInts
<1>3. (m + 0) \div PageInts = n
  BY <1>2, PagePos, QuotientUnique
<1>4. m \in Nat /\ (n + 1) * PageInts = m + PageInts
  BY <1>2, PagePos, ProductNat
<1>5. meta_pos = m
  BY <1>1
<1> HIDE DEF m
<1>6. meta_pos \div PageInts = n
  BY <1>3, <1>4, <1>5
<1> QED BY <1>1, <1>4, <1>5, <1>6

\* Registering an object appends it to the vector of its kind.
LEMMA RegisterStep ==
  ASSUME IInv, NEW k, NEW n \in Lens, Register(k, n),
         shadow_mem_len' \in [Objects -> Nat],
         shadow_mem_pos' \in [Objects -> Nat],
         iter_pos' \in [Objects -> Nat],
         \A s \in Objects : shadow_mem_pos'[s] <= shadow_mem_pos[s]
  PROVE  IInv'
<1> DEFINE s == meta_pos \div PageInts
           o == [kind |-> k, len |-> n, idx |-> vec[k].size, before |-> vec[k].total]
<1>1. /\ phase = "setup" /\ k \in AllKinds /\ n \in Nat /\ s < MaxObjects
      /\ obj' = [obj EXCEPT ![s] = o]
      /\ vec' = [vec EXCEPT ![k] = [size |-> @.size + 1, total |-> @.total + n]]
      /\ \E d \in Contents(s, n) : data' = [data EXCEPT ![s] = d]
      /\ meta_pos' = meta_pos + PageInts
      /\ UNCHANGED <<phase, sections, cur_ob, cur_ob_rw, cur_nob, shadow_mem,
                     alloc, shadow, chk, ret>>
  BY ClientAssumption DEF Register, slots
<1>2. /\ s \in 0 .. MaxObjects
      /\ meta_pos' = (s + 1) * PageInts
      /\ \A l \in AllKinds : vec[l].size <= s
      /\ \A t \in Objects : t >= s => obj[t].kind = "none"
  BY <1>1, NextPage
<1> HIDE DEF s
<1>3. s \in Objects /\ s \in Nat /\ MaxObjects \in Nat
  BY <1>1, <1>2, ClientAssumption DEF Objects
<1>4. o \in [kind : AllKinds \cup {"none"}, len : Nat, idx : Nat, before : Nat]
      /\ vec[k].size \in Nat /\ vec[k].total \in Nat
  BY <1>1 DEF IInv, TypeOK
<1>5a. /\ obj' \in [Objects -> [kind : AllKinds \cup {"none"}, len : Nat,
                                idx : Nat, before : Nat]]
       /\ obj'[s] = o
       /\ \A t \in Objects : t # s => obj'[t] = obj[t]
  BY <1>1, <1>3, <1>4 DEF IInv, TypeOK
<1>5b. /\ vec' \in [AllKinds -> [size : Nat, total : Nat]]
       /\ vec'[k] = [size |-> vec[k].size + 1, total |-> vec[k].total + n]
       /\ \A l \in AllKinds : l # k => vec'[l] = vec[l]
  <2>1. vec \in [AllKinds -> [size : Nat, total : Nat]]
    BY DEF IInv, TypeOK
  <2>2. [size |-> vec[k].size + 1, total |-> vec[k].total + n] \in [size : Nat, total : Nat]
    BY <1>1, <1>4
  <2> QED BY <1>1, <2>1, <2>2
<1>5. obj'[s] = o /\ \A t \in Objects : t # s => obj'[t] = obj[t]
  BY <1>5a
<1> HIDE DEF o
<1>6. TypeOK'
  <2>1. meta_pos' \in Nat
    BY <1>1, PagePos DEF IInv, TypeOK
  <2>2. PICK d \in Contents(s, n) : data' = [data EXCEPT ![s] = d]
    BY <1>1 DEF s
  <2>3. d \in [0 .. n - 1 -> Value]
    BY <1>3, <2>2, ContentsAssumption DEF Objects
  <2>4. data' = [x \in Objects |-> data'[x]]
    BY <2>2 DEF IInv, TypeOK
  <2>5. ASSUME NEW t \in Objects
        PROVE  data'[t] \in [0 .. obj'[t].len - 1 -> Value]
    <3>1. CASE t = s
      <4>1. data'[t] = d
        BY <2>2, <3>1 DEF IInv, TypeOK
      <4>2. obj'[t].len = n
        BY <1>5, <3>1 DEF o
      <4> QED BY <2>3, <4>1, <4>2
    <3>2. CASE t # s
      <4>1. data'[t] = data[t] /\ obj'[t] = obj[t]
        BY <1>5, <2>2, <3>2 DEF IInv, TypeOK
      <4> QED BY <4>1 DEF IInv, TypeOK
    <3> QED BY <3>1, <3>2
  <2> QED BY <1>1, <1>5a, <1>5b, <2>1, <2>4, <2>5 DEF IInv, TypeOK
<1>7. VectorsOK'
  <2>1. \A l \in AllKinds : vec'[l].size <= s + 1 /\ vec'[l].size <= MaxObjects
    <3>1. ASSUME NEW l \in AllKinds
          PROVE  vec'[l].size <= s + 1
      <4>1. vec[l].size \in Nat /\ vec[l].size <= s
        BY <1>2 DEF IInv, TypeOK
      <4> QED BY <1>1, <1>3, <1>4, <1>5b, <4>1
    <3>2. ASSUME NEW l \in AllKinds
          PROVE  vec'[l].size \in Nat
      BY <1>5b
    <3> QED BY <1>1, <1>3, <3>1, <3>2
  <2>2. \E m \in 0 .. MaxObjects :
          /\ meta_pos' = m * PageInts
          /\ \A l \in AllKinds : vec'[l].size <= m
          /\ \A t \in Objects : t >= m => obj'[t].kind = "none"
    <3>1. s + 1 \in 0 .. MaxObjects
      BY <1>1, <1>3
    <3>2. ASSUME NEW t \in Objects, t >= s + 1
          PROVE  obj'[t].kind = "none"
      <4>1. t \in Int
        BY <1>3 DEF Objects
      <4>2. t >= s /\ t # s
        BY <1>3, <3>2, <4>1
      <4> QED BY <1>2, <1>5, <4>2
    <3> QED BY <1>2, <2>1, <3>1, <3>2
  <2>3. ASSUME NEW t \in Objects
        PROVE  IF obj'[t].kind = "none" THEN obj'[t].len = 0
               ELSE /\ obj'[t].idx < vec'[obj'[t].kind].size
                    /\ obj'[t].before + obj'[t].len <= vec'[obj'[t].kind].total
    <3>1. CASE t = s
      BY <1>1, <1>4, <1>5, <1>5b, <3>1 DEF o, AllKinds
    <3>2. CASE t # s /\ obj[t].kind = "none"
      BY <1>5, <3>2 DEF IInv, VectorsOK
    <3>3. CASE t # s /\ obj[t].kind # "none"
      <4>1. /\ obj[t].kind \in AllKinds
            /\ obj[t].len \in Nat /\ obj[t].idx \in Nat /\ obj[t].before \in Nat
            /\ vec[obj[t].kind].size \in Nat /\ vec[obj[t].kind].total \in Nat
            /\ obj[t].idx < vec[obj[t].kind].size
            /\ obj[t].before + obj[t].len <= vec[obj[t].kind].total
        BY <3>3, ObjectFacts
      <4> QED BY <1>1, <1>4, <1>5, <1>5b, <3>3, <4>1
    <3> QED BY <3>1, <3>2, <3>3
  <2>4. ASSUME NEW t \in Objects, NEW u \in Objects, t # u, SameKind(t, u)'
        PROVE  /\ obj'[t].idx # obj'[u].idx
               /\ \/ obj'[t].before + obj'[t].len <= obj'[u].before
                  \/ obj'[u].before + obj'[u].len <= obj'[t].before
    <3>1. obj'[t].kind = obj'[u].kind /\ obj'[t].kind # "none"
      BY <2>4 DEF SameKind
    <3>2. ASSUME NEW v \in Objects, v # s, obj[v].kind = k
          PROVE  /\ obj[v].idx # vec[k].size
                 /\ obj[v].before + obj[v].len <= vec[k].total
      BY <1>1, <1>4, <3>2, ObjectFacts DEF AllKinds
    <3>3. CASE t = s
      BY <1>5, <2>4, <3>1, <3>2, <3>3 DEF o
    <3>4. CASE u = s
      BY <1>5, <2>4, <3>1, <3>2, <3>4 DEF o
    <3>5. CASE t # s /\ u # s
      BY <1>5, <2>4, <3>1, <3>5 DEF IInv, VectorsOK, SameKind
    <3> QED BY <3>3, <3>4, <3>5
  <2> QED BY <2>1, <2>2, <2>3, <2>4 DEF VectorsOK
<1>8. CursorsOK'
  BY <1>1 DEF IInv, CursorsOK
<1>9. SlotsOK'
  <2>1. ~Streaming' => ~Streaming
    <3>1. ASSUME NEW l \in AllKinds, vec'[l].total = 0
          PROVE  vec[l].total = 0
      BY <1>1, <1>4, <1>5b, <3>1 DEF IInv, TypeOK
    <3> QED BY <3>1 DEF Streaming, AllKinds
  <2> QED BY <1>1, <2>1 DEF IInv, SlotsOK
<1>10. ChunksOK'
  <2>1. ASSUME NEW t \in Objects
        PROVE  shadow_mem_pos'[t] <= obj'[t].len
    <3>1. /\ shadow_mem_pos[t] \in Nat /\ shadow_mem_pos'[t] \in Nat
          /\ shadow_mem_pos[t] <= obj[t].len /\ shadow_mem_pos'[t] <= shadow_mem_pos[t]
          /\ obj[t].len \in Nat
      BY DEF IInv, TypeOK, ChunksOK
    <3>2. CASE t = s
      <4>1. obj[t].len = 0
        BY <1>2, <1>3, <3>2 DEF IInv, VectorsOK
      <4> QED BY <1>1, <1>5, <3>1, <3>2, <4>1 DEF o
    <3>3. CASE t # s
      BY <1>5, <3>1, <3>3
    <3> QED BY <3>2, <3>3
  <2> QED BY <1>1, <2>1 DEF ChunksOK
<1> QED BY <1>6, <1>7, <1>8, <1>9, <1>10 DEF IInv

\* Opening a section places the slots in a partition and fetches the first
\* chunks.
LEMMA BeginStep == IInv /\ begin_leaky_sec => IInv'
<1> SUFFICES ASSUME IInv, begin_leaky_sec PROVE IInv'
  OBVIOUS
<1> DEFINE al == Divide(vec["nob"].total, vec["r_nob"].total,
                        vec["r_ob"].total, vec["w_ob"].total, alloc)
           sh == Store(shadow, UNION {
                   {<<Cell(s, i)', data[s][i]>> : i \in 0 .. obj[s].len - 1}
                      : s \in OfKind("nob") \cup OfKind("r_nob")})
<1>1. /\ phase # "leaky" /\ phase' = "leaky" /\ sections' = sections + 1
      /\ SectionFits
      /\ UNCHANGED <<meta_pos, vec, obj, data, shadow_mem_pos, ret>>
      /\ PlaceObjects(al) /\ begin_tx(sh)
  BY DEF begin_leaky_sec, objects
<1>2. /\ vec["nob"].total \in Nat /\ vec["r_nob"].total \in Nat
      /\ vec["r_ob"].total \in Nat /\ vec["w_ob"].total \in Nat
  BY Totals DEF AllKinds
<1>3. /\ Partition(al)
      /\ al.nob_w = NobSets(vec["nob"].total)
      /\ al.nob_r = ReadNobSets(vec["r_nob"].total)
      /\ ~Streaming => al.ob_r = 0 /\ al.ob_w = 0
  <2>1. NobFits(vec["nob"].total) /\ ReadNobFits(vec["nob"].total, vec["r_nob"].total)
    BY <1>1 DEF SectionFits
  <2>2. alloc \in Alloc /\ (~Streaming => alloc.ob_r = 0 /\ alloc.ob_w = 0)
    BY DEF IInv, TypeOK, SlotsOK
  <2>3. ~Streaming <=> vec["w_ob"].total = 0 /\ vec["r_ob"].total = 0
    BY DEF Streaming
  <2>4. /\ Partition(al) /\ al.nob_w = NobSets(vec["nob"].total)
        /\ al.nob_r = ReadNobSets(vec["r_nob"].total)
    BY <1>2, <2>1, <2>2, <2>3, DivideIsPartition
  <2>5. ~Streaming => al.ob_r = 0 /\ al.ob_w = 0
    BY <2>2, <2>3 DEF Divide, Alloc
  <2> QED BY <2>4, <2>5
<1>4. al \in Alloc
  BY <1>3 DEF Partition
<1>5. sh \in [Addr -> Value]
  <2> DEFINE stores == UNION {
               {<<Cell(s, i)', data[s][i]>> : i \in 0 .. obj[s].len - 1}
                  : s \in OfKind("nob") \cup OfKind("r_nob")}
  <2>1. ASSUME NEW x \in stores
        PROVE  x[2] \in Value
    <3>1. PICK s \in Objects : x \in
            {<<Cell(s, i)', data[s][i]>> : i \in 0 .. obj[s].len - 1}
      BY DEF OfKind
    <3>2. PICK i \in 0 .. obj[s].len - 1 : x = <<Cell(s, i)', data[s][i]>>
      BY <3>1
    <3>3. data[s][i] \in Value
      BY <3>2 DEF IInv, TypeOK
    <3> QED BY <3>2, <3>3
  <2>2. shadow \in [Addr -> Value]
    BY DEF IInv, TypeOK
  <2> HIDE DEF stores
  <2> QED BY <2>1, <2>2, StoreType DEF stores
<1> HIDE DEF al, sh
<1>6. alloc' = al /\ cur_ob = 0 /\ cur_ob_rw = 0 /\ cur_nob = 0
  BY <1>1 DEF PlaceObjects, IInv, CursorsOK
<1>7. /\ shadow_mem_len' \in [Objects -> Nat]
      /\ iter_pos' = [s \in Objects |-> 0]
      /\ shadow' \in [Addr -> Value]
      /\ chk' \in [shadow : [Addr -> Value], iter_pos : [Objects -> Nat], ret : Value]
      /\ chk'.iter_pos = [s \in Objects |-> 0]
      /\ \A s \in Iterators :
           shadow_mem_len'[s] = Min2(Slot(s)', obj[s].len - shadow_mem_pos'[s])
  <2>1. /\ obj' = obj /\ vec' = vec /\ ret' \in Value
        /\ shadow_mem_pos' \in [Objects -> Nat]
        /\ \A s \in Objects : shadow_mem_pos'[s] <= obj[s].len
        /\ \A s \in Objects : data'[s] \in [0 .. obj[s].len - 1 -> Value]
    BY <1>1 DEF IInv, TypeOK, ChunksOK
  <2> QED BY <1>1, <1>4, <1>5, <1>6, <2>1, BeginTxFacts
<1>8. ASSUME NEW k \in {"r_ob", "w_ob"}, NEW sets \in Nat
      PROVE  SlotSize(sets, vec[k].size) \in Nat \/ vec[k].size = 0
  <2>1. vec[k].size \in Nat
    BY Totals DEF AllKinds
  <2> QED BY <2>1, Slots
<1>9. ASSUME NEW s \in Objects
      PROVE  /\ obj[s].kind = "nob" => shadow_mem'[s] = obj[s].before
             /\ obj[s].kind = "r_nob" =>
                  shadow_mem'[s] = vec["nob"].total + obj[s].before
             /\ s \in Iterators /\ Streaming => shadow_mem'[s] = obj[s].idx * Slot(s)'
             /\ shadow_mem'[s] \in Nat \cup {-1}
  <2>1. shadow_mem'[s] =
          CASE obj[s].kind = "nob" -> cur_nob + obj[s].before
            [] obj[s].kind = "r_nob" -> cur_nob + vec["nob"].total + obj[s].before
            [] obj[s].kind = "r_ob" /\ Streaming ->
                 cur_ob + obj[s].idx * SlotSize(al.ob_r, vec["r_ob"].size)
            [] obj[s].kind = "w_ob" ->
                 cur_ob_rw + obj[s].idx * SlotSize(al.ob_w, vec["w_ob"].size)
            [] OTHER -> shadow_mem[s]
    BY <1>1 DEF PlaceObjects
  <2>2. /\ obj[s].before \in Nat /\ obj[s].idx \in Nat
        /\ shadow_mem[s] \in Nat \cup {-1}
    BY DEF IInv, TypeOK
  <2>3. CASE obj[s].kind = "nob"
    BY <1>6, <2>1, <2>2, <2>3 DEF Iterators, OfKind
  <2>4. CASE obj[s].kind = "r_nob"
    BY <1>2, <1>6, <2>1, <2>2, <2>4 DEF Iterators, OfKind
  <2>5. CASE obj[s].kind \in {"r_ob", "w_ob"}
    <3> DEFINE slot == Slot(s)'
    <3>1. slot = SlotSize(IF obj[s].kind = "r_ob" THEN al.ob_r ELSE al.ob_w,
                          vec[obj[s].kind].size)
      BY <1>1, <1>6 DEF Slot, StreamSets
    <3>2. vec[obj[s].kind].size \in Nat \ {0}
      BY <2>5, ObjectFacts
    <3>3. slot \in Nat
      BY <1>4, <1>8, <2>5, <3>1, <3>2 DEF Alloc
    <3>4. CASE obj[s].kind = "r_ob"
      <4>1. slot = SlotSize(al.ob_r, vec["r_ob"].size)
        BY <3>1, <3>4
      <4> HIDE DEF slot
      <4>2. obj[s].idx * slot \in Nat
        BY <2>2, <3>3, ProductNat
      <4>3. Streaming => shadow_mem'[s] = obj[s].idx * slot
        BY <1>6, <2>1, <3>4, <4>1, <4>2
      <4>4. ~Streaming => shadow_mem'[s] = shadow_mem[s]
        BY <2>1, <3>4
      <4> QED BY <2>2, <3>4, <4>2, <4>3, <4>4 DEF slot
    <3>5. CASE obj[s].kind = "w_ob"
      <4>1. slot = SlotSize(al.ob_w, vec["w_ob"].size)
        BY <3>1, <3>5
      <4> HIDE DEF slot
      <4>2. obj[s].idx * slot \in Nat
        BY <2>2, <3>3, ProductNat
      <4>3. shadow_mem'[s] = obj[s].idx * slot
        BY <1>6, <2>1, <3>5, <4>1, <4>2
      <4> QED BY <3>5, <4>2, <4>3 DEF slot
    <3> QED BY <2>5, <3>4, <3>5
  <2>6. CASE obj[s].kind \notin AllKinds
    BY <2>1, <2>2, <2>6 DEF AllKinds, Iterators, OfKind
  <2> QED BY <2>3, <2>4, <2>5, <2>6 DEF AllKinds
<1>10. TypeOK'
  <2>1. shadow_mem' \in [Objects -> Nat \cup {-1}]
    <3>1. \E f : shadow_mem' = [s \in Objects |-> f[s]]
      BY <1>1 DEF PlaceObjects
    <3> QED BY <1>9, <3>1
  <2>2. cur_ob' \in Nat /\ cur_ob_rw' \in Nat /\ cur_nob' \in Nat
    <3>1. ASSUME NEW k \in {"r_ob", "w_ob"}, NEW sets \in Nat
          PROVE  SlotsOf(k, sets) \in Nat
      BY <1>8, ProductNat, Totals DEF SlotsOf, AllKinds
    <3>2. SlotsOf("r_ob", al.ob_r) \in Nat /\ SlotsOf("w_ob", al.ob_w) \in Nat
      BY <1>4, <3>1 DEF Alloc
    <3> QED BY <1>1, <1>2, <1>6, <3>2 DEF PlaceObjects
  <2> QED BY <1>1, <1>4, <1>6, <1>7, <2>1, <2>2 DEF IInv, TypeOK, Phases
<1>11. VectorsOK'
  BY <1>1 DEF IInv, VectorsOK, SameKind
<1>12. CursorsOK'
  BY <1>1 DEF CursorsOK
<1>13. SlotsOK'
  BY <1>1, <1>3, <1>6, <1>9 DEF SlotsOK, Streaming, SectionFits, Iterators, OfKind
<1>14. ChunksOK'
  <2>1. \A s \in Objects : shadow_mem_pos'[s] <= obj'[s].len
    BY <1>1 DEF IInv, ChunksOK
  <2>2. Iterators' = Iterators
    BY <1>1 DEF Iterators, OfKind
  <2>3. \A s \in Iterators : s \in Objects
    BY DEF Iterators, OfKind
  <2>4. \A s \in Iterators : shadow_mem_len'[s] \in Nat /\ iter_pos'[s] = 0
    BY <1>7, <2>3
  <2> QED BY <1>1, <1>7, <2>1, <2>2, <2>4 DEF ChunksOK
<1> QED BY <1>10, <1>11, <1>12, <1>13, <1>14 DEF IInv

\* Closing a section copies the chunks and the arrays back.
LEMMA EndStep ==
  ASSUME IInv, NEW p \in {"idle", "aborted"}, EndSection(p)
  PROVE  IInv'
<1>1. /\ phase = "leaky" /\ phase' = p
      /\ data' = [s \in Objects |-> FinalData(s)]
      /\ shadow_mem_pos' = Advanced(iter_pos)
      /\ shadow_mem_len' = [s \in Objects |-> 0]
      /\ meta_pos' = 0 /\ cur_ob' = 0 /\ cur_ob_rw' = 0 /\ cur_nob' = 0
      /\ chk' = NoCheckpoint
      /\ UNCHANGED <<sections, vec, obj, shadow_mem, alloc, iter_pos, shadow, ret>>
  BY DEF EndSection, ResetCursors
<1>2. shadow \in [Addr -> Value]
  BY DEF IInv, TypeOK
<1>3. ASSUME NEW s \in Objects
      PROVE  data'[s] \in [0 .. obj[s].len - 1 -> Value]
  <2>1. CASE obj[s].kind = "w_ob"
    <3>1. CopiedBack(shadow, s) \in [0 .. obj[s].len - 1 -> Value]
      BY <1>1, <1>2, <2>1, CopiedBackType DEF OfKind
    <3> QED BY <1>1, <2>1, <3>1 DEF FinalData
  <2>2. CASE obj[s].kind = "nob"
    <3>1. Live(s) = 0 .. obj[s].len - 1
      BY <2>2 DEF Live, Iterators, OfKind
    <3>2. \A i \in 0 .. obj[s].len - 1 : shadow[Cell(s, i)] \in Value
      BY <1>1, <1>2, <3>1, CellSafe
    <3>3. data'[s] = [i \in 0 .. obj[s].len - 1 |-> shadow[Cell(s, i)]]
      BY <1>1, <2>2 DEF FinalData
    <3> QED BY <3>2, <3>3
  <2>3. CASE obj[s].kind \notin {"w_ob", "nob"}
    BY <1>1, <2>3 DEF FinalData, IInv, TypeOK
  <2> QED BY <2>1, <2>2, <2>3
<1>4. /\ shadow_mem_pos' \in [Objects -> Nat]
      /\ \A s \in Objects : shadow_mem_pos'[s] <= obj[s].len
  <2>1. iter_pos \in [Objects -> Nat] /\ \A s \in Iterators : iter_pos[s] <= shadow_mem_len[s]
    BY <1>1 DEF IInv, TypeOK, ChunksOK
  <2> QED BY <1>1, <2>1, AdvancedFacts
<1>5. TypeOK'
  <2>1. chk' \in [shadow : [Addr -> Value], iter_pos : [Objects -> Nat], ret : Value]
    BY <1>1, ClientAssumption DEF NoCheckpoint
  <2>2. data' = [x \in Objects |-> data'[x]] /\ shadow_mem_len' \in [Objects -> Nat]
    BY <1>1
  <2> QED BY <1>1, <1>3, <1>4, <2>1, <2>2 DEF IInv, TypeOK, Phases
<1>6. VectorsOK'
  BY <1>1 DEF IInv, VectorsOK, SameKind
<1>7. CursorsOK'
  BY <1>1 DEF CursorsOK
<1>8. SlotsOK'
  BY <1>1 DEF IInv, SlotsOK, Streaming
<1>9. ChunksOK'
  BY <1>1, <1>4 DEF ChunksOK
<1> QED BY <1>5, <1>6, <1>7, <1>8, <1>9 DEF IInv

\* An aborted transaction is back at the front of its chunks.
LEMMA RollBackStep == IInv /\ phase = "leaky" /\ RollBack => IInv'
<1> SUFFICES ASSUME IInv, phase = "leaky", RollBack PROVE IInv'
  OBVIOUS
<1>1. /\ shadow' = chk.shadow /\ iter_pos' = chk.iter_pos /\ ret' = chk.ret
      /\ UNCHANGED <<phase, sections, objects, data, slots, chk,
                     shadow_mem_len, shadow_mem_pos>>
  BY DEF RollBack
<1>2. UNCHANGED <<meta_pos, vec, obj, cur_ob, cur_ob_rw, cur_nob, shadow_mem, alloc>>
  BY <1>1 DEF objects, slots
<1>3. chk \in [shadow : [Addr -> Value], iter_pos : [Objects -> Nat], ret : Value]
      /\ chk.iter_pos = [s \in Objects |-> 0]
  BY DEF IInv, TypeOK, ChunksOK
<1>4. TypeOK'
  BY <1>1, <1>2, <1>3 DEF IInv, TypeOK
<1>5. VectorsOK' /\ CursorsOK' /\ SlotsOK'
  BY <1>1, LayoutKept
<1>6. ChunksOK'
  <2>1. Iterators' = Iterators /\ \A s \in Iterators : s \in Objects /\ Slot(s)' = Slot(s)
    BY <1>2 DEF Iterators, OfKind, Slot, StreamSets
  <2>2. \A s \in Iterators : shadow_mem_len[s] \in Nat /\ iter_pos'[s] = 0
    BY <1>1, <1>3, <2>1 DEF IInv, TypeOK
  <2> QED BY <1>1, <1>2, <2>1, <2>2 DEF IInv, ChunksOK
<1> QED BY <1>4, <1>5, <1>6 DEF IInv

\* An access of an iterator keeps its chunk ahead of it.
LEMMA StepStep ==
  ASSUME IInv, phase = "leaky", UNCHANGED <<phase, sections, objects, slots>>,
         NEW s \in Iterators, Unfinished(s), StreamSets(s) # 0,
         NEW sh \in [Addr -> Value], ret' \in Value, Step(s, sh)
  PROVE  IInv'
<1> DEFINE it == [iter_pos EXCEPT ![s] = @ + 1]
<1>1. UNCHANGED <<meta_pos, vec, obj, cur_ob, cur_ob_rw, cur_nob, shadow_mem, alloc>>
  BY DEF objects, slots
<1>2. /\ s \in Objects /\ \A t \in Iterators : t \in Objects
      /\ Iterators' = Iterators
      /\ \A t \in Objects : Slot(t)' = Slot(t)
  BY <1>1 DEF Iterators, OfKind, Slot, StreamSets
<1>3. /\ iter_pos[s] < shadow_mem_len[s]
      /\ \A t \in Iterators : /\ shadow_mem_pos[t] + shadow_mem_len[t] <= obj[t].len
                              /\ iter_pos[t] <= shadow_mem_len[t]
  BY IInvChunkReady DEF ChunkReady
<1>4. /\ it \in [Objects -> Nat] /\ it[s] = iter_pos[s] + 1
      /\ \A t \in Objects : t # s => it[t] = iter_pos[t]
      /\ shadow_mem_len \in [Objects -> Nat] /\ shadow_mem_pos \in [Objects -> Nat]
      /\ \A t \in Objects : obj[t].len \in Nat /\ iter_pos[t] \in Nat
  BY <1>2 DEF IInv, TypeOK
<1>5. \A t \in Iterators : it[t] <= shadow_mem_len[t]
  BY <1>2, <1>3, <1>4
<1>6. VectorsOK' /\ CursorsOK' /\ SlotsOK'
  BY LayoutKept
<1> DEFINE moves == /\ it[s] = shadow_mem_len[s]
                    /\ shadow_mem_pos[s] + shadow_mem_len[s] < obj[s].len
<1>7. IF moves THEN end_tx(sh, it) /\ begin_tx(sh)
      ELSE /\ iter_pos' = it /\ shadow' = sh
           /\ UNCHANGED <<data, shadow_mem_len, shadow_mem_pos, chk>>
  BY DEF Step, ChunkUsed
<1>8. CASE moves
  <2>1. end_tx(sh, it) /\ begin_tx(sh)
    BY <1>7, <1>8
  <2> HIDE DEF it, moves
  <2>2. /\ shadow_mem_pos' \in [Objects -> Nat]
        /\ \A t \in Objects : shadow_mem_pos'[t] <= obj[t].len
    BY <1>4, <1>5, <2>1, AdvancedFacts DEF end_tx
  <2>3. ASSUME NEW t \in Objects
        PROVE  data'[t] \in [0 .. obj[t].len - 1 -> Value]
    <3>1. data'[t] = IF t \in OfKind("w_ob") THEN CopiedBack(sh, t) ELSE data[t]
      BY <2>1 DEF end_tx
    <3>2. data[t] \in [0 .. obj[t].len - 1 -> Value]
      BY DEF IInv, TypeOK
    <3> QED BY <3>1, <3>2, CopiedBackType
  <2>4. data' = [x \in Objects |-> data'[x]]
    BY <2>1 DEF end_tx
  <2>5. alloc' \in Alloc
    BY <1>1 DEF IInv, TypeOK
  <2>6. /\ shadow_mem_len' \in [Objects -> Nat]
        /\ iter_pos' = [t \in Objects |-> 0]
        /\ shadow' \in [Addr -> Value]
        /\ chk' \in [shadow : [Addr -> Value], iter_pos : [Objects -> Nat], ret : Value]
        /\ chk'.iter_pos = [t \in Objects |-> 0]
        /\ \A t \in Iterators :
             shadow_mem_len'[t] = Min2(Slot(t)', obj[t].len - shadow_mem_pos'[t])
    BY <1>1, <2>1, <2>2, <2>3, <2>5, BeginTxFacts
  <2>7. TypeOK'
    <3>1. iter_pos' \in [Objects -> Nat]
      BY <2>6
    <3> QED BY <1>1, <2>2, <2>3, <2>4, <2>6, <3>1 DEF IInv, TypeOK
  <2>8. ChunksOK'
    <3>1. \A t \in Iterators : shadow_mem_len'[t] \in Nat /\ iter_pos'[t] = 0
      BY <1>2, <2>6
    <3> QED BY <1>1, <1>2, <2>2, <2>6, <3>1 DEF ChunksOK
  <2> QED BY <1>6, <2>7, <2>8 DEF IInv
<1>9. CASE ~moves
  <2>1. /\ iter_pos' = it /\ shadow' = sh
        /\ UNCHANGED <<data, shadow_mem_len, shadow_mem_pos, chk>>
    BY <1>7, <1>9
  <2>2. it[s] = shadow_mem_len[s] => shadow_mem_pos[s] + it[s] = obj[s].len
    BY <1>2, <1>3, <1>4, <1>9
  <2> HIDE DEF it, moves
  <2>3. TypeOK'
    BY <1>1, <1>4, <2>1 DEF IInv, TypeOK
  <2>4. ASSUME NEW t \in Iterators
        PROVE  /\ iter_pos'[t] <= shadow_mem_len'[t]
               /\ iter_pos'[t] = shadow_mem_len'[t] /\ iter_pos'[t] # 0 =>
                    shadow_mem_pos'[t] + iter_pos'[t] = obj'[t].len
    <3>1. iter_pos[t] = shadow_mem_len[t] /\ iter_pos[t] # 0 =>
            shadow_mem_pos[t] + iter_pos[t] = obj[t].len
      BY DEF IInv, ChunksOK
    <3> QED BY <1>1, <1>2, <1>4, <1>5, <2>1, <2>2, <3>1
  <2>5. ChunksOK'
    BY <1>1, <1>2, <2>1, <2>4 DEF IInv, ChunksOK
  <2> QED BY <1>6, <2>3, <2>5 DEF IInv
<1> QED BY <1>8, <1>9

\* A random access reads or writes one int of the shadow memory.
LEMMA AccessStep ==
  ASSUME IInv, phase = "leaky",
         UNCHANGED <<phase, sections, objects, data, slots, shadow_mem_len,
                     shadow_mem_pos, iter_pos, chk>>,
         shadow' \in [Addr -> Value], ret' \in Value
  PROVE  IInv'
<1>1. UNCHANGED <<meta_pos, vec, obj, cur_ob, cur_ob_rw, cur_nob, shadow_mem, alloc>>
  BY DEF objects, slots
<1>2. TypeOK'
  BY <1>1 DEF IInv, TypeOK
<1>3. VectorsOK' /\ CursorsOK' /\ SlotsOK'
  BY LayoutKept
<1>4. ChunksOK'
  <2>1. Iterators' = Iterators /\ \A s \in Iterators : Slot(s)' = Slot(s)
    BY <1>1 DEF Iterators, OfKind, Slot, StreamSets
  <2> QED BY <1>1, <2>1 DEF IInv, ChunksOK
<1> QED BY <1>2, <1>3, <1>4 DEF IInv

\* The invariant is inductive: one step per action of the runtime.
LEMMA NextIInv == IInv /\ [Next]_vars => IInv'
<1> SUFFICES ASSUME IInv, [Next]_vars PROVE IInv'
  OBVIOUS
<1>t. /\ shadow \in [Addr -> Value] /\ ret \in Value /\ phase \in Phases
      /\ shadow_mem \in [Objects -> Nat \cup {-1}]
      /\ shadow_mem_len \in [Objects -> Nat]
      /\ shadow_mem_pos \in [Objects -> Nat]
      /\ iter_pos \in [Objects -> Nat]
      /\ \A s \in Objects : shadow_mem_pos[s] <= obj[s].len
      /\ data = [x \in Objects |-> data[x]]
      /\ \A s \in Objects : data[s] \in [0 .. obj[s].len - 1 -> Value]
  BY DEF IInv, TypeOK, ChunksOK
<1>w. Written \subseteq Value
  BY ClientAssumption
<1>c. ASSUME phase = "leaky", NEW s \in Objects, NEW i \in Live(s)
      PROVE  Cell(s, i) \in Addr
  BY <1>c, CellSafe
<1>i. ASSUME NEW s \in Objects, s \notin Iterators
      PROVE  Live(s) = 0 .. obj[s].len - 1
  BY <1>i DEF Live
<1>1. ASSUME NEW k, NEW n \in Lens, init_ob_iterator(k, n)
      PROVE  IInv'
  <2>1. /\ shadow_mem_len' \in [Objects -> Nat]
        /\ shadow_mem_pos' \in [Objects -> Nat]
        /\ iter_pos' \in [Objects -> Nat]
        /\ \A s \in Objects : shadow_mem_pos'[s] <= shadow_mem_pos[s]
    <3> DEFINE p == meta_pos \div PageInts
    <3>1. /\ shadow_mem_len' = [shadow_mem_len EXCEPT ![p] = 0]
          /\ shadow_mem_pos' = [shadow_mem_pos EXCEPT ![p] = 0]
          /\ iter_pos' = [iter_pos EXCEPT ![p] = 0]
      BY <1>1 DEF init_ob_iterator
    <3> HIDE DEF p
    <3>2. ASSUME NEW f \in [Objects -> Nat]
          PROVE  /\ [f EXCEPT ![p] = 0] \in [Objects -> Nat]
                 /\ \A s \in Objects : [f EXCEPT ![p] = 0][s] <= f[s]
      <4>1. [f EXCEPT ![p] = 0] \in [Objects -> Nat]
        OBVIOUS
      <4>2. ASSUME NEW s \in Objects
            PROVE  [f EXCEPT ![p] = 0][s] <= f[s]
        <5>1. f[s] \in Nat
          OBVIOUS
        <5>2. [f EXCEPT ![p] = 0][s] = IF s = p THEN 0 ELSE f[s]
          OBVIOUS
        <5> QED BY <5>1, <5>2
      <4> QED BY <4>1, <4>2
    <3> QED BY <1>t, <3>1, <3>2
  <2> QED BY <1>1, <2>1, RegisterStep DEF init_ob_iterator
<1>2. ASSUME NEW k, NEW n \in Lens, Register(k, n),
             UNCHANGED <<shadow_mem_len, shadow_mem_pos, iter_pos>>
      PROVE  IInv'
  <2>1. /\ shadow_mem_len' \in [Objects -> Nat]
        /\ shadow_mem_pos' \in [Objects -> Nat]
        /\ iter_pos' \in [Objects -> Nat]
        /\ \A s \in Objects : shadow_mem_pos'[s] <= shadow_mem_pos[s]
    BY <1>t, <1>2
  <2> QED BY <1>2, <2>1, RegisterStep
<1>3. CASE begin_leaky_sec
  BY <1>3, BeginStep
<1>4. CASE begin_leaky_sec_aborts
  <2>1. /\ phase # "leaky" /\ phase' = "aborted"
        /\ UNCHANGED <<sections, objects, data, slots, chunks, ret>>
    BY <1>4 DEF begin_leaky_sec_aborts
  <2> QED BY <1>t, <2>1, QuietStep DEF slots, chunks
<1>5. CASE end_leaky_sec
  BY <1>5, EndStep DEF end_leaky_sec
<1>6. CASE cmo_abort
  <2>1. CASE EndSection("aborted")
    BY <2>1, EndStep
  <2>2. CASE /\ phase \in {"setup", "idle"}
             /\ phase' = "trapped"
             /\ UNCHANGED <<sections, objects, data, slots, chunks, ret>>
    BY <1>t, <2>2, QuietStep DEF slots, chunks
  <2> QED BY <1>6, <2>1, <2>2 DEF cmo_abort
<1>7. CASE TxAbort
  BY <1>7, RollBackStep DEF TxAbort
<1>8. CASE free_cmo_runtime
  <2>1. /\ phase # "leaky" /\ phase' = "freed"
        /\ UNCHANGED <<sections, objects, data, cur_ob, cur_ob_rw, cur_nob, alloc,
                       chunks, ret>>
        /\ shadow_mem' = [s \in Objects |->
                      IF obj[s].kind \in AllKinds THEN -1 ELSE shadow_mem[s]]
    BY <1>8 DEF free_cmo_runtime
  <2>2. shadow_mem' \in [Objects -> Nat \cup {-1}]
    BY <1>t, <2>1
  <2> QED BY <1>t, <2>1, <2>2, QuietStep DEF chunks
<1>9. ASSUME NEW s \in Objects, ob_read_next(s)
      PROVE  IInv'
  <2>1. /\ phase = "leaky" /\ s \in Iterators /\ Unfinished(s) /\ StreamSets(s) # 0
        /\ ret' = shadow[Cell(s, iter_pos[s])]
        /\ UNCHANGED <<phase, sections, objects, slots>>
        /\ Step(s, shadow)
    BY <1>9 DEF ob_read_next, Iterators, OfKind, StreamSets
  <2>2. iter_pos[s] \in Live(s)
    BY <1>t, <2>1, IInvChunkReady DEF ChunkReady, Live
  <2>3. ret' \in Value
    BY <1>t, <1>c, <2>1, <2>2
  <2> QED BY <1>t, <2>1, <2>3, StepStep
<1>10. ASSUME NEW s \in Objects, NEW v \in Written, ob_write_next(s, v)
       PROVE  IInv'
  <2>1. /\ phase = "leaky" /\ s \in Iterators /\ Unfinished(s) /\ StreamSets(s) # 0
        /\ UNCHANGED <<phase, sections, objects, slots, ret>>
        /\ Step(s, [shadow EXCEPT ![Cell(s, iter_pos[s])] = v])
    BY <1>10 DEF ob_write_next, Iterators, OfKind, StreamSets
  <2>2. [shadow EXCEPT ![Cell(s, iter_pos[s])] = v] \in [Addr -> Value]
    BY <1>t, <1>w
  <2> QED BY <1>t, <2>1, <2>2, StepStep
<1>11. ASSUME NEW s \in Objects, ob_next_faults(s)
       PROVE  IInv'
  BY <1>11, RollBackStep DEF ob_next_faults
<1>12. ASSUME NEW s \in Objects, NEW i, nob_read_at(s, i)
       PROVE  IInv'
  <2>1. /\ phase = "leaky" /\ s \notin Iterators /\ i \in 0 .. obj[s].len - 1
        /\ ret' = shadow[Cell(s, i)]
        /\ UNCHANGED <<phase, sections, objects, data, slots, shadow_mem_len,
                       shadow_mem_pos, iter_pos, shadow, chk>>
    BY <1>12 DEF nob_read_at, Iterators, OfKind, chunks
  <2>2. ret' \in Value
    BY <1>t, <1>c, <1>i, <2>1
  <2> QED BY <1>t, <2>1, <2>2, AccessStep
<1>13. ASSUME NEW s \in Objects, NEW i, NEW v \in Written, nob_write_at(s, i, v)
       PROVE  IInv'
  <2>1. /\ phase = "leaky"
        /\ shadow' = [shadow EXCEPT ![Cell(s, i)] = v]
        /\ UNCHANGED <<phase, sections, objects, data, slots, shadow_mem_len,
                       shadow_mem_pos, iter_pos, chk, ret>>
    BY <1>13 DEF nob_write_at
  <2>2. shadow' \in [Addr -> Value]
    BY <1>t, <1>w, <2>1
  <2> QED BY <1>t, <2>1, <2>2, AccessStep
<1>14. ASSUME NEW s \in Objects, NEW i, NEW v \in Written, write_leaky(s, i, v)
       PROVE  IInv'
  <2>1. /\ phase # "leaky" /\ i \in 0 .. obj[s].len - 1
        /\ data' = [data EXCEPT ![s][i] = v]
        /\ UNCHANGED <<phase, sections, objects, slots, chunks, ret>>
    BY <1>14 DEF write_leaky, Between
  <2>2. /\ data' = [x \in Objects |-> data'[x]]
        /\ \A t \in Objects : data'[t] \in [0 .. obj[t].len - 1 -> Value]
    <3>1. data' = [data EXCEPT ![s] = [data[s] EXCEPT ![i] = v]]
      BY <2>1
    <3>2. [data[s] EXCEPT ![i] = v] \in [0 .. obj[s].len - 1 -> Value]
      BY <1>t, <1>w, <2>1
    <3> QED BY <1>t, <3>1, <3>2
  <2> QED BY <1>t, <2>1, <2>2, QuietStep DEF slots, chunks
<1>15. ASSUME NEW s \in Objects, reset_ob(s)
       PROVE  IInv'
  <2>1. /\ phase # "leaky"
        /\ shadow_mem_pos' = [shadow_mem_pos EXCEPT ![s] = 0]
        /\ UNCHANGED <<phase, sections, objects, data, slots, shadow_mem_len,
                       iter_pos, shadow, chk, ret>>
    BY <1>15 DEF reset_ob, Between
  <2>2. /\ shadow_mem_pos' \in [Objects -> Nat]
        /\ \A t \in Objects : shadow_mem_pos'[t] <= obj[t].len
    <3>1. \A t \in Objects : obj[t].len \in Nat
      BY DEF IInv, TypeOK
    <3> QED BY <1>t, <2>1, <3>1
  <2> QED BY <1>t, <2>1, <2>2, QuietStep DEF slots
<1>16. CASE UNCHANGED vars
  <2>1. UNCHANGED <<phase, sections, objects, data, slots, chunks, ret>>
    BY <1>16 DEF vars
  <2>2. CASE phase = "leaky"
    BY <1>t, <2>1, <2>2, AccessStep DEF chunks
  <2>3. CASE phase # "leaky"
    BY <1>t, <2>1, <2>3, QuietStep DEF slots, chunks
  <2> QED BY <2>2, <2>3
<1>17. CASE Stopped
  BY <1>16, <1>17 DEF Stopped
<1> QED
  BY <1>1, <1>2, <1>3, <1>4, <1>5, <1>6, <1>7, <1>8, <1>9, <1>10, <1>11, <1>12,
     <1>13, <1>14, <1>15, <1>16, <1>17
  DEF Next, init_read_ob_iterator, init_write_ob_iterator, init_nob_array,
      init_read_nob_array

-----------------------------------------------------------------------------
(* Theorems about the states of the runtime *)

\* The runtime keeps the inductive invariant: vectors, slots and chunks agree.
THEOREM Invariance == Spec => []IInv
<1>1. Init => IInv
  BY InitIInv
<1>2. IInv /\ [Next]_vars => IInv'
  BY NextIInv
<1> QED BY <1>1, <1>2, PTL DEF Spec

\* The variables of the runtime keep their types, whatever the client does.
THEOREM TypeCorrectness == Spec => []TypeOK
<1>1. IInv => TypeOK
  BY DEF IInv
<1> QED BY <1>1, Invariance, PTL

\* No two ints of a section share an index of g_shadow_mem, and none lies in a
\* line of the metadata: what the cal_ functions and the division of the sets
\* in begin_leaky_sec are for.
THEOREM NoAliasing == Spec => []NoAlias
  BY IInvNoAlias, Invariance, PTL

\* The lines of a transaction fit the ways of the L1 cache, so that it need not
\* abort for lack of room: what ActiveWays and the pages of the metadata are for.
THEOREM L1Residence == Spec => []L1Resident
  BY IInvL1Resident, Invariance, PTL

\* However the iterators interleave, a chunk is ready for the next access, and
\* inside the array: what end_tx and begin_tx are for.
THEOREM ChunksReady == Spec => []ChunkReady
  BY IInvChunkReady, Invariance, PTL

\* What a copy-back leaves alone: everything in front of the chunk.
LEMMA CopiedBackPrefix ==
  ASSUME IInv, NEW sh, NEW s \in Objects, NEW i \in 0 .. shadow_mem_pos[s] - 1
  PROVE  CopiedBack(sh, s)[i] = data[s][i]
<1>1. /\ shadow_mem_pos[s] \in Nat /\ obj[s].len \in Nat
      /\ shadow_mem_pos[s] <= obj[s].len /\ shadow_mem_len[s] \in Nat
  BY DEF IInv, TypeOK, ChunksOK
<1>2. i \in 0 .. obj[s].len - 1 /\ i - shadow_mem_pos[s] \notin 0 .. shadow_mem_len[s] - 1
  BY <1>1
<1> QED BY <1>2 DEF CopiedBack

\* A commit does not touch what earlier commits of the section wrote, and
\* nothing else writes to the client's arrays: end_tx, end_leaky_sec.
THEOREM CommitsStay == Spec => CommittedStable
<1> DEFINE Kept == phase = "leaky" =>
       /\ \A s \in OfKind("w_ob") : \A i \in 0 .. shadow_mem_pos[s] - 1 :
            data'[s][i] = data[s][i]
       /\ data' # data =>
            \/ phase' # "leaky"
            \/ \E s \in Iterators : shadow_mem_pos'[s] > shadow_mem_pos[s]
<1>1. IInv /\ [Next]_vars => [Kept]_vars
  <2> SUFFICES ASSUME IInv, Next, phase = "leaky" PROVE Kept
    OBVIOUS
  <2>1. ASSUME NEW p, EndSection(p), p # "leaky"
        PROVE  Kept
    <3>1. phase' # "leaky"
      BY <2>1 DEF EndSection
    <3>2. ASSUME NEW s \in OfKind("w_ob"), NEW i \in 0 .. shadow_mem_pos[s] - 1
          PROVE  data'[s][i] = data[s][i]
      <4>1. s \in Objects /\ data'[s] = CopiedBack(shadow, s)
        BY <2>1 DEF EndSection, FinalData, OfKind
      <4> QED BY <4>1, CopiedBackPrefix
    <3> QED BY <3>1, <3>2
  <2>2. ASSUME NEW s \in Iterators, NEW sh, Step(s, sh)
        PROVE  Kept
    <3> DEFINE it == [iter_pos EXCEPT ![s] = @ + 1]
    <3>1. (end_tx(sh, it)) \/ data' = data
      BY <2>2 DEF Step
    <3>2. s \in Objects /\ it[s] = iter_pos[s] + 1
          /\ iter_pos[s] \in Nat /\ shadow_mem_pos[s] \in Nat
      BY DEF Iterators, OfKind, IInv, TypeOK
    <3> HIDE DEF it
    <3>3. CASE end_tx(sh, it)
      <4>1. shadow_mem_pos'[s] = shadow_mem_pos[s] + it[s]
        BY <3>2, <3>3 DEF end_tx, Advanced
      <4>2. shadow_mem_pos'[s] > shadow_mem_pos[s]
        BY <3>2, <4>1
      <4>3. ASSUME NEW w \in OfKind("w_ob"), NEW i \in 0 .. shadow_mem_pos[w] - 1
            PROVE  data'[w][i] = data[w][i]
        <5>1. w \in Objects /\ data'[w] = CopiedBack(sh, w)
          BY <3>3 DEF end_tx, OfKind
        <5> QED BY <5>1, CopiedBackPrefix
      <4> QED BY <4>2, <4>3
    <3> QED BY <3>1, <3>3
  <2>3. CASE data' = data
    BY <2>3
  <2>4. ASSUME NEW s \in Objects, ob_read_next(s)
        PROVE  Kept
    <3>1. s \in Iterators /\ Step(s, shadow)
      BY <2>4 DEF ob_read_next, Iterators
    <3> QED BY <2>2, <3>1
  <2>5. ASSUME NEW s \in Objects, NEW v \in Written, ob_write_next(s, v)
        PROVE  Kept
    <3>1. s \in Iterators /\ Step(s, [shadow EXCEPT ![Cell(s, iter_pos[s])] = v])
      BY <2>5 DEF ob_write_next, Iterators
    <3> QED BY <2>2, <3>1
  <2>6. CASE end_leaky_sec \/ cmo_abort
    BY <2>1, <2>6 DEF end_leaky_sec, cmo_abort
  <2>7. ASSUME NEW k, NEW n \in Lens, Register(k, n)
        PROVE  FALSE
    BY <2>7 DEF Register
  <2> HIDE DEF Kept
  <2> QED
    BY <2>3, <2>4, <2>5, <2>6, <2>7
    DEF Next, init_read_ob_iterator, init_write_ob_iterator, init_ob_iterator,
        init_nob_array, init_read_nob_array, begin_leaky_sec, begin_leaky_sec_aborts,
        TxAbort, RollBack, free_cmo_runtime, ob_next_faults, reset_ob, nob_read_at,
        nob_write_at, write_leaky, Between, Stopped, vars
<1>2. CommittedStable <=> [][Kept]_vars
  BY DEF CommittedStable
<1> QED BY <1>1, <1>2, Invariance, PTL DEF Spec

-----------------------------------------------------------------------------
(* The copies of the iterators *)

\* The invariant, with what the copies hold.
RInv == IInv /\ CopiesMatch

-----------------------------------------------------------------------------
(* Loops that store into the shadow memory *)

\* A stored value is found at its index.
LEMMA StoreAt ==
  ASSUME NEW sh, NEW stores, NEW a \in Addr, NEW v, <<a, v>> \in stores,
         \A x \in stores : x[1] = a => x[2] = v
  PROVE  Store(sh, stores)[a] = v
<1> DEFINE found == CHOOSE x \in stores : x[1] = a
<1>1. \E x \in stores : x[1] = a
  OBVIOUS
<1>2. found \in stores /\ found[1] = a
  BY <1>1
<1>3. Store(sh, stores)[a] = found[2]
  BY <1>1 DEF Store
<1> QED BY <1>2, <1>3

\* Other indices keep their value.
LEMMA StoreElsewhere ==
  ASSUME NEW sh, NEW stores, NEW a \in Addr, \A x \in stores : x[1] # a
  PROVE  Store(sh, stores)[a] = sh[a]
  BY DEF Store

\* NoAlias one step ahead.
LEMMA NoAliasNext == IInv' => NoAlias'
  BY IInvNoAlias, PTL

\* begin_tx fills the chunks of the iterators and leaves the arrays alone.
LEMMA BeginTxCopies ==
  ASSUME IInv', phase' = "leaky", NEW sh, begin_tx(sh), UNCHANGED obj
  PROVE  /\ \A s \in Iterators : \A i \in 0 .. shadow_mem_len'[s] - 1 :
              shadow'[Cell(s, i)'] = data'[s][shadow_mem_pos'[s] + i]
         /\ \A s \in Objects \ Iterators : \A i \in 0 .. obj[s].len - 1 :
              shadow'[Cell(s, i)'] = sh[Cell(s, i)']
<1> DEFINE chunk(s) == {<<Cell(s, i)', data'[s][shadow_mem_pos'[s] + i]>>
                          : i \in 0 .. shadow_mem_len'[s] - 1}
           stores == UNION {chunk(s) : s \in Iterators}
<1>1. shadow' = Store(sh, stores)
  BY DEF begin_tx
<1>2. Iterators' = Iterators /\ Iterators \subseteq Objects
  BY DEF Iterators, OfKind
<1>3. /\ \A s \in Iterators : Live(s)' = 0 .. shadow_mem_len'[s] - 1
      /\ \A s \in Objects \ Iterators : Live(s)' = 0 .. obj[s].len - 1
  BY <1>2 DEF Live
<1>4. ASSUME NEW s \in Objects, NEW i \in Live(s)'
      PROVE  /\ Cell(s, i)' \in Addr
             /\ \A t \in Objects : \A j \in Live(t)' :
                  Cell(s, i)' = Cell(t, j)' => s = t /\ i = j
  BY NoAliasNext DEF NoAlias
<1>5. ASSUME NEW x \in stores
      PROVE  \E t \in Iterators : \E j \in Live(t)' :
               x = <<Cell(t, j)', data'[t][shadow_mem_pos'[t] + j]>>
  <2>1. PICK t \in Iterators : x \in chunk(t)
    OBVIOUS
  <2>2. PICK j \in 0 .. shadow_mem_len'[t] - 1 :
          x = <<Cell(t, j)', data'[t][shadow_mem_pos'[t] + j]>>
    BY <2>1
  <2> QED BY <1>3, <2>2
<1>6. ASSUME NEW s \in Iterators, NEW i \in 0 .. shadow_mem_len'[s] - 1
      PROVE  shadow'[Cell(s, i)'] = data'[s][shadow_mem_pos'[s] + i]
  <2> DEFINE a == Cell(s, i)'
             v == data'[s][shadow_mem_pos'[s] + i]
  <2>1. <<a, v>> \in stores
    <3>1. <<a, v>> \in chunk(s)
      OBVIOUS
    <3> QED BY <3>1
  <2>2. s \in Objects /\ i \in Live(s)'
    BY <1>2, <1>3
  <2>3. ASSUME NEW x \in stores, x[1] = a
        PROVE  x[2] = v
    <3>1. PICK t \in Iterators : \E j \in Live(t)' :
             x = <<Cell(t, j)', data'[t][shadow_mem_pos'[t] + j]>>
      BY <1>5
    <3>2. PICK j \in Live(t)' :
            x = <<Cell(t, j)', data'[t][shadow_mem_pos'[t] + j]>>
      BY <3>1
    <3>3. t \in Objects /\ Cell(s, i)' = Cell(t, j)'
      BY <1>2, <2>3, <3>2
    <3>4. s = t /\ i = j
      BY <1>4, <2>2, <3>3
    <3> QED BY <3>2, <3>4
  <2>4. a \in Addr
    BY <1>4, <2>2
  <2> HIDE DEF stores, a, v
  <2>5. Store(sh, stores)[a] = v
    BY <2>1, <2>3, <2>4, StoreAt
  <2> QED BY <1>1, <2>5 DEF a, v
<1>7. ASSUME NEW s \in Objects \ Iterators, NEW i \in 0 .. obj[s].len - 1
      PROVE  shadow'[Cell(s, i)'] = sh[Cell(s, i)']
  <2> DEFINE a == Cell(s, i)'
  <2>1. i \in Live(s)'
    BY <1>3
  <2>2. ASSUME NEW x \in stores
        PROVE  x[1] # a
    <3>1. PICK t \in Iterators : \E j \in Live(t)' :
             x = <<Cell(t, j)', data'[t][shadow_mem_pos'[t] + j]>>
      BY <1>5
    <3>2. PICK j \in Live(t)' :
            x = <<Cell(t, j)', data'[t][shadow_mem_pos'[t] + j]>>
      BY <3>1
    <3>3. x[1] = Cell(t, j)' /\ t \in Objects /\ t # s
      BY <1>2, <3>2
    <3> QED BY <1>4, <2>1, <3>3
  <2>3. a \in Addr
    BY <1>4, <2>1
  <2> HIDE DEF stores, a
  <2>4. Store(sh, stores)[a] = sh[a]
    BY <2>2, <2>3, StoreElsewhere
  <2> QED BY <1>1, <2>4 DEF a
<1> QED BY <1>6, <1>7

-----------------------------------------------------------------------------
(* What the client sees *)

\* The view of the client, and the view an abort takes it back to.
Seen == [content |-> LogicalContent(shadow), pos |-> Advanced(iter_pos), ret |-> ret]

Saved == [content |-> LogicalContent(chk.shadow), pos |-> Advanced(chk.iter_pos),
          ret |-> chk.ret]

\* The pieces of the state that an address depends on.
LEMMA CellKept ==
  ASSUME UNCHANGED <<objects, slots>>, NEW s \in Objects, NEW i
  PROVE  Cell(s, i)' = Cell(s, i)
  BY DEF objects, slots, Cell

\* Only iterators and arrays have cells.
LEMMA LiveKinds ==
  ASSUME NEW s \in Objects
  PROVE  /\ s \in OfKind("w_ob") \cup OfKind("r_ob") => Live(s) = 0 .. shadow_mem_len[s] - 1
         /\ s \in OfKind("nob") \cup OfKind("r_nob") => Live(s) = 0 .. obj[s].len - 1
  BY DEF Live, Iterators, OfKind

\* A store to a cell of s changes nothing that the client sees of other objects,
\* and no copy of what a section only reads.
LEMMA StoreApart ==
  ASSUME IInv, phase = "leaky", NEW sh \in [Addr -> Value], NEW v,
         NEW s \in OfKind("w_ob") \cup OfKind("nob"), NEW i \in Live(s)
  PROVE  LET sh2 == [sh EXCEPT ![Cell(s, i)] = v]
         IN  /\ \A t \in Objects : t # s => Logical(sh2, t) = Logical(sh, t)
             /\ Copies(sh) => Copies(sh2)
<1> DEFINE sh2 == [sh EXCEPT ![Cell(s, i)] = v]
<1>1. s \in Objects /\ (obj[s].kind = "w_ob" \/ obj[s].kind = "nob")
  BY DEF OfKind
<1>2. ASSUME NEW t \in Objects, NEW j \in Live(t), t # s
      PROVE  sh2[Cell(t, j)] = sh[Cell(t, j)]
  <2>1. s \in Objects
    BY <1>1
  <2>2. Cell(s, i) \in Addr /\ Cell(t, j) \in Addr
    BY <2>1, CellSafe
  <2>3. Cell(t, j) # Cell(s, i)
    BY <1>2, <2>1, CellsApart
  <2> QED BY <2>2, <2>3
<1> HIDE DEF sh2
<1>3. ASSUME NEW t \in Objects, t # s
      PROVE  Logical(sh2, t) = Logical(sh, t)
  <2>1. CASE obj[t].kind = "w_ob"
    <3>1. Live(t) = 0 .. shadow_mem_len[t] - 1
      BY <2>1, LiveKinds DEF OfKind
    <3>2. CopiedBack(sh2, t) = CopiedBack(sh, t)
      BY <1>2, <1>3, <3>1 DEF CopiedBack
    <3> QED BY <2>1, <3>2 DEF Logical
  <2>2. CASE obj[t].kind = "nob"
    <3>1. Live(t) = 0 .. obj[t].len - 1
      BY <2>2, LiveKinds DEF OfKind
    <3> QED BY <1>2, <1>3, <2>2, <3>1 DEF Logical
  <2>3. CASE obj[t].kind # "w_ob" /\ obj[t].kind # "nob"
    BY <2>3 DEF Logical
  <2> QED BY <2>1, <2>2, <2>3
<1>4. Copies(sh) => Copies(sh2)
  <2>1. \A t \in OfKind("r_ob") \cup OfKind("r_nob") : t \in Objects /\ t # s
    BY <1>1 DEF OfKind
  <2> QED BY <1>2, <2>1 DEF Copies
<1> QED BY <1>3, <1>4 DEF sh2

\* ob_write_next writes its element through to the array the client sees.
LEMMA WriteThrough ==
  ASSUME IInv, phase = "leaky", NEW sh \in [Addr -> Value], NEW v,
         NEW s \in OfKind("w_ob"), NEW i \in Live(s)
  PROVE  Logical([sh EXCEPT ![Cell(s, i)] = v], s) =
           [Logical(sh, s) EXCEPT ![shadow_mem_pos[s] + i] = v]
<1> DEFINE sh2 == [sh EXCEPT ![Cell(s, i)] = v]
           p == shadow_mem_pos[s] + i
<1>1. /\ s \in Objects /\ s \in Iterators /\ obj[s].kind = "w_ob"
      /\ Live(s) = 0 .. shadow_mem_len[s] - 1
  BY LiveKinds DEF OfKind, Iterators
<1>2. /\ shadow_mem_pos[s] \in Nat /\ shadow_mem_len[s] \in Nat /\ obj[s].len \in Nat
      /\ shadow_mem_pos[s] + shadow_mem_len[s] <= obj[s].len
  BY <1>1, IInvChunkReady DEF ChunkReady, IInv, TypeOK
<1>3. ASSUME NEW j \in Live(s)
      PROVE  sh2[Cell(s, j)] = IF j = i THEN v ELSE sh[Cell(s, j)]
  <2>1. s \in Objects
    BY <1>1
  <2>2. Cell(s, i) \in Addr /\ Cell(s, j) \in Addr
    BY <2>1, CellSafe
  <2>3. Cell(s, j) = Cell(s, i) => j = i
    BY <2>1, CellsApart
  <2> QED BY <2>2, <2>3
<1> HIDE DEF sh2
<1>5. ASSUME NEW j \in 0 .. obj[s].len - 1
      PROVE  CopiedBack(sh2, s)[j] = IF j = p THEN v ELSE CopiedBack(sh, s)[j]
  <2>1. CASE j - shadow_mem_pos[s] \in 0 .. shadow_mem_len[s] - 1
    <3>1. sh2[Cell(s, j - shadow_mem_pos[s])] =
            IF j - shadow_mem_pos[s] = i THEN v ELSE sh[Cell(s, j - shadow_mem_pos[s])]
      BY <1>1, <1>3, <2>1
    <3>2. j - shadow_mem_pos[s] = i <=> j = p
      BY <1>1, <1>2
    <3> QED BY <2>1, <3>1, <3>2 DEF CopiedBack
  <2>2. CASE j - shadow_mem_pos[s] \notin 0 .. shadow_mem_len[s] - 1
    <3>1. j # p
      BY <1>1, <1>2, <2>2
    <3> QED BY <2>2, <3>1 DEF CopiedBack
  <2> QED BY <2>1, <2>2
<1>6. CopiedBack(sh2, s) = [CopiedBack(sh, s) EXCEPT ![p] = v]
  BY <1>5 DEF CopiedBack
<1> QED BY <1>1, <1>6 DEF Logical, sh2

\* nob_write_at writes its element through, too.
LEMMA PutThrough ==
  ASSUME IInv, phase = "leaky", NEW sh \in [Addr -> Value], NEW v,
         NEW s \in OfKind("nob"), NEW i \in Live(s)
  PROVE  Logical([sh EXCEPT ![Cell(s, i)] = v], s) = [Logical(sh, s) EXCEPT ![i] = v]
<1> DEFINE sh2 == [sh EXCEPT ![Cell(s, i)] = v]
<1>1. s \in Objects /\ obj[s].kind = "nob" /\ Live(s) = 0 .. obj[s].len - 1
  BY LiveKinds DEF OfKind
<1>2. ASSUME NEW j \in Live(s)
      PROVE  sh2[Cell(s, j)] = IF j = i THEN v ELSE sh[Cell(s, j)]
  <2>1. s \in Objects
    BY <1>1
  <2>2. Cell(s, i) \in Addr /\ Cell(s, j) \in Addr
    BY <2>1, CellSafe
  <2>3. Cell(s, j) = Cell(s, i) => j = i
    BY <2>1, CellsApart
  <2> QED BY <2>2, <2>3
<1> HIDE DEF sh2
<1>3. Logical(sh2, s) = [Logical(sh, s) EXCEPT ![i] = v]
  BY <1>1, <1>2 DEF Logical
<1> QED BY <1>3 DEF sh2

\* A transaction starts with the client's arrays as its view: writers see what
\* their chunks were filled with, arrays what the shadow memory held already.
LEMMA TxView ==
  ASSUME IInv', phase' = "leaky", NEW sh, begin_tx(sh), UNCHANGED obj
  PROVE  /\ \A s \in Objects \ OfKind("nob") : Logical(shadow, s)' = data'[s]
         /\ \A s \in OfKind("nob") :
              Logical(shadow, s)' = [i \in 0 .. obj[s].len - 1 |-> sh[Cell(s, i)']]
         /\ Advanced(iter_pos)' = shadow_mem_pos'
         /\ Saved' = Seen'
         /\ (\A s \in OfKind("r_nob") : \A i \in 0 .. obj[s].len - 1 :
               sh[Cell(s, i)'] = data'[s][i]) => CopiesMatch'
<1>1. /\ iter_pos' = [s \in Objects |-> 0]
      /\ chk' = [shadow |-> shadow', iter_pos |-> iter_pos', ret |-> ret']
      /\ obj' = obj
  BY DEF begin_tx
<1>2. /\ \A s \in Iterators : \A i \in 0 .. shadow_mem_len'[s] - 1 :
           shadow'[Cell(s, i)'] = data'[s][shadow_mem_pos'[s] + i]
      /\ \A s \in Objects \ Iterators : \A i \in 0 .. obj[s].len - 1 :
           shadow'[Cell(s, i)'] = sh[Cell(s, i)']
  BY BeginTxCopies
<1>3. /\ shadow_mem_pos' \in [Objects -> Nat]
      /\ shadow_mem_len' \in [Objects -> Nat]
      /\ \A s \in Objects : /\ data'[s] \in [0 .. obj[s].len - 1 -> Value]
                            /\ obj[s].len \in Nat
  BY <1>1 DEF IInv, TypeOK
<1>4. /\ OfKind("w_ob") \cup OfKind("r_ob") \subseteq Iterators
      /\ \A s \in OfKind("nob") \cup OfKind("r_nob") : s \in Objects \ Iterators
      /\ \A k : OfKind(k)' = OfKind(k)
      /\ Iterators' = Iterators
  BY <1>1 DEF OfKind, Iterators
<1>5. ASSUME NEW s \in Objects \ OfKind("nob")
      PROVE  Logical(shadow, s)' = data'[s]
  <2>1. CASE obj[s].kind = "w_ob"
    <3>1. s \in Iterators
      BY <2>1 DEF Iterators, OfKind
    <3>2. ASSUME NEW i \in 0 .. obj[s].len - 1
          PROVE  (IF i - shadow_mem_pos'[s] \in 0 .. shadow_mem_len'[s] - 1
                  THEN shadow'[Cell(s, i - shadow_mem_pos[s])'] ELSE data'[s][i])
                    = data'[s][i]
      <4>1. CASE i - shadow_mem_pos'[s] \in 0 .. shadow_mem_len'[s] - 1
        <5>1. shadow_mem_pos'[s] + (i - shadow_mem_pos'[s]) = i
          BY <1>3
        <5> QED BY <1>2, <3>1, <4>1, <5>1
      <4> QED BY <4>1
    <3>3. CopiedBack(shadow, s)' = data'[s]
      BY <1>1, <1>3, <3>2 DEF CopiedBack
    <3> QED BY <1>1, <2>1, <3>3 DEF Logical
  <2>2. CASE obj[s].kind # "w_ob"
    <3>1. obj[s].kind # "nob"
      BY DEF OfKind
    <3> QED BY <1>1, <2>2, <3>1 DEF Logical
  <2> QED BY <2>1, <2>2
<1>6. ASSUME NEW s \in OfKind("nob")
      PROVE  Logical(shadow, s)' = [i \in 0 .. obj[s].len - 1 |-> sh[Cell(s, i)']]
  <2>1. obj[s].kind = "nob" /\ s \in Objects \ Iterators
    BY <1>4 DEF OfKind
  <2> QED BY <1>1, <1>2, <2>1 DEF Logical
<1>7. Advanced(iter_pos)' = shadow_mem_pos'
  BY <1>1, <1>3 DEF Advanced
<1>8. ASSUME \A s \in OfKind("r_nob") : \A i \in 0 .. obj[s].len - 1 :
               sh[Cell(s, i)'] = data'[s][i]
      PROVE  CopiesMatch'
  <2>1. \A s \in OfKind("r_ob") : \A i \in Live(s)' :
          shadow'[Cell(s, i)'] = data'[s][shadow_mem_pos'[s] + i]
    BY <1>2, <1>4 DEF Live
  <2>2. \A s \in OfKind("r_nob") : \A i \in Live(s)' : shadow'[Cell(s, i)'] = data'[s][i]
    BY <1>1, <1>2, <1>4, <1>8 DEF Live
  <2> QED BY <1>1, <1>4, <2>1, <2>2 DEF CopiesMatch, Copies
<1>9. Saved' = Seen'
  <2>1. chk'.shadow = shadow' /\ chk'.iter_pos = iter_pos' /\ chk'.ret = ret'
    BY <1>1
  <2>2. /\ LogicalContent(chk.shadow)' = LogicalContent(shadow)'
        /\ Advanced(chk.iter_pos)' = Advanced(iter_pos)'
    BY <2>1 DEF LogicalContent, Logical, CopiedBack, Advanced
  <2> QED BY <2>1, <2>2 DEF Saved, Seen
<1> QED BY <1>5, <1>6, <1>7, <1>8, <1>9

\* While the chunks and the client's arrays stay, the view is that of the shadow
\* memory alone.
LEMMA ViewKept ==
  ASSUME UNCHANGED <<phase, objects, data, slots, shadow_mem_len, shadow_mem_pos>>
  PROVE  /\ LogicalContent(shadow)' = LogicalContent(shadow')
         /\ LogicalContent(chk.shadow)' = LogicalContent(chk'.shadow)
         /\ Advanced(iter_pos)' = Advanced(iter_pos')
         /\ Advanced(chk.iter_pos)' = Advanced(chk'.iter_pos)
         /\ Copies(shadow') /\ Copies(chk'.shadow) => CopiesMatch'
<1>1. UNCHANGED <<phase, obj, data, alloc, shadow_mem, shadow_mem_len, shadow_mem_pos>>
  BY DEF objects, slots
<1>2. \A s, i : Cell(s, i)' = Cell(s, i)
  BY <1>1 DEF Cell
<1>3. /\ \A s : CopiedBack(shadow, s)' = CopiedBack(shadow', s)
      /\ \A s : CopiedBack(chk.shadow, s)' = CopiedBack(chk'.shadow, s)
  BY <1>1, <1>2 DEF CopiedBack
<1>4. /\ \A s : Logical(shadow, s)' = Logical(shadow', s)
      /\ \A s : Logical(chk.shadow, s)' = Logical(chk'.shadow, s)
  BY <1>1, <1>2, <1>3 DEF Logical
<1>5. /\ \A k : OfKind(k)' = OfKind(k)
      /\ Iterators' = Iterators
      /\ \A s : Live(s)' = Live(s)
  BY <1>1 DEF Live, Iterators, OfKind
<1>6. /\ Copies(shadow)' <=> Copies(shadow')
      /\ Copies(chk.shadow)' <=> Copies(chk'.shadow)
  BY <1>1, <1>2, <1>5 DEF Copies
<1> QED BY <1>1, <1>4, <1>5, <1>6 DEF LogicalContent, Advanced, CopiesMatch

\* The rest of ob_read_next and ob_write_next changes nothing that the client
\* sees but the position of the iterator, whether or not the chunks move; a move
\* saves what the client then sees.
LEMMA StepView ==
  ASSUME RInv, phase = "leaky", UNCHANGED <<phase, sections, objects, slots>>,
         NEW s \in Iterators, Unfinished(s), StreamSets(s) # 0,
         NEW sh \in [Addr -> Value], Copies(sh), ret' \in Value, Step(s, sh)
  PROVE  /\ CopiesMatch'
         /\ LogicalContent(shadow)' = LogicalContent(sh)
         /\ Advanced(iter_pos)' = [Advanced(iter_pos) EXCEPT ![s] = @ + 1]
         /\ IF shadow_mem_pos' = shadow_mem_pos THEN Saved' = Saved ELSE Saved' = Seen'
<1> DEFINE it == [iter_pos EXCEPT ![s] = @ + 1]
<1>1. IInv /\ IInv' /\ s \in Objects
  BY StepStep DEF RInv, Iterators, OfKind
<1>2. Advanced(it) = [Advanced(iter_pos) EXCEPT ![s] = @ + 1]
  <2>1. /\ iter_pos \in [Objects -> Nat] /\ shadow_mem_pos \in [Objects -> Nat]
    BY <1>1 DEF IInv, TypeOK
  <2>2. Advanced(it)[s] = Advanced(iter_pos)[s] + 1
    BY <1>1, <2>1 DEF Advanced
  <2>3. \A t \in Objects : t # s => Advanced(it)[t] = Advanced(iter_pos)[t]
    BY <1>1, <2>1 DEF Advanced
  <2> HIDE DEF it
  <2> QED BY <2>2, <2>3 DEF Advanced
<1>3. CASE ~ChunkUsed(s, it)
  <2>1. /\ iter_pos' = it /\ shadow' = sh
        /\ UNCHANGED <<data, shadow_mem_len, shadow_mem_pos, chk>>
    BY <1>3 DEF Step
  <2> HIDE DEF it
  <2>2. Copies(shadow') /\ Copies(chk'.shadow)
    BY <2>1 DEF RInv, CopiesMatch
  <2>3. /\ LogicalContent(shadow)' = LogicalContent(sh)
        /\ Advanced(iter_pos)' = Advanced(it)
        /\ LogicalContent(chk.shadow)' = LogicalContent(chk.shadow)
        /\ Advanced(chk.iter_pos)' = Advanced(chk.iter_pos)
        /\ CopiesMatch'
    BY <2>1, <2>2, ViewKept
  <2>4. Saved' = Saved
    BY <2>1, <2>3 DEF Saved
  <2> QED BY <1>2, <2>1, <2>3, <2>4
<1>4. CASE ChunkUsed(s, it)
  <2>1. end_tx(sh, it) /\ begin_tx(sh)
    BY <1>4 DEF Step
  <2> HIDE DEF it
  <2>2. UNCHANGED obj
    BY DEF objects
  <2>3. /\ \A t \in Objects \ OfKind("nob") : Logical(shadow, t)' = data'[t]
        /\ \A t \in OfKind("nob") :
             Logical(shadow, t)' = [i \in 0 .. obj[t].len - 1 |-> sh[Cell(t, i)']]
        /\ Advanced(iter_pos)' = shadow_mem_pos'
        /\ Saved' = Seen'
        /\ (\A t \in OfKind("r_nob") : \A i \in 0 .. obj[t].len - 1 :
              sh[Cell(t, i)'] = data'[t][i]) => CopiesMatch'
    BY <1>1, <2>1, <2>2, TxView
  <2>4. \A t \in Objects : \A i : Cell(t, i)' = Cell(t, i)
    BY CellKept
  <2>5. /\ data' = [t \in Objects |->
                      IF t \in OfKind("w_ob") THEN CopiedBack(sh, t) ELSE data[t]]
        /\ shadow_mem_pos' = Advanced(it)
    BY <2>1 DEF end_tx
  <2>6. CopiesMatch'
    <3>1. ASSUME NEW t \in OfKind("r_nob"), NEW i \in 0 .. obj[t].len - 1
          PROVE  sh[Cell(t, i)'] = data'[t][i]
      <4>1. t \in Objects /\ t \notin OfKind("w_ob") /\ i \in Live(t)
        BY LiveKinds DEF OfKind
      <4>2. sh[Cell(t, i)] = data[t][i]
        BY <4>1 DEF Copies
      <4> QED BY <2>4, <2>5, <4>1, <4>2
    <3> QED BY <2>3, <3>1
  <2>7. ASSUME NEW t \in Objects
        PROVE  Logical(shadow, t)' = Logical(sh, t)
    <3>1. CASE obj[t].kind = "nob"
      BY <2>3, <2>4, <3>1 DEF Logical, OfKind
    <3>2. CASE obj[t].kind = "w_ob"
      BY <2>3, <2>5, <3>2 DEF Logical, OfKind
    <3>3. CASE obj[t].kind # "nob" /\ obj[t].kind # "w_ob"
      <4>1. Logical(sh, t) = data[t]
        BY <3>3 DEF Logical
      <4>2. Logical(shadow, t)' = data[t]
        BY <2>3, <2>5, <3>3 DEF OfKind
      <4> QED BY <4>1, <4>2
    <3> QED BY <3>1, <3>2, <3>3
  <2>8. LogicalContent(shadow)' = LogicalContent(sh)
    BY <2>7 DEF LogicalContent
  <2>9. shadow_mem_pos' # shadow_mem_pos
    <3>1. iter_pos \in [Objects -> Nat] /\ shadow_mem_pos[s] \in Nat
      BY <1>1 DEF IInv, TypeOK
    <3>2. it[s] = iter_pos[s] + 1 /\ iter_pos[s] \in Nat
      BY <1>1, <3>1 DEF it
    <3>3. shadow_mem_pos'[s] = shadow_mem_pos[s] + it[s]
      BY <1>1, <2>5 DEF Advanced
    <3> QED BY <3>1, <3>2, <3>3
  <2> QED BY <1>2, <2>3, <2>5, <2>6, <2>8, <2>9
<1> QED BY <1>3, <1>4

\* begin_leaky_sec shows the client its arrays as it left them.
LEMMA BeginView ==
  ASSUME IInv, begin_leaky_sec
  PROVE  /\ CopiesMatch'
         /\ LogicalContent(shadow)' = data
         /\ Advanced(iter_pos)' = shadow_mem_pos
         /\ Saved' = Seen'
<1> DEFINE arrays == OfKind("nob") \cup OfKind("r_nob")
           cells(t) == {<<Cell(t, i)', data[t][i]>> : i \in 0 .. obj[t].len - 1}
           stores == UNION {cells(t) : t \in arrays}
           sh == Store(shadow, stores)
<1>1. /\ phase' = "leaky" /\ IInv'
      /\ UNCHANGED <<obj, data, shadow_mem_pos>>
      /\ begin_tx(sh)
  BY BeginStep DEF begin_leaky_sec, objects
<1>2. /\ \A t \in arrays : t \in Objects
      /\ \A t \in arrays : Live(t)' = 0 .. obj[t].len - 1
  BY <1>1, LiveKinds DEF OfKind, Live, Iterators
<1>3. ASSUME NEW t \in arrays, NEW i \in 0 .. obj[t].len - 1
      PROVE  sh[Cell(t, i)'] = data[t][i]
  <2> DEFINE a == Cell(t, i)'
             v == data[t][i]
  <2>1. <<a, v>> \in stores
    <3>1. <<a, v>> \in cells(t)
      OBVIOUS
    <3> QED BY <3>1
  <2>2. t \in Objects /\ i \in Live(t)'
    BY <1>2
  <2>3. /\ Cell(t, i)' \in Addr
        /\ \A u \in Objects : \A j \in Live(u)' :
             Cell(t, i)' = Cell(u, j)' => t = u /\ i = j
    BY <1>1, <2>2, NoAliasNext DEF NoAlias
  <2>4. ASSUME NEW x \in stores, x[1] = a
        PROVE  x[2] = v
    <3>1. PICK u \in arrays : x \in cells(u)
      OBVIOUS
    <3>2. PICK j \in 0 .. obj[u].len - 1 : x = <<Cell(u, j)', data[u][j]>>
      BY <3>1
    <3>3. u \in Objects /\ j \in Live(u)' /\ Cell(t, i)' = Cell(u, j)'
      BY <1>2, <2>4, <3>2
    <3>4. t = u /\ i = j
      BY <2>3, <3>3
    <3> QED BY <3>2, <3>4
  <2>5. a \in Addr
    BY <2>3
  <2> HIDE DEF stores, a, v
  <2>6. Store(shadow, stores)[a] = v
    BY <2>1, <2>4, <2>5, StoreAt
  <2> QED BY <2>6 DEF a, v
<1> HIDE DEF sh
<1>4. /\ \A s \in Objects \ OfKind("nob") : Logical(shadow, s)' = data'[s]
      /\ \A s \in OfKind("nob") :
           Logical(shadow, s)' = [i \in 0 .. obj[s].len - 1 |-> sh[Cell(s, i)']]
      /\ Advanced(iter_pos)' = shadow_mem_pos'
      /\ Saved' = Seen'
      /\ (\A s \in OfKind("r_nob") : \A i \in 0 .. obj[s].len - 1 :
            sh[Cell(s, i)'] = data'[s][i]) => CopiesMatch'
  BY <1>1, TxView
<1>5. /\ data = [x \in Objects |-> data[x]]
      /\ \A s \in Objects : data[s] \in [0 .. obj[s].len - 1 -> Value]
  BY DEF IInv, TypeOK
<1>6. ASSUME NEW s \in Objects
      PROVE  Logical(shadow, s)' = data[s]
  <2>1. CASE s \in OfKind("nob")
    <3>1. \A i \in 0 .. obj[s].len - 1 : sh[Cell(s, i)'] = data[s][i]
      BY <1>3, <2>1
    <3>2. data[s] = [i \in 0 .. obj[s].len - 1 |-> data[s][i]]
      BY <1>5
    <3> QED BY <1>4, <2>1, <3>1, <3>2
  <2>2. CASE s \notin OfKind("nob")
    BY <1>1, <1>4, <2>2
  <2> QED BY <2>1, <2>2
<1>7. data = [s \in Objects |-> data[s]]
  BY <1>5
<1>8. LogicalContent(shadow)' = data
  BY <1>6, <1>7 DEF LogicalContent
<1>9. CopiesMatch'
  <2>1. \A s \in OfKind("r_nob") : \A i \in 0 .. obj[s].len - 1 :
          sh[Cell(s, i)'] = data'[s][i]
    BY <1>1, <1>3
  <2> QED BY <1>4, <2>1
<1> QED BY <1>1, <1>4, <1>8, <1>9

-----------------------------------------------------------------------------
(* Every action is a step of ObliviousArrays *)

\* In a section, and after a step that stays in it, the mapping is the view.
LEMMA OpenMapping ==
  ASSUME phase = "leaky", UNCHANGED <<phase, objects>>,
         Saved' = Saved \/ Saved' = Seen'
  PROVE  Abstract!MaySave
  BY DEF Abstract!MaySave, Abstract!Now, Saved, Seen

\* ob_read_next returns the element the client sees at the iterator's position.
LEMMA ReadView ==
  ASSUME RInv, NEW s \in Objects, ob_read_next(s)
  PROVE  /\ CopiesMatch'
         /\ Advanced(iter_pos)[s] \in DOMAIN LogicalContent(shadow)[s]
         /\ ret' = LogicalContent(shadow)[s][Advanced(iter_pos)[s]]
         /\ LogicalContent(shadow)' = LogicalContent(shadow)
         /\ Advanced(iter_pos)' = [Advanced(iter_pos) EXCEPT ![s] = @ + 1]
         /\ IF shadow_mem_pos' = shadow_mem_pos THEN Saved' = Saved ELSE Saved' = Seen'
<1> DEFINE p == shadow_mem_pos[s] + iter_pos[s]
<1>1. /\ phase = "leaky" /\ s \in OfKind("r_ob") /\ s \in Iterators
      /\ Unfinished(s) /\ StreamSets(s) # 0
      /\ ret' = shadow[Cell(s, iter_pos[s])]
      /\ UNCHANGED <<phase, sections, objects, slots>>
      /\ Step(s, shadow)
      /\ obj[s].kind = "r_ob"
  BY DEF ob_read_next, Iterators, OfKind, StreamSets
<1>2. /\ shadow \in [Addr -> Value] /\ iter_pos[s] \in Nat /\ shadow_mem_pos[s] \in Nat
      /\ data[s] \in [0 .. obj[s].len - 1 -> Value] /\ obj[s].len \in Nat
      /\ shadow_mem_len[s] \in Nat
  BY DEF RInv, IInv, TypeOK
<1>3. iter_pos[s] \in Live(s)
  BY <1>1, <1>2, IInvChunkReady DEF ChunkReady, Live, RInv
<1>4. ret' = data[s][p]
  BY <1>1, <1>3 DEF RInv, CopiesMatch, Copies
<1>5. p \in 0 .. obj[s].len - 1
  BY <1>1, <1>2 DEF Unfinished
<1>6. ret' \in Value
  BY <1>2, <1>4, <1>5
<1>7. Copies(shadow)
  BY <1>1 DEF RInv, CopiesMatch
<1>8. /\ CopiesMatch'
      /\ LogicalContent(shadow)' = LogicalContent(shadow)
      /\ Advanced(iter_pos)' = [Advanced(iter_pos) EXCEPT ![s] = @ + 1]
      /\ IF shadow_mem_pos' = shadow_mem_pos THEN Saved' = Saved ELSE Saved' = Seen'
  BY <1>1, <1>2, <1>6, <1>7, StepView
<1>9. LogicalContent(shadow)[s] = data[s] /\ Advanced(iter_pos)[s] = p
  BY <1>1 DEF LogicalContent, Logical, Advanced
<1>10. DOMAIN data[s] = 0 .. obj[s].len - 1
  BY <1>2
<1> HIDE DEF p
<1> QED BY <1>4, <1>5, <1>8, <1>9, <1>10

\* ob_read_next returns the next int of its view and moves on.
LEMMA ReadStep ==
  ASSUME RInv, NEW s \in Objects, ob_read_next(s)
  PROVE  CopiesMatch' /\ Abstract!Read(s)
<1>1. /\ phase = "leaky" /\ phase' = "leaky" /\ obj' = obj /\ obj[s].kind = "r_ob"
      /\ UNCHANGED <<phase, objects>>
  BY DEF ob_read_next, OfKind, objects
<1>2. /\ CopiesMatch'
      /\ Advanced(iter_pos)[s] \in DOMAIN LogicalContent(shadow)[s]
      /\ ret' = LogicalContent(shadow)[s][Advanced(iter_pos)[s]]
      /\ LogicalContent(shadow)' = LogicalContent(shadow)
      /\ Advanced(iter_pos)' = [Advanced(iter_pos) EXCEPT ![s] = @ + 1]
      /\ Saved' = Saved \/ Saved' = Seen'
  BY ReadView
<1>3. Abstract!MaySave
  BY <1>1, <1>2, OpenMapping
<1>4. Abstract!HasNext(s, "r_ob")
  BY <1>1, <1>2 DEF Abstract!HasNext
<1> QED BY <1>1, <1>2, <1>3, <1>4 DEF Abstract!Read

\* ob_write_next writes the next int of the view through its chunk.
LEMMA WriteStep ==
  ASSUME RInv, NEW s \in Objects, NEW v \in Written, ob_write_next(s, v)
  PROVE  CopiesMatch' /\ Abstract!Write(s, v)
<1> DEFINE p == shadow_mem_pos[s] + iter_pos[s]
           sh == [shadow EXCEPT ![Cell(s, iter_pos[s])] = v]
<1>1. /\ phase = "leaky" /\ s \in OfKind("w_ob") /\ s \in Iterators
      /\ Unfinished(s) /\ StreamSets(s) # 0
      /\ UNCHANGED <<phase, sections, objects, slots, ret>>
      /\ Step(s, sh)
      /\ obj[s].kind = "w_ob"
  BY DEF ob_write_next, Iterators, OfKind, StreamSets
<1>2. /\ shadow \in [Addr -> Value] /\ iter_pos[s] \in Nat /\ shadow_mem_pos[s] \in Nat
      /\ obj[s].len \in Nat /\ shadow_mem_len[s] \in Nat /\ ret \in Value
  BY DEF RInv, IInv, TypeOK
<1>3. iter_pos[s] \in Live(s)
  BY <1>1, <1>2, IInvChunkReady DEF ChunkReady, Live, RInv
<1>4. p \in 0 .. obj[s].len - 1
  BY <1>1, <1>2 DEF Unfinished
<1>5. sh \in [Addr -> Value] /\ v \in Value
  BY <1>2, ClientAssumption
<1>6. Copies(sh) /\ LogicalContent(sh) = [LogicalContent(shadow) EXCEPT ![s][p] = v]
  <2>1. IInv /\ Copies(shadow)
    BY <1>1 DEF RInv, CopiesMatch
  <2>2. s \in OfKind("w_ob") \cup OfKind("nob")
    BY <1>1
  <2>3. /\ \A t \in Objects : t # s => Logical(sh, t) = Logical(shadow, t)
        /\ Copies(sh)
    BY <1>1, <1>2, <1>3, <2>1, <2>2, StoreApart, Zenon
  <2>4. Logical(sh, s) = [Logical(shadow, s) EXCEPT ![p] = v]
    BY <1>1, <1>2, <1>3, <2>1, WriteThrough, Zenon
  <2> HIDE DEF sh, p
  <2> QED BY <2>3, <2>4 DEF LogicalContent
<1> HIDE DEF sh
<1>8. /\ CopiesMatch'
      /\ LogicalContent(shadow)' = LogicalContent(sh)
      /\ Advanced(iter_pos)' = [Advanced(iter_pos) EXCEPT ![s] = @ + 1]
      /\ Saved' = Saved \/ Saved' = Seen'
  BY <1>1, <1>2, <1>5, <1>6, StepView
<1>9. /\ DOMAIN LogicalContent(shadow)[s] = 0 .. obj[s].len - 1
      /\ Advanced(iter_pos)[s] = p
  BY <1>1 DEF LogicalContent, Logical, CopiedBack, Advanced
<1>10. Abstract!MaySave
  BY <1>1, <1>8, OpenMapping
<1>11. phase' = "leaky" /\ obj' = obj
  BY <1>1 DEF objects
<1> HIDE DEF p
<1>12. Abstract!HasNext(s, "w_ob")
  BY <1>1, <1>4, <1>9 DEF Abstract!HasNext
<1> QED
  BY <1>1, <1>6, <1>8, <1>9, <1>10, <1>11, <1>12 DEF Abstract!Write

\* nob_read_at returns the int of the view at its index.
LEMMA GetStep ==
  ASSUME RInv, NEW s \in Objects, NEW i, nob_read_at(s, i)
  PROVE  CopiesMatch' /\ Abstract!Get(s, i)
<1>1. /\ phase = "leaky" /\ i \in 0 .. obj[s].len - 1
      /\ obj[s].kind \in {"nob", "r_nob"} /\ s \in OfKind("nob") \cup OfKind("r_nob")
      /\ ret' = shadow[Cell(s, i)]
      /\ UNCHANGED <<phase, objects, data, slots, shadow_mem_len, shadow_mem_pos,
                     iter_pos, shadow, chk>>
  BY DEF nob_read_at, OfKind, chunks
<1>2. /\ Copies(shadow') /\ Copies(chk'.shadow)
  BY <1>1 DEF RInv, CopiesMatch
<1>3. /\ LogicalContent(shadow)' = LogicalContent(shadow)
      /\ LogicalContent(chk.shadow)' = LogicalContent(chk.shadow)
      /\ Advanced(iter_pos)' = Advanced(iter_pos)
      /\ Advanced(chk.iter_pos)' = Advanced(chk.iter_pos)
      /\ CopiesMatch'
  BY <1>1, <1>2, ViewKept
<1>4. LogicalContent(shadow)[s][i] = ret'
  <2>1. CASE obj[s].kind = "nob"
    BY <1>1, <2>1 DEF LogicalContent, Logical
  <2>2. CASE obj[s].kind = "r_nob"
    <3>1. i \in Live(s) /\ s \in OfKind("r_nob")
      BY <1>1, <2>2, LiveKinds DEF OfKind
    <3>2. shadow[Cell(s, i)] = data[s][i]
      BY <1>1, <3>1 DEF RInv, CopiesMatch, Copies
    <3> QED BY <1>1, <2>2, <3>2 DEF LogicalContent, Logical
  <2> QED BY <1>1, <2>1, <2>2
<1>5. phase' = "leaky" /\ obj' = obj
  BY <1>1 DEF objects
<1> QED BY <1>1, <1>3, <1>4, <1>5 DEF Abstract!Get, Abstract!Array

\* nob_write_at changes the element it names, whatever the value.
LEMMA PutView ==
  ASSUME RInv, NEW s \in Objects, NEW i, NEW v \in Value, nob_write_at(s, i, v)
  PROVE  /\ CopiesMatch'
         /\ LogicalContent(shadow)' = [LogicalContent(shadow) EXCEPT ![s][i] = v]
         /\ Advanced(iter_pos)' = Advanced(iter_pos)
         /\ Saved' = Saved
<1> DEFINE sh == [shadow EXCEPT ![Cell(s, i)] = v]
<1>1. /\ phase = "leaky" /\ i \in 0 .. obj[s].len - 1
      /\ obj[s].kind = "nob" /\ s \in OfKind("nob")
      /\ shadow' = sh
      /\ UNCHANGED <<phase, objects, data, slots, shadow_mem_len, shadow_mem_pos,
                     iter_pos, chk, ret>>
  BY DEF nob_write_at, OfKind
<1>2. shadow \in [Addr -> Value]
  BY DEF RInv, IInv, TypeOK
<1>3. i \in Live(s)
  BY <1>1, LiveKinds
<1>4. Copies(sh) /\ LogicalContent(sh) = [LogicalContent(shadow) EXCEPT ![s][i] = v]
  <2>1. IInv /\ Copies(shadow)
    BY <1>1 DEF RInv, CopiesMatch
  <2>2. s \in OfKind("w_ob") \cup OfKind("nob")
    BY <1>1
  <2>3. /\ \A t \in Objects : t # s => Logical(sh, t) = Logical(shadow, t)
        /\ Copies(sh)
    BY <1>1, <1>2, <1>3, <2>1, <2>2, StoreApart, Zenon
  <2>4. Logical(sh, s) = [Logical(shadow, s) EXCEPT ![i] = v]
    BY <1>1, <1>2, <1>3, <2>1, PutThrough, Zenon
  <2> HIDE DEF sh
  <2> QED BY <2>3, <2>4 DEF LogicalContent
<1> HIDE DEF sh
<1>6. /\ Copies(shadow') /\ Copies(chk'.shadow)
  BY <1>1, <1>4 DEF RInv, CopiesMatch
<1>7. /\ LogicalContent(shadow)' = LogicalContent(sh)
      /\ LogicalContent(chk.shadow)' = LogicalContent(chk.shadow)
      /\ Advanced(iter_pos)' = Advanced(iter_pos)
      /\ Advanced(chk.iter_pos)' = Advanced(chk.iter_pos)
      /\ CopiesMatch'
  BY <1>1, <1>6, ViewKept
<1>8. Saved' = Saved
  BY <1>1, <1>7 DEF Saved
<1> QED BY <1>4, <1>7, <1>8

\* nob_write_at changes the view at its index and nowhere else.
LEMMA PutStep ==
  ASSUME RInv, NEW s \in Objects, NEW i, NEW v \in Value, nob_write_at(s, i, v)
  PROVE  CopiesMatch' /\ Abstract!Put(s, i, v)
<1>1. /\ phase = "leaky" /\ phase' = "leaky" /\ obj' = obj /\ obj[s].kind = "nob"
      /\ ret' = ret
  BY DEF nob_write_at, OfKind, objects
<1>2. /\ CopiesMatch'
      /\ LogicalContent(shadow)' = [LogicalContent(shadow) EXCEPT ![s][i] = v]
      /\ Advanced(iter_pos)' = Advanced(iter_pos)
      /\ Saved' = Saved
  BY PutView
<1> QED BY <1>1, <1>2 DEF Abstract!Put, Saved

\* An abort takes the client back to the state saved, and to nothing between.
LEMMA RollBackView ==
  ASSUME RInv, phase = "leaky", RollBack
  PROVE  CopiesMatch' /\ Seen' = Saved /\ Saved' = Saved
<1>1. /\ shadow' = chk.shadow /\ iter_pos' = chk.iter_pos /\ ret' = chk.ret
      /\ UNCHANGED <<phase, objects, data, slots, shadow_mem_len, shadow_mem_pos, chk>>
  BY DEF RollBack
<1>2. /\ Copies(shadow') /\ Copies(chk'.shadow)
  BY <1>1 DEF RInv, CopiesMatch
<1>3. /\ LogicalContent(shadow)' = LogicalContent(chk.shadow)
      /\ LogicalContent(chk.shadow)' = LogicalContent(chk.shadow)
      /\ Advanced(iter_pos)' = Advanced(chk.iter_pos)
      /\ Advanced(chk.iter_pos)' = Advanced(chk.iter_pos)
      /\ CopiesMatch'
  BY <1>1, <1>2, ViewKept
<1> QED BY <1>1, <1>3 DEF Seen, Saved

\* An abort takes the views back to those the transaction started with.
LEMMA FallBackStep ==
  ASSUME RInv, phase = "leaky", RollBack
  PROVE  CopiesMatch' /\ Abstract!FallBack
<1>1. phase' = "leaky" /\ obj' = obj
  BY DEF RollBack, objects
<1> QED BY <1>1, RollBackView DEF Abstract!FallBack, Seen, Saved

\* begin_leaky_sec loads copies that change no view.
LEMMA OpenStep ==
  ASSUME RInv, begin_leaky_sec
  PROVE  CopiesMatch' /\ Abstract!Open
<1>1. /\ phase \in {"setup", "idle"} /\ phase' = "leaky" /\ ret' = ret
      /\ UNCHANGED <<obj, data, shadow_mem_pos>>
  BY DEF begin_leaky_sec, objects
<1>2. /\ CopiesMatch'
      /\ LogicalContent(shadow)' = data
      /\ Advanced(iter_pos)' = shadow_mem_pos
      /\ Saved' = Seen'
  BY BeginView DEF RInv
<1>3. Saved' = [content |-> data, pos |-> shadow_mem_pos, ret |-> ret]
  BY <1>1, <1>2 DEF Seen
<1> QED BY <1>1, <1>2, <1>3 DEF Abstract!Open, Abstract!Now, Saved

\* The end of a section leaves in the client's arrays what the client saw.
LEMMA EndView ==
  ASSUME NEW q, EndSection(q)
  PROVE  data' = LogicalContent(shadow)
  BY DEF EndSection, LogicalContent, Logical, FinalData

\* The end of a section leaves in the arrays what the views showed.
LEMMA CloseStep ==
  ASSUME RInv, NEW p \in {"idle", "aborted"}, EndSection(p)
  PROVE  CopiesMatch' /\ Abstract!Close(IF p = "idle" THEN "closed" ELSE "over")
<1>1. /\ phase = "leaky" /\ phase' = p
      /\ shadow_mem_pos' = Advanced(iter_pos)
      /\ UNCHANGED <<obj, ret>>
  BY DEF EndSection
<1>2. data' = LogicalContent(shadow)
  BY EndView
<1> QED BY <1>1, <1>2 DEF Abstract!Close, Abstract!Nowhere, CopiesMatch

\* Outside a section the mapping is the client's own arrays.
LEMMA ClosedMapping ==
  ASSUME phase \in {"setup", "idle"}, phase' = phase
  PROVE  CopiesMatch'
  BY DEF CopiesMatch

\* A registered array is seen as it is, and nothing else changes.
LEMMA RegisterView ==
  ASSUME RInv, NEW k, NEW n \in Lens, Register(k, n),
         \/ UNCHANGED shadow_mem_pos
         \/ shadow_mem_pos' = [shadow_mem_pos EXCEPT ![meta_pos \div PageInts] = 0]
  PROVE  /\ CopiesMatch'
         /\ \E s \in Objects : \E l \in Abstract!Iterator \cup Abstract!Array :
              Abstract!Register(s, l)
<1> DEFINE s == meta_pos \div PageInts
<1>1. /\ phase = "setup" /\ k \in Kinds /\ s < MaxObjects /\ s \in Nat
      /\ \E d \in Contents(s, n) : data' = [data EXCEPT ![s] = d]
      /\ obj' = [obj EXCEPT ![s] = [kind |-> k, len |-> n, idx |-> vec[k].size,
                                    before |-> vec[k].total]]
      /\ UNCHANGED <<phase, ret>>
      /\ obj[s].kind = "none" /\ s \in Objects
  <2>1. s \in 0 .. MaxObjects /\ \A t \in Objects : t >= s => obj[t].kind = "none"
    BY NextPage DEF Register, RInv
  <2>2. MaxObjects \in Nat
    BY ClientAssumption
  <2> HIDE DEF s
  <2>3. s < MaxObjects
    BY DEF Register, s
  <2>4. s \in Objects /\ s \in Nat
    BY <2>1, <2>2, <2>3 DEF Objects
  <2>5. obj[s].kind = "none"
    BY <2>1, <2>4
  <2> QED BY <2>3, <2>4, <2>5 DEF Register, s
<1> HIDE DEF s
<1>2. k \in Abstract!Iterator \cup Abstract!Array
  BY <1>1, ClientAssumption DEF AllKinds, Abstract!Iterator, Abstract!Array
<1>3. /\ data = [x \in Objects |-> data[x]]
      /\ shadow_mem_pos \in [Objects -> Nat]
      /\ obj \in [Objects -> [kind : AllKinds \cup {"none"}, len : Nat,
                              idx : Nat, before : Nat]]
      /\ shadow_mem_pos[s] <= obj[s].len
      /\ obj[s].len = 0
  BY <1>1 DEF RInv, IInv, TypeOK, ChunksOK, VectorsOK
<1>4. shadow_mem_pos' = shadow_mem_pos
  <2>1. shadow_mem_pos[s] = 0
    BY <1>1, <1>3
  <2> QED BY <1>3, <2>1 DEF s
<1>5. PICK d \in Contents(s, n) : data' = [data EXCEPT ![s] = d]
  BY <1>1
<1>6. d \in [0 .. n - 1 -> Value]
  <2>1. s \in 0 .. MaxObjects - 1
    BY <1>1 DEF Objects
  <2> QED BY <2>1, ContentsAssumption
<1>7. data'[s] = d
  BY <1>1, <1>3, <1>5
<1>8. [t \in Objects |-> obj[t].kind]' = [[t \in Objects |-> obj[t].kind] EXCEPT ![s] = k]
  BY <1>1, <1>3
<1>9. \A i \in DOMAIN data'[s] : data'[s][i] \in Value
  BY <1>6, <1>7
<1>10. Abstract!Register(s, k)
  BY <1>1, <1>4, <1>5, <1>7, <1>8, <1>9 DEF Abstract!Register
<1> QED BY <1>1, <1>2, <1>10, ClosedMapping

\* The runtime is gone, or the process.
LEMMA FinishStep ==
  ASSUME phase \in {"setup", "idle"}, phase' \in {"freed", "aborted", "trapped"},
         UNCHANGED <<objects, data, shadow_mem_pos, ret>>
  PROVE  CopiesMatch' /\ Abstract!Finish
  BY DEF CopiesMatch, Abstract!Finish, objects

\* A write between the sections goes to the array itself.
LEMMA StoreStep ==
  ASSUME RInv, NEW s \in Objects, NEW i, NEW v, write_leaky(s, i, v)
  PROVE  CopiesMatch' /\ Abstract!Store(s, i, v)
  BY DEF write_leaky, Between, CopiesMatch, Abstract!Store, objects, chunks

\* reset_ob takes an iterator back to the start of its view.
LEMMA RewindStep ==
  ASSUME RInv, NEW s \in Objects, reset_ob(s)
  PROVE  CopiesMatch' /\ Abstract!Rewind(s)
<1>1. phase = "idle" /\ phase' = "idle" /\ obj[s].kind \in {"r_ob", "w_ob"}
  BY DEF reset_ob, Between, Iterators, OfKind
<1> QED
  BY <1>1 DEF reset_ob, CopiesMatch, Abstract!Rewind, Abstract!Iterator, objects

\* Nothing happens to what is mapped.
LEMMA StutterStep ==
  ASSUME RInv, UNCHANGED vars
  PROVE  CopiesMatch' /\ UNCHANGED Abstract!vars
<1>1. UNCHANGED <<phase, objects, data, slots, shadow_mem_len, shadow_mem_pos,
                  iter_pos, shadow, chk, ret>>
  BY DEF vars, chunks
<1>2. CASE phase = "leaky"
  <2>1. /\ Copies(shadow') /\ Copies(chk'.shadow)
    BY <1>1, <1>2 DEF RInv, CopiesMatch
  <2>2. /\ LogicalContent(shadow)' = LogicalContent(shadow)
        /\ LogicalContent(chk.shadow)' = LogicalContent(chk.shadow)
        /\ Advanced(iter_pos)' = Advanced(iter_pos)
        /\ Advanced(chk.iter_pos)' = Advanced(chk.iter_pos)
        /\ CopiesMatch'
    BY <1>1, <2>1, ViewKept
  <2>3. phase' = "leaky" /\ obj' = obj
    BY <1>1, <1>2 DEF objects
  <2> QED BY <1>1, <1>2, <2>2, <2>3 DEF Abstract!vars
<1>3. CASE phase # "leaky"
  BY <1>1, <1>3 DEF CopiesMatch, Abstract!vars, objects
<1> QED BY <1>2, <1>3

\* The offsets of an array as the client sees it.
LEMMA SeenDomain ==
  ASSUME IInv, NEW s \in Objects
  PROVE  /\ DOMAIN data[s] = 0 .. obj[s].len - 1
         /\ DOMAIN LogicalContent(shadow)[s] = 0 .. obj[s].len - 1
<1>1. data[s] \in [0 .. obj[s].len - 1 -> Value]
  BY DEF IInv, TypeOK
<1> QED BY <1>1 DEF LogicalContent, Logical, CopiedBack

\* Every step of the runtime is one of ObliviousArrays or changes nothing
\* its client sees.
LEMMA NextAbstract ==
  ASSUME RInv, [Next]_vars
  PROVE  CopiesMatch' /\ [Abstract!Next]_(Abstract!vars)
<1>i. IInv
  BY DEF RInv
<1>1. ASSUME NEW n \in Lens, init_read_ob_iterator(n) \/ init_write_ob_iterator(n)
      PROVE  CopiesMatch' /\ Abstract!Next
  <2>1. PICK k : init_ob_iterator(k, n)
    BY <1>1 DEF init_read_ob_iterator, init_write_ob_iterator
  <2>2. /\ Register(k, n)
        /\ shadow_mem_pos' = [shadow_mem_pos EXCEPT ![meta_pos \div PageInts] = 0]
    BY <2>1 DEF init_ob_iterator
  <2> QED BY <2>2, RegisterView DEF Abstract!Next
<1>2. ASSUME NEW n \in Lens, init_nob_array(n) \/ init_read_nob_array(n)
      PROVE  CopiesMatch' /\ Abstract!Next
  <2>1. PICK k : Register(k, n) /\ UNCHANGED shadow_mem_pos
    BY <1>2 DEF init_nob_array, init_read_nob_array
  <2> QED BY <2>1, RegisterView DEF Abstract!Next
<1>3. CASE begin_leaky_sec
  BY <1>3, OpenStep DEF Abstract!Next
<1>4. CASE begin_leaky_sec_aborts \/ free_cmo_runtime
  <2>1. /\ phase \in {"setup", "idle"} /\ phase' \in {"freed", "aborted", "trapped"}
        /\ UNCHANGED <<objects, data, shadow_mem_pos, ret>>
    BY <1>4 DEF begin_leaky_sec_aborts, free_cmo_runtime, chunks
  <2> QED BY <2>1, FinishStep DEF Abstract!Next
<1>5. ASSUME NEW p \in {"idle", "aborted"}, EndSection(p)
      PROVE  CopiesMatch' /\ Abstract!Next
  <2>1. (IF p = "idle" THEN "closed" ELSE "over") \in {"closed", "over"}
    OBVIOUS
  <2> QED BY <1>5, <2>1, CloseStep DEF Abstract!Next
<1>6. CASE end_leaky_sec \/ cmo_abort
  <2>1. CASE EndSection("idle") \/ EndSection("aborted")
    BY <1>5, <2>1
  <2>2. CASE /\ phase \in {"setup", "idle"} /\ phase' = "trapped"
             /\ UNCHANGED <<sections, objects, data, slots, chunks, ret>>
    <3>1. /\ phase' \in {"freed", "aborted", "trapped"}
          /\ UNCHANGED <<objects, data, shadow_mem_pos, ret>>
      BY <2>2 DEF chunks
    <3> QED BY <2>2, <3>1, FinishStep DEF Abstract!Next
  <2> QED BY <1>6, <2>1, <2>2 DEF end_leaky_sec, cmo_abort
<1>7. ASSUME phase = "leaky", RollBack
      PROVE  CopiesMatch' /\ Abstract!Next
  BY <1>7, FallBackStep DEF Abstract!Next
<1>8. CASE TxAbort \/ \E s \in Objects : ob_next_faults(s)
  BY <1>7, <1>8 DEF TxAbort, ob_next_faults
<1>9. ASSUME NEW s \in Objects, ob_read_next(s) \/ reset_ob(s)
      PROVE  CopiesMatch' /\ Abstract!Next
  BY <1>9, ReadStep, RewindStep DEF Abstract!Next
<1>10. ASSUME NEW s \in Objects, NEW v \in Written, ob_write_next(s, v)
       PROVE  CopiesMatch' /\ Abstract!Next
  BY <1>10, WriteStep DEF Abstract!Next
<1>11. ASSUME NEW s \in Objects, NEW i \in 0 .. obj[s].len - 1, nob_read_at(s, i)
       PROVE  CopiesMatch' /\ Abstract!Next
  <2>1. phase = "leaky" /\ i \in DOMAIN LogicalContent(shadow)[s]
    BY <1>i, <1>11, SeenDomain DEF nob_read_at
  <2>2. CopiesMatch' /\ Abstract!Get(s, i)
    BY <1>11, GetStep
  <2> QED BY <2>1, <2>2 DEF Abstract!Next
<1>12. ASSUME NEW s \in Objects, NEW i \in 0 .. obj[s].len - 1, NEW v \in Written,
              nob_write_at(s, i, v)
       PROVE  CopiesMatch' /\ Abstract!Next
  <2>1. phase = "leaky" /\ i \in DOMAIN LogicalContent(shadow)[s]
    BY <1>i, <1>12, SeenDomain DEF nob_write_at
  <2>2. CopiesMatch' /\ Abstract!Put(s, i, v)
    BY <1>12, PutStep, ClientAssumption
  <2> QED BY <2>1, <2>2 DEF Abstract!Next
<1>13. ASSUME NEW s \in Objects, NEW i \in 0 .. obj[s].len - 1, NEW v \in Written,
              write_leaky(s, i, v)
       PROVE  CopiesMatch' /\ Abstract!Next
  <2>1. phase # "leaky" /\ i \in DOMAIN data[s]
    BY <1>i, <1>13, SeenDomain DEF write_leaky, Between
  <2>2. CopiesMatch' /\ Abstract!Store(s, i, v)
    BY <1>13, StoreStep
  <2> QED BY <2>1, <2>2 DEF Abstract!Next
<1>14. CASE Stopped \/ UNCHANGED vars
  BY <1>14, StutterStep DEF Stopped
<1> QED
  BY <1>1, <1>2, <1>3, <1>4, <1>6, <1>8, <1>9, <1>10, <1>11, <1>12, <1>13, <1>14
  DEF Next

\* In the first state no object is registered.
LEMMA InitAbstract == Init => CopiesMatch /\ Abstract!Init
  BY DEF Init, CopiesMatch, Abstract!Init, Abstract!Nowhere, NoObject

-----------------------------------------------------------------------------
(* Theorems about what the client sees *)

\* The copies match in every state.
LEMMA RefinementInvariance == Spec => []RInv
<1>1. Init => RInv
  BY InitIInv, InitAbstract DEF RInv
<1>2. RInv /\ [Next]_vars => RInv'
  BY NextIInv, NextAbstract DEF RInv
<1> QED BY <1>1, <1>2, PTL DEF Spec

\* No sequence of accesses, chunk moves and aborts makes the copy of what a
\* section only reads stale, in the shadow memory or in the state an abort goes
\* back to: begin_tx, copy_nob and the cal_ functions.
THEOREM CopiesNeverStale == Spec => []CopiesMatch
<1>1. RInv => CopiesMatch
  BY DEF RInv
<1> QED BY <1>1, RefinementInvariance, PTL

\* For every cache, every set of objects and every sequence of calls and aborts
\* the client of the runtime sees plain arrays, which begin_leaky_sec shows as it
\* left them and end_leaky_sec leaves as it last saw them.
THEOREM Refinement == Spec => ImplementsObliviousArrays
<1>1. Init => Abstract!Init
  BY InitAbstract
<1>2. RInv /\ [Next]_vars => [Abstract!Next]_(Abstract!vars)
  BY NextAbstract
<1> QED
  BY <1>1, <1>2, RefinementInvariance, PTL
  DEF Spec, ImplementsObliviousArrays, Abstract!Spec

=============================================================================
