------------------------- MODULE NaiveShuffleProofs -------------------------
(***************************************************************************)
(* naive_shuffle shuffles: for every length and permutation, in whatever   *)
(* order C++ evaluates the arguments and wherever the transactions abort.  *)
(***************************************************************************)
EXTENDS NaiveShuffle, CMORuntimeProofs

Setup  == {"init_d", "init_p", "init_o", "begin"}
Labels == Setup \cup {"loop", "free", "done", "dead"}

\* Where the runtime is at a label of the program.
PhaseOf(label) ==
  CASE label \in Setup -> "setup"
    [] label = "loop"  -> "leaky"
    [] label = "free"  -> "idle"
    [] label = "done"  -> "freed"
    [] label = "dead"  -> "aborted"

\* The objects registered before a label.
Registered(label) ==
  CASE label = "init_d" -> 0 [] label = "init_p" -> 1 [] label = "init_o" -> 2
    [] OTHER -> 3

HasObject(s, k) == obj[s].kind = k /\ obj[s].len = len

Permutes(f) ==
  /\ \A j \in 0 .. len - 1 : f[j] \in 0 .. len - 1
  /\ \A j, k \in 0 .. len - 1 : f[j] = f[k] => j = k

\* The program has got as far as its runtime.
InStep ==
  /\ pc \in Labels /\ phase = PhaseOf(pc)
  /\ pc # "init_d" => len \in Lens
  /\ pc \in Setup =>
       /\ i = 0 /\ DOMAIN args = {}
       /\ shadow_mem_pos[d] = 0 /\ shadow_mem_pos[p] = 0
  /\ pc \in {"init_d", "init_p", "init_o"} => meta_pos \div PageInts = Registered(pc)
  /\ Registered(pc) > 0 => HasObject(d, "r_ob")
  /\ Registered(pc) > 1 => HasObject(p, "r_ob") /\ Permutes(data[p])
  /\ Registered(pc) > 2 => HasObject(o, "nob")

\* n elements of c are where they belong.
Placed(c, n) == \A j \in 0 .. n - 1 : c[o][c[p][j]] = c[d][j]

\* The locals n and a match the view v: what a program that has placed n
\* elements, and read those of a, sees.
Tracks(v, n, a) ==
  /\ n \in 0 .. len
  /\ DOMAIN a \subseteq {d, p} /\ (DOMAIN a # {} => n < len)
  /\ \A s \in {d, p} :
       /\ v.pos[s] = n + (IF s \in DOMAIN a THEN 1 ELSE 0)
       /\ s \in DOMAIN a => a[s] = v.content[s][n]
  /\ Placed(v.content, n)

\* The program, and the state an abort takes it back to, match the runtime's.
ShuffleInv ==
  /\ RInv
  /\ InStep
  /\ phase = "leaky" =>
       /\ Tracks(Seen, i, args)
       /\ saved[1] = "loop" /\ Tracks(Saved, saved[2], saved[3])
  /\ pc \in {"free", "done"} => Placed(data, len)

-----------------------------------------------------------------------------
(* Before the section *)

\* The array, the permutation and the output are three of the objects.
LEMMA ThreeObjects == d \in Objects /\ p \in Objects /\ o \in Objects
  BY ShuffleAssumption, ClientAssumption DEF d, p, o, Objects

\* A step of the runtime's client keeps the invariant of the runtime.
LEMMA RuntimeStep ==
  ASSUME RInv, [Next]_vars
  PROVE  RInv'
  BY NextIInv, NextAbstract DEF RInv

\* The t-th object is registered.
LEMMA RegisterFacts ==
  ASSUME RInv, NEW k, NEW n \in Lens, NEW t \in 0 .. 2, Register(k, n),
         meta_pos \div PageInts = t
  PROVE  /\ phase = "setup" /\ phase' = "setup"
         /\ obj'[t].kind = k /\ obj'[t].len = n
         /\ data'[t] \in Contents(t, n)
         /\ \A s \in Objects : s # t => obj'[s] = obj[s] /\ data'[s] = data[s]
         /\ meta_pos' \div PageInts = t + 1
<1>1. t \in Objects
  BY ShuffleAssumption, ClientAssumption DEF Objects
<1>2. /\ phase = "setup" /\ phase' = "setup"
      /\ obj' = [obj EXCEPT ![t] = [kind |-> k, len |-> n, idx |-> vec[k].size,
                                    before |-> vec[k].total]]
      /\ \E c \in Contents(t, n) : data' = [data EXCEPT ![t] = c]
      /\ meta_pos' = meta_pos + PageInts
  BY DEF Register
<1>3. /\ data = [x \in Objects |-> data[x]]
      /\ obj \in [Objects -> [kind : AllKinds \cup {"none"}, len : Nat,
                              idx : Nat, before : Nat]]
  BY DEF RInv, IInv, TypeOK
<1>4. /\ data'[t] \in Contents(t, n)
      /\ \A s \in Objects : s # t => data'[s] = data[s]
  BY <1>1, <1>2, <1>3
<1>5. /\ obj'[t].kind = k /\ obj'[t].len = n
      /\ \A s \in Objects : s # t => obj'[s] = obj[s]
  BY <1>1, <1>2, <1>3
<1>6. meta_pos' \div PageInts = t + 1
  <2>1. meta_pos' = (t + 1) * PageInts
    BY <1>2, NextPage DEF RInv
  <2> DEFINE m == (t + 1) * PageInts
  <2>2. t + 1 \in Nat /\ m \in Nat
    BY PagePos, ProductNat
  <2>3. (m + 0) \div PageInts = t + 1
    BY <2>2, PagePos, QuotientUnique
  <2>4. meta_pos' = m
    BY <2>1
  <2> HIDE DEF m
  <2> QED BY <2>2, <2>3, <2>4
<1> QED BY <1>2, <1>4, <1>5, <1>6

\* An iterator starts at 0.
LEMMA RegisterIteratorFacts ==
  ASSUME RInv, NEW k, NEW n \in Lens, NEW t \in {d, p}, init_ob_iterator(k, n),
         meta_pos \div PageInts = t, shadow_mem_pos[d] = 0, shadow_mem_pos[p] = 0
  PROVE  shadow_mem_pos'[d] = 0 /\ shadow_mem_pos'[p] = 0
<1>1. shadow_mem_pos' = [shadow_mem_pos EXCEPT ![t] = 0]
  BY DEF init_ob_iterator
<1>2. shadow_mem_pos \in [Objects -> Nat] /\ d \in Objects /\ p \in Objects
  BY ThreeObjects DEF RInv, IInv, TypeOK
<1> QED BY <1>1, <1>2

\* Registering the input keeps the invariant.
LEMMA RegisterDStep == ShuffleInv /\ RegisterD => ShuffleInv'
<1> SUFFICES ASSUME ShuffleInv, RegisterD PROVE ShuffleInv'
  OBVIOUS
<1>1. PICK n \in Lens : /\ pc = "init_d" /\ pc' = "init_p"
                        /\ init_read_ob_iterator(n)
                        /\ len' = n
                        /\ UNCHANGED <<i, args, saved, retries>>
  BY DEF RegisterD
<1>2. init_ob_iterator("r_ob", n) /\ Register("r_ob", n) /\ RInv
  BY <1>1 DEF init_read_ob_iterator, init_ob_iterator, ShuffleInv
<1>3. /\ meta_pos \div PageInts = d /\ i = 0 /\ DOMAIN args = {}
      /\ shadow_mem_pos[d] = 0 /\ shadow_mem_pos[p] = 0
  BY <1>1 DEF ShuffleInv, InStep, Registered, Setup, d
<1>4. RInv'
  BY <1>1, <1>2, RuntimeStep DEF Next
<1>5. /\ phase' = "setup" /\ obj'[d].kind = "r_ob" /\ obj'[d].len = n
      /\ meta_pos' \div PageInts = 1
  BY <1>2, <1>3, RegisterFacts DEF d
<1>6. shadow_mem_pos'[d] = 0 /\ shadow_mem_pos'[p] = 0
  BY <1>2, <1>3, RegisterIteratorFacts
<1>7. InStep'
  BY <1>1, <1>3, <1>5, <1>6 DEF InStep, Labels, Setup, PhaseOf, Registered, HasObject
<1> QED BY <1>1, <1>4, <1>5, <1>7 DEF ShuffleInv

\* Registering the permutation keeps the invariant.
LEMMA RegisterPStep == ShuffleInv /\ RegisterP => ShuffleInv'
<1> SUFFICES ASSUME ShuffleInv, RegisterP PROVE ShuffleInv'
  OBVIOUS
<1>1. /\ pc = "init_p" /\ pc' = "init_o"
      /\ init_read_ob_iterator(len)
      /\ UNCHANGED <<len, i, args>>
  BY DEF RegisterP, Call
<1>2. /\ init_ob_iterator("r_ob", len) /\ Register("r_ob", len) /\ RInv
  BY <1>1 DEF init_read_ob_iterator, init_ob_iterator, ShuffleInv
<1>3. /\ meta_pos \div PageInts = p /\ i = 0 /\ DOMAIN args = {} /\ len \in Lens
      /\ shadow_mem_pos[d] = 0 /\ shadow_mem_pos[p] = 0
      /\ HasObject(d, "r_ob")
  BY <1>1 DEF ShuffleInv, InStep, Registered, Setup, p
<1>4. RInv'
  BY <1>1, <1>2, <1>3, RuntimeStep DEF Next
<1>5. /\ phase' = "setup" /\ obj'[p].kind = "r_ob" /\ obj'[p].len = len
      /\ data'[p] \in Contents(p, len)
      /\ obj'[d] = obj[d]
      /\ meta_pos' \div PageInts = 2
  BY <1>2, <1>3, ThreeObjects, RegisterFacts DEF d, p
<1>6. shadow_mem_pos'[d] = 0 /\ shadow_mem_pos'[p] = 0
  BY <1>2, <1>3, RegisterIteratorFacts
<1>7. Permutes(data[p])'
  BY <1>1, <1>3, <1>5, ShuffleAssumption DEF Permutes
<1>8. InStep'
  BY <1>1, <1>3, <1>5, <1>6, <1>7
  DEF InStep, Labels, Setup, PhaseOf, Registered, HasObject
<1> QED BY <1>1, <1>4, <1>5, <1>8 DEF ShuffleInv

\* Registering the output keeps the invariant.
LEMMA RegisterOStep == ShuffleInv /\ RegisterO => ShuffleInv'
<1> SUFFICES ASSUME ShuffleInv, RegisterO PROVE ShuffleInv'
  OBVIOUS
<1>1. /\ pc = "init_o" /\ pc' = "begin"
      /\ init_nob_array(len)
      /\ UNCHANGED <<len, i, args>>
  BY DEF RegisterO, Call
<1>2. Register("nob", len) /\ UNCHANGED shadow_mem_pos /\ RInv
  BY <1>1 DEF init_nob_array, ShuffleInv
<1>3. /\ meta_pos \div PageInts = o /\ i = 0 /\ DOMAIN args = {} /\ len \in Lens
      /\ shadow_mem_pos[d] = 0 /\ shadow_mem_pos[p] = 0
      /\ HasObject(d, "r_ob") /\ HasObject(p, "r_ob") /\ Permutes(data[p])
  BY <1>1 DEF ShuffleInv, InStep, Registered, Setup, o
<1>4. RInv'
  BY <1>1, <1>3, RuntimeStep DEF Next, ShuffleInv
<1>5. /\ phase' = "setup" /\ obj'[o].kind = "nob" /\ obj'[o].len = len
      /\ obj'[d] = obj[d] /\ obj'[p] = obj[p] /\ data'[p] = data[p]
  BY <1>2, <1>3, ThreeObjects, RegisterFacts DEF d, p, o
<1>6. Permutes(data[p])'
  BY <1>1, <1>3, <1>5 DEF Permutes
<1>7. InStep'
  BY <1>1, <1>2, <1>3, <1>5, <1>6
  DEF InStep, Labels, Setup, PhaseOf, Registered, HasObject
<1> QED BY <1>1, <1>4, <1>5, <1>7 DEF ShuffleInv

-----------------------------------------------------------------------------
(* In the section *)

\* What a step in a section leaves of the program's frame.
LEMMA InStepKept ==
  ASSUME ShuffleInv, pc = "loop", pc' = "loop", UNCHANGED <<phase, obj, len>>,
         data'[p] = data[p]
  PROVE  InStep'
<1>1. /\ phase = "leaky" /\ len \in Lens
      /\ HasObject(d, "r_ob") /\ HasObject(p, "r_ob") /\ HasObject(o, "nob")
      /\ Permutes(data[p])
  BY DEF ShuffleInv, InStep, Setup, PhaseOf, Registered
<1>2. Permutes(data[p])'
  BY <1>1 DEF Permutes
<1> QED
  BY <1>1, <1>2 DEF InStep, Labels, Setup, PhaseOf, Registered, HasObject

\* In the section the client sees arr_in and perm_in as they are.
LEMMA SeenInputs ==
  ASSUME ShuffleInv, pc = "loop"
  PROVE  /\ phase = "leaky" /\ len \in Nat /\ RInv
         /\ HasObject(d, "r_ob") /\ HasObject(p, "r_ob") /\ HasObject(o, "nob")
         /\ Seen.content[p] = data[p] /\ Saved.content[p] = data[p]
         /\ Permutes(Seen.content[p])
         /\ DOMAIN Seen.content[o] = 0 .. len - 1
         /\ DOMAIN Seen.content[d] = 0 .. len - 1
         /\ \A s \in Objects : data[s] \in [0 .. obj[s].len - 1 -> Value]
<1>1. /\ phase = "leaky" /\ RInv
      /\ HasObject(d, "r_ob") /\ HasObject(p, "r_ob") /\ HasObject(o, "nob")
      /\ Permutes(data[p]) /\ len \in Lens
  BY DEF ShuffleInv, InStep, Setup, PhaseOf, Registered
<1>2. Seen.content[p] = data[p] /\ Saved.content[p] = data[p]
  BY <1>1, ThreeObjects DEF Seen, Saved, LogicalContent, Logical, HasObject
<1>3. /\ DOMAIN Seen.content[o] = 0 .. len - 1
      /\ DOMAIN Seen.content[d] = 0 .. len - 1
  BY <1>1, ThreeObjects, SeenDomain DEF Seen, HasObject, RInv
<1>4. \A s \in Objects : data[s] \in [0 .. obj[s].len - 1 -> Value]
  BY <1>1 DEF RInv, IInv, TypeOK
<1> QED BY <1>1, <1>2, <1>3, <1>4, ClientAssumption

\* Opening the section keeps the invariant.
LEMMA BeginProgramStep == ShuffleInv /\ Begin => ShuffleInv'
<1> SUFFICES ASSUME ShuffleInv, Begin PROVE ShuffleInv'
  OBVIOUS
<1>1. /\ pc = "begin" /\ pc' = "loop" /\ i' = 0 /\ args' = args
      /\ begin_leaky_sec /\ UNCHANGED len /\ Transact
      /\ phase = "setup" /\ phase' = "leaky"
      /\ UNCHANGED <<objects, data, shadow_mem_pos>>
  BY DEF Begin, Call, begin_leaky_sec, ShuffleInv, InStep, Labels, Setup, PhaseOf
<1>2. /\ DOMAIN args = {} /\ len \in Lens
      /\ shadow_mem_pos[d] = 0 /\ shadow_mem_pos[p] = 0
      /\ HasObject(d, "r_ob") /\ HasObject(p, "r_ob") /\ HasObject(o, "nob")
      /\ Permutes(data[p])
  BY <1>1 DEF ShuffleInv, InStep, Setup, Registered
<1>3. RInv'
  BY <1>1, RuntimeStep DEF Next, ShuffleInv
<1>4. /\ Advanced(iter_pos)' = shadow_mem_pos
      /\ Saved' = Seen'
  BY <1>1, BeginView DEF ShuffleInv, RInv
<1>5. saved' = <<"loop", 0, args>>
  BY <1>1 DEF Transact, locals
<1>6. Tracks(Seen, i, args)'
  <2>1. Seen'.pos = shadow_mem_pos
    BY <1>4 DEF Seen
  <2>2. len \in Nat
    BY <1>2, ClientAssumption
  <2> QED BY <1>1, <1>2, <2>1, <2>2 DEF Tracks, Placed
<1>7. Tracks(Saved, saved[2], saved[3])'
  BY <1>1, <1>4, <1>5, <1>6 DEF Tracks, Placed
<1>8. InStep'
  <2>1. Permutes(data[p])'
    BY <1>1, <1>2 DEF Permutes
  <2> QED
    BY <1>1, <1>2, <2>1
    DEF InStep, Labels, Setup, PhaseOf, Registered, HasObject, objects
<1> QED BY <1>1, <1>3, <1>5, <1>6, <1>7, <1>8 DEF ShuffleInv

\* An argument is evaluated: it is the next element of its array.
LEMMA EvaluateStep ==
  ASSUME ShuffleInv, NEW s \in {d, p}, Evaluate(s)
  PROVE  ShuffleInv'
<1> DEFINE a == [x \in DOMAIN args \cup {s} |-> IF x = s THEN ret' ELSE args[x]]
           c == Seen.content
<1>1. /\ pc = "loop" /\ pc' = "loop" /\ i' = i /\ args' = a
      /\ ob_read_next(s) /\ UNCHANGED len /\ Transact
      /\ i < len /\ s \notin DOMAIN args
  BY DEF Evaluate, Call
<1>2. /\ phase = "leaky" /\ phase' = "leaky" /\ obj' = obj /\ RInv
      /\ HasObject(d, "r_ob") /\ HasObject(p, "r_ob") /\ HasObject(o, "nob")
      /\ s \in Objects /\ len \in Nat
  BY <1>1, SeenInputs, ThreeObjects DEF ob_read_next, objects
<1>3. /\ ret' = LogicalContent(shadow)[s][Advanced(iter_pos)[s]]
      /\ LogicalContent(shadow)' = LogicalContent(shadow)
      /\ Advanced(iter_pos)' = [Advanced(iter_pos) EXCEPT ![s] = @ + 1]
      /\ IF shadow_mem_pos' = shadow_mem_pos THEN Saved' = Saved ELSE Saved' = Seen'
  BY <1>1, <1>2, ReadView
<1>4. /\ Tracks(Seen, i, args)
      /\ saved[1] = "loop" /\ Tracks(Saved, saved[2], saved[3])
  BY <1>2 DEF ShuffleInv
<1>5. /\ ret' = c[s][i] /\ Seen'.content = c
      /\ Seen'.pos = [Seen.pos EXCEPT ![s] = @ + 1]
      /\ Seen.pos[s] = i
  <2>1. Seen.pos[s] = i
    BY <1>1, <1>4 DEF Tracks
  <2> QED BY <1>3, <2>1 DEF Seen
<1>6. Tracks(Seen, i, args)'
  <2>1. i \in 0 .. len /\ DOMAIN args \subseteq {d, p} /\ Placed(c, i)
        /\ \A x \in {d, p} :
             /\ Seen.pos[x] = i + (IF x \in DOMAIN args THEN 1 ELSE 0)
             /\ x \in DOMAIN args => args[x] = c[x][i]
    BY <1>4 DEF Tracks
  <2>2. DOMAIN a = DOMAIN args \cup {s} /\ a[s] = ret'
        /\ \A x \in DOMAIN args : x # s => a[x] = args[x]
    OBVIOUS
  <2>3. s \in DOMAIN Seen.pos /\ DOMAIN Seen.pos = Objects
    BY <1>2 DEF Seen, Advanced
  <2> HIDE DEF a, c
  <2>4. ASSUME NEW x \in {d, p}
        PROVE  /\ Seen'.pos[x] = i + (IF x \in DOMAIN a THEN 1 ELSE 0)
               /\ x \in DOMAIN a => a[x] = c[x][i]
    <3>1. x \in Objects
      BY ThreeObjects
    <3>2. CASE x = s
      BY <1>1, <1>5, <2>1, <2>2, <2>3, <3>2
    <3>3. CASE x # s
      BY <1>5, <2>1, <2>2, <2>3, <3>1, <3>3
    <3> QED BY <3>2, <3>3
  <2>5. DOMAIN a \subseteq {d, p} /\ (DOMAIN a # {} => i < len)
    BY <1>1, <2>1, <2>2
  <2> QED BY <1>1, <1>5, <2>1, <2>4, <2>5 DEF Tracks, Placed
<1>7. saved'[1] = "loop" /\ Tracks(Saved, saved[2], saved[3])'
  <2>1. CASE shadow_mem_pos' = shadow_mem_pos
    <3>1. saved' = saved /\ Saved' = Saved
      BY <1>2, <1>1, <1>3, <2>1 DEF Transact
    <3> QED BY <1>1, <1>4, <3>1 DEF Tracks, Placed
  <2>2. CASE shadow_mem_pos' # shadow_mem_pos
    <3>1. saved' = <<"loop", i', args'>> /\ Saved' = Seen'
      BY <1>1, <1>2, <1>3, <2>2 DEF Transact, locals
    <3> QED BY <1>6, <3>1 DEF Tracks, Placed
  <2> QED BY <2>1, <2>2
<1>8. RInv'
  BY <1>1, <1>2, RuntimeStep DEF Next
<1>9. data'[p] = data[p]
  <2>1. LogicalContent(shadow)[p] = data[p]
    BY <1>2, ThreeObjects DEF LogicalContent, Logical, HasObject
  <2>2. LogicalContent(shadow)'[p] = data'[p]
    BY <1>2, ThreeObjects DEF LogicalContent, Logical, HasObject
  <2> QED BY <1>3, <2>1, <2>2
<1>10. InStep'
  BY <1>1, <1>2, <1>9, InStepKept
<1> QED BY <1>1, <1>6, <1>7, <1>8, <1>10 DEF ShuffleInv

\* An element is written: it is where perm_in sends it, and since perm_in sends
\* no other element there, it stays.
LEMMA WriteOutStep == ShuffleInv /\ WriteOut => ShuffleInv'
<1> SUFFICES ASSUME ShuffleInv, WriteOut PROVE ShuffleInv'
  OBVIOUS
<1> DEFINE c == Seen.content
<1>1. /\ pc = "loop" /\ pc' = "loop" /\ i' = i + 1 /\ args' = NoArgs
      /\ nob_write_at(o, args[p], args[d]) /\ UNCHANGED len /\ Transact
      /\ DOMAIN args = {d, p}
  BY DEF WriteOut, Call
<1>2. /\ phase = "leaky" /\ phase' = "leaky" /\ obj' = obj /\ data' = data
      /\ UNCHANGED <<sections, objects, slots, shadow_mem_len, shadow_mem_pos,
                     iter_pos, chk, ret>>
      /\ RInv /\ len \in Nat
      /\ HasObject(d, "r_ob") /\ HasObject(p, "r_ob") /\ HasObject(o, "nob")
  BY <1>1, SeenInputs DEF nob_write_at, objects
<1>3. /\ Tracks(Seen, i, args)
      /\ saved[1] = "loop" /\ Tracks(Saved, saved[2], saved[3])
  BY <1>2 DEF ShuffleInv
<1>4. /\ i \in 0 .. len - 1
      /\ args[d] = c[d][i] /\ args[p] = c[p][i]
      /\ Seen.pos[d] = i + 1 /\ Seen.pos[p] = i + 1
      /\ Placed(c, i)
  BY <1>1, <1>2, <1>3 DEF Tracks
<1>5. args[d] \in Value
  <2>1. c[d] = data[d]
    BY <1>2, ThreeObjects DEF Seen, LogicalContent, Logical, HasObject
  <2>2. data[d] \in [0 .. len - 1 -> Value]
    BY <1>1, <1>2, ThreeObjects, SeenInputs DEF HasObject
  <2> QED BY <1>4, <2>1, <2>2
<1>6. /\ CopiesMatch'
      /\ LogicalContent(shadow)' = [LogicalContent(shadow) EXCEPT ![o][args[p]] = args[d]]
      /\ Advanced(iter_pos)' = Advanced(iter_pos)
      /\ Saved' = Saved
  BY <1>1, <1>2, <1>5, ThreeObjects, PutView
<1>7. /\ Seen'.content = [c EXCEPT ![o][args[p]] = args[d]]
      /\ Seen'.pos = Seen.pos
  BY <1>6 DEF Seen
<1>8. /\ Permutes(c[p]) /\ DOMAIN c[o] = 0 .. len - 1 /\ DOMAIN c = Objects
  BY <1>1, SeenInputs DEF Seen, LogicalContent
<1> HIDE DEF c
<1>9. Placed(Seen'.content, i + 1)
  <2> DEFINE c2 == Seen'.content
  <2>1. /\ c2[d] = c[d] /\ c2[p] = c[p]
        /\ c2[o] = [c[o] EXCEPT ![c[p][i]] = c[d][i]]
    BY <1>4, <1>7, <1>8, ThreeObjects DEF d, p, o
  <2> HIDE DEF c2
  <2>2. ASSUME NEW j \in 0 .. i
        PROVE  c2[o][c2[p][j]] = c2[d][j]
    <3>1. j \in 0 .. len - 1 /\ c[p][j] \in 0 .. len - 1 /\ c[p][i] \in 0 .. len - 1
      BY <1>2, <1>4, <1>8 DEF Permutes
    <3>2. CASE j = i
      BY <1>8, <2>1, <3>1, <3>2
    <3>3. CASE j # i
      <4>1. j \in 0 .. i - 1
        BY <1>4, <3>3
      <4>2. c[p][j] # c[p][i]
        BY <1>4, <1>8, <3>1, <3>3 DEF Permutes
      <4>3. c[o][c[p][j]] = c[d][j]
        BY <1>4, <4>1 DEF Placed
      <4> QED BY <1>8, <2>1, <3>1, <4>2, <4>3
    <3> QED BY <3>2, <3>3
  <2>3. i \in Nat
    BY <1>4
  <2> QED BY <2>2, <2>3 DEF Placed, c2
<1>10. Tracks(Seen, i, args)'
  <2>1. DOMAIN NoArgs = {}
    BY DEF NoArgs
  <2>2. i + 1 \in 0 .. len
    BY <1>2, <1>4
  <2>3. \A s \in {d, p} : Seen'.pos[s] = i + 1 + 0
    BY <1>4, <1>7, <2>2
  <2> QED BY <1>1, <1>9, <2>1, <2>2, <2>3 DEF Tracks, Placed
<1>11. saved'[1] = "loop" /\ Tracks(Saved, saved[2], saved[3])'
  <2>1. saved' = saved
    BY <1>1, <1>2 DEF Transact
  <2> QED BY <1>1, <1>3, <1>6, <2>1 DEF Tracks, Placed
<1>12. IInv'
  <2>1. shadow' \in [Addr -> Value] /\ ret' \in Value
    BY <1>1, <1>2, <1>5 DEF nob_write_at, RInv, IInv, TypeOK
  <2> QED BY <1>1, <1>2, <2>1, AccessStep DEF nob_write_at, RInv
<1>13. InStep'
  BY <1>1, <1>2, InStepKept
<1> QED BY <1>1, <1>6, <1>10, <1>11, <1>12, <1>13 DEF ShuffleInv, RInv

\* Closing the section keeps the invariant.
LEMMA EndProgramStep == ShuffleInv /\ End => ShuffleInv'
<1> SUFFICES ASSUME ShuffleInv, End PROVE ShuffleInv'
  OBVIOUS
<1>1. /\ pc = "loop" /\ pc' = "free" /\ i = len
      /\ EndSection("idle") /\ end_leaky_sec /\ UNCHANGED len
      /\ phase = "leaky" /\ phase' = "idle" /\ obj' = obj
  BY DEF End, Call, end_leaky_sec, EndSection
<1>2. /\ HasObject(d, "r_ob") /\ HasObject(p, "r_ob") /\ HasObject(o, "nob")
      /\ Seen.content[p] = data[p] /\ len \in Lens /\ Permutes(data[p])
  BY <1>1, SeenInputs DEF ShuffleInv, InStep, Setup
<1>3. data' = Seen.content
  BY <1>1, EndView DEF Seen
<1>4. Placed(Seen.content, len)
  BY <1>1 DEF ShuffleInv, Tracks
<1>5. RInv'
  BY <1>1, RuntimeStep DEF Next, ShuffleInv
<1>6. InStep'
  <2>1. Permutes(data[p])'
    BY <1>1, <1>2, <1>3 DEF Permutes
  <2> QED
    BY <1>1, <1>2, <2>1 DEF InStep, Labels, Setup, PhaseOf, Registered, HasObject
<1>7. Placed(data, len)'
  BY <1>1, <1>3, <1>4 DEF Placed
<1> QED BY <1>1, <1>5, <1>6, <1>7 DEF ShuffleInv

\* An abort takes the locals back to where it takes the runtime.
LEMMA AbortStep ==
  ASSUME ShuffleInv, phase = "leaky", RollBack,
         pc' = saved[1], i' = saved[2], args' = saved[3], UNCHANGED <<len, saved>>,
         RInv'
  PROVE  ShuffleInv'
<1>1. pc = "loop" /\ pc' = "loop" /\ UNCHANGED <<phase, obj, data>>
  BY DEF ShuffleInv, InStep, Labels, Setup, PhaseOf, RollBack, objects
<1>2. Seen' = Saved /\ Saved' = Saved
  BY RollBackView DEF ShuffleInv
<1>3. saved[1] = "loop" /\ Tracks(Saved, saved[2], saved[3])
  BY DEF ShuffleInv
<1>4. Tracks(Seen, i, args)' /\ Tracks(Saved, saved[2], saved[3])'
  BY <1>2, <1>3 DEF Tracks, Placed
<1>5. InStep'
  BY <1>1, InStepKept
<1> QED BY <1>1, <1>3, <1>4, <1>5 DEF ShuffleInv

-----------------------------------------------------------------------------
(* The theorems *)

\* The invariant holds before the program has done anything.
LEMMA ShuffleInitInv == ShuffleInit => ShuffleInv
<1> SUFFICES ASSUME ShuffleInit PROVE ShuffleInv
  OBVIOUS
<1>1. RInv
  BY InitIInv, InitAbstract DEF ShuffleInit, RInv
<1>2. /\ pc = "init_d" /\ i = 0 /\ DOMAIN args = {} /\ phase = "setup"
      /\ shadow_mem_pos[d] = 0 /\ shadow_mem_pos[p] = 0 /\ meta_pos = 0
  BY ThreeObjects DEF ShuffleInit, Init, NoArgs
<1>3. meta_pos \div PageInts = 0
  <2> DEFINE m == 0 * PageInts
  <2>1. (m + 0) \div PageInts = 0 /\ m = 0
    BY PagePos, QuotientUnique
  <2> HIDE DEF m
  <2> QED BY <1>2, <2>1
<1> QED
  BY <1>1, <1>2, <1>3 DEF ShuffleInv, InStep, Labels, Setup, PhaseOf, Registered

\* A call outside the section that leaves the objects and the arrays alone.
LEMMA OutsideStep ==
  ASSUME ShuffleInv, [Next]_vars, pc # "loop", pc' \in Labels, pc' \notin Setup,
         pc' # "loop", phase' = PhaseOf(pc'), UNCHANGED <<obj, data, len>>,
         pc # "init_d", pc # "init_p", pc # "init_o",
         pc' \in {"free", "done"} => pc \in {"free", "done"}
  PROVE  ShuffleInv'
<1>1. RInv'
  BY RuntimeStep DEF ShuffleInv
<1>2. /\ len \in Lens /\ pc \in Labels
      /\ HasObject(d, "r_ob") /\ HasObject(p, "r_ob") /\ HasObject(o, "nob")
      /\ Permutes(data[p])
  BY DEF ShuffleInv, InStep, Labels, Setup, Registered
<1>3. InStep'
  <2>1. Permutes(data[p])'
    BY <1>2 DEF Permutes
  <2> QED
    BY <1>2, <2>1 DEF InStep, Labels, Setup, PhaseOf, Registered, HasObject
<1>4. pc' \in {"free", "done"} => Placed(data, len)'
  BY DEF ShuffleInv, Placed
<1>5. phase' # "leaky"
  BY DEF PhaseOf, Labels, Setup
<1> QED BY <1>1, <1>3, <1>4, <1>5 DEF ShuffleInv

\* Every step of the program keeps the invariant.
LEMMA ShuffleNextInv == ShuffleInv /\ [ShuffleNext]_svars => ShuffleInv'
<1> SUFFICES ASSUME ShuffleInv, [ShuffleNext]_svars PROVE ShuffleInv'
  OBVIOUS
<1>1. CASE RegisterD \/ RegisterP \/ RegisterO
  BY <1>1, RegisterDStep, RegisterPStep, RegisterOStep
<1>2. CASE Begin
  BY <1>2, BeginProgramStep
<1>3. CASE BeginAborts
  <2>1. /\ pc = "begin" /\ pc' = "dead" /\ begin_leaky_sec_aborts
        /\ phase' = "aborted" /\ UNCHANGED <<obj, data, len>>
    BY <1>3 DEF BeginAborts, Call, begin_leaky_sec_aborts, objects
  <2> QED BY <2>1, OutsideStep DEF Next, Labels, Setup, PhaseOf
<1>4. ASSUME NEW s \in {d, p}, Evaluate(s)
      PROVE  ShuffleInv'
  BY <1>4, EvaluateStep
<1>5. ASSUME NEW s \in {d, p}, Faults(s)
      PROVE  ShuffleInv'
  <2>1. /\ ob_next_faults(s) /\ phase = "leaky" /\ RollBack /\ s \in Objects
        /\ pc' = saved[1] /\ i' = saved[2] /\ args' = saved[3]
        /\ UNCHANGED <<len, saved>>
    BY <1>5, ThreeObjects DEF Faults, ob_next_faults
  <2>2. RInv'
    BY <2>1, RuntimeStep DEF Next, ShuffleInv
  <2> QED BY <2>1, <2>2, AbortStep
<1>6. CASE WriteOut
  BY <1>6, WriteOutStep
<1>7. CASE End
  BY <1>7, EndProgramStep
<1>8. CASE Free
  <2>1. /\ pc = "free" /\ pc' = "done" /\ free_cmo_runtime
        /\ phase' = "freed" /\ UNCHANGED <<obj, data, len>>
    BY <1>8 DEF Free, Call, free_cmo_runtime, objects
  <2> QED BY <2>1, OutsideStep DEF Next, Labels, Setup, PhaseOf
<1>9. CASE Abort
  <2>1. /\ TxAbort /\ phase = "leaky" /\ RollBack
        /\ pc' = saved[1] /\ i' = saved[2] /\ args' = saved[3]
        /\ UNCHANGED <<len, saved>>
    BY <1>9 DEF Abort, TxAbort
  <2>2. RInv'
    BY <2>1, RuntimeStep DEF Next, ShuffleInv
  <2> QED BY <2>1, <2>2, AbortStep
<1>10. CASE UNCHANGED svars
  <2>1. UNCHANGED <<vars, pc, i, args, len, saved>> /\ UNCHANGED <<phase, obj, data,
          meta_pos, shadow_mem_pos, shadow_mem, shadow, chk, iter_pos, ret, alloc,
          shadow_mem_len>>
    BY <1>10 DEF svars, vars, locals, objects, slots, chunks
  <2>2. RInv'
    BY <2>1, RuntimeStep DEF ShuffleInv
  <2>3. InStep'
    BY <2>1 DEF ShuffleInv, InStep, HasObject, Permutes
  <2>4. Seen' = Seen /\ Saved' = Saved
    BY <2>1
    DEF Seen, Saved, LogicalContent, Logical, CopiedBack, Cell, Advanced, Iterators, OfKind
  <2> QED BY <2>1, <2>2, <2>3, <2>4 DEF ShuffleInv, Tracks, Placed
<1>11. CASE Done
  BY <1>10, <1>11 DEF Done
<1> QED
  BY <1>1, <1>2, <1>3, <1>4, <1>5, <1>6, <1>7, <1>8, <1>9, <1>10, <1>11
  DEF ShuffleNext, Program

\* The program and its runtime stay in step.
LEMMA ShuffleInvariance == ShuffleSpec => []ShuffleInv
  BY ShuffleInitInv, ShuffleNextInv, PTL DEF ShuffleSpec

\* naive_shuffle puts every element where perm_in sends it, for every cache,
\* length and permutation, whichever argument of nob_write_at is evaluated first
\* and wherever the transactions abort.
THEOREM ShuffleShuffles == ShuffleSpec => []Shuffled
<1>1. ShuffleInv => Shuffled
  BY DEF ShuffleInv, Shuffled, Placed
<1> QED BY <1>1, ShuffleInvariance, PTL

\* An abort takes the loop back to the elements the transaction started with: no
\* iterator runs ahead of the loop variable, none falls behind.
THEOREM ShuffleRetries == ShuffleSpec => []LocalsMatch
<1>1. ShuffleInv => LocalsMatch
  BY DEF ShuffleInv, LocalsMatch, Tracks, Seen
<1> QED BY <1>1, ShuffleInvariance, PTL

=============================================================================
