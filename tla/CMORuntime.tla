----------------------------- MODULE CMORuntime -----------------------------
(***************************************************************************)
(* The runtime of src/lib/cmo.cpp.  A client registers objects, iterators  *)
(* that stream over an array and arrays with random access, and opens a    *)
(* leaky section.  Inside the section every access goes to a copy in the   *)
(* shadow memory and runs in a hardware transaction: iterators keep one    *)
(* chunk of their array in the shadow memory, and the call that uses up a  *)
(* chunk commits the transaction, moves the chunks of ALL iterators and    *)
(* starts a transaction again.  The hardware may abort a transaction at    *)
(* any moment; the abort handler starts it again from its first            *)
(* instruction, in the state the processor saved there.                    *)
(*                                                                         *)
(* The code is sequential: an action is a call of the client, or an abort. *)
(***************************************************************************)
EXTENDS ShadowLayout, FiniteSets

CONSTANTS
  MaxObjects,    \* bound: objects a client registers with one runtime
  Kinds,         \* the kinds of object the client uses
  Lens,          \* the lengths of its arrays
  Value,         \* what an int of an array may be
  Zero,          \* what init_cmo_runtime writes into the shadow memory
  Written,       \* the values the client writes
  Contents(_, _),\* Contents(s, n): the n ints the s-th array may start with
  MaxSections    \* bound: leaky sections of one run

AllKinds == {"r_ob", "w_ob", "nob", "r_nob"}

\* An object struct sits at the start of a page, before the page of the ALLOC
\* record: a client with more objects would have them overlap (the callers in
\* src/algo register at most five).
ASSUME ClientAssumption ==
  /\ MaxObjects \in Nat \ {0} /\ MaxObjects <= AllocPage
  /\ MaxObjects <= ActiveSetSize
  /\ Kinds \subseteq AllKinds
  /\ Lens \subseteq Nat
  /\ Zero \in Value
  /\ Written \subseteq Value
  /\ MaxSections \in Nat

ASSUME ContentsAssumption ==
  \A s \in 0 .. MaxObjects - 1 : \A n \in Lens :
    Contents(s, n) \subseteq [0 .. n - 1 -> Value]

Objects == 0 .. MaxObjects - 1  \* an object is the page its struct is in

VARIABLES
  phase,           \* where the client is in the life of the runtime
  sections,        \* leaky sections begun so far
  meta_pos,        \* rt->meta_pos: where the next object struct goes
  cur_ob, cur_ob_rw, cur_nob,  \* rt->cur_*: where the next slot starts
  vec,             \* vec[k]: size of the vector of kind k, sum of its lens
  obj,             \* obj[s]: kind, len, index in its vector, and the len of
                   \*   the objects before it in that vector
  data,            \* data[s]: the array the client registered with object s
  shadow_mem,      \* the slot of an object: its first offset in the region
  shadow_mem_len,  \* the ints of an iterator's chunk
  shadow_mem_pos,  \* where the chunk starts in the array
  iter_pos,        \* the ints of the chunk used
  alloc,           \* the ALLOC record
  shadow,          \* g_shadow_mem
  chk,             \* what the processor restores on an abort
  ret              \* what the last call returned

objects == <<meta_pos, vec, obj>>
slots   == <<cur_ob, cur_ob_rw, cur_nob, shadow_mem, alloc>>
chunks  == <<shadow_mem_len, shadow_mem_pos, iter_pos, shadow, chk>>
vars    == <<phase, sections, objects, data, slots, chunks, ret>>

\* Outside a transaction the processor holds no state.
NoCheckpoint == [shadow |-> [a \in Addr |-> Zero],
                 iter_pos |-> [s \in Objects |-> 0], ret |-> Zero]

Phases == {"setup", "idle", "leaky", "freed", "aborted", "trapped"}

Min2(a, b) == IF a < b THEN a ELSE b

OfKind(k) == {s \in Objects : obj[s].kind = k}
Iterators == OfKind("r_ob") \cup OfKind("w_ob")

-----------------------------------------------------------------------------
(* Shadow addresses *)

\* The index of g_shadow_mem that holds offset i of the slot of object s.
Cell(s, i) ==
  LET offset == shadow_mem[s] + i
  IN  CASE obj[s].kind = "r_ob"  -> cal_ob(offset, alloc)
        [] obj[s].kind = "w_ob"  -> cal_ob_rw(offset, alloc)
        [] obj[s].kind = "nob"   -> cal_nob(offset, alloc)
        [] obj[s].kind = "r_nob" -> cal_read_nob(offset, alloc)

\* The sets of the region an iterator has its slot in, and the slot's ints.
StreamSets(s) == IF obj[s].kind = "r_ob" THEN alloc.ob_r ELSE alloc.ob_w
Slot(s)       == SlotSize(StreamSets(s), vec[obj[s].kind].size)

\* Shadow memory sh after a loop that stores the <<index, value>> pairs of
\* stores.  The pairs have distinct indices (NoAlias), so their order does not
\* matter.
Store(sh, stores) ==
  [a \in Addr |->
     IF \E p \in stores : p[1] = a
     THEN (CHOOSE p \in stores : p[1] = a)[2]
     ELSE sh[a]]

-----------------------------------------------------------------------------
(* Transactions *)

\* begin_tx in the state the conjuncts before it leave, sh being the shadow
\* memory: every iterator gets its next chunk, then the transaction starts and
\* the processor saves the state.
begin_tx(sh) ==
  /\ shadow_mem_len' =
       [s \in Objects |->
          IF s \in Iterators
          THEN Min2(Slot(s)', obj[s].len - shadow_mem_pos'[s]) ELSE 0]
  /\ iter_pos' = [s \in Objects |-> 0]
  /\ shadow' = Store(sh, UNION {
       {<<Cell(s, i)', data'[s][shadow_mem_pos'[s] + i]>>
          : i \in 0 .. shadow_mem_len'[s] - 1} : s \in Iterators})
  /\ chk' = [shadow |-> shadow', iter_pos |-> iter_pos', ret |-> ret']

\* Fault to seed: the copy-back forgets where the chunk starts.
CopiedBackToFront(sh, s) ==
  [i \in 0 .. obj[s].len - 1 |->
     IF i \in 0 .. shadow_mem_len[s] - 1 THEN sh[Cell(s, i)] ELSE data[s][i]]

\* What end_tx leaves in the arrays of the writers, and in shadow_mem_pos, when
\* the transaction ends with shadow memory sh and iter_pos it.
CopiedBack(sh, s) ==
  [i \in 0 .. obj[s].len - 1 |->
     IF i - shadow_mem_pos[s] \in 0 .. shadow_mem_len[s] - 1
     THEN sh[Cell(s, i - shadow_mem_pos[s])] ELSE data[s][i]]

\* Fault to seed: the array advances by the slot, not by the ints used.
AdvancedBySlot(it) ==
  [s \in Objects |->
     IF s \in Iterators THEN shadow_mem_pos[s] + Slot(s) ELSE shadow_mem_pos[s]]

Advanced(it) ==
  [s \in Objects |->
     IF s \in Iterators THEN shadow_mem_pos[s] + it[s] ELSE shadow_mem_pos[s]]

end_tx(sh, it) ==
  /\ data' = [s \in Objects |->
                IF s \in OfKind("w_ob") THEN CopiedBack(sh, s) ELSE data[s]]
  /\ shadow_mem_pos' = Advanced(it)

\* Fault to seed: iter_pos outside the memory an abort takes back.
RollBackMemoryOnly ==
  /\ shadow' = chk.shadow
  /\ iter_pos' = iter_pos
  /\ ret' = chk.ret
  /\ UNCHANGED <<phase, sections, objects, data, slots, chk,
                 shadow_mem_len, shadow_mem_pos>>

\* The hardware gives up the transaction: memory and registers are those of
\* its first instruction, and the handler (cmo_tx_abort prints) starts it again.
RollBack ==
  /\ shadow' = chk.shadow
  /\ iter_pos' = chk.iter_pos
  /\ ret' = chk.ret
  /\ UNCHANGED <<phase, sections, objects, data, slots, chk,
                 shadow_mem_len, shadow_mem_pos>>

-----------------------------------------------------------------------------
(* Registering objects: the init_ functions before the first section *)

Register(k, n) ==
  LET s == meta_pos \div PageInts
  IN  /\ phase = "setup"
      /\ k \in Kinds
      /\ s < MaxObjects
      /\ obj' = [obj EXCEPT ![s] = [kind |-> k, len |-> n,
                                    idx |-> vec[k].size, before |-> vec[k].total]]
      /\ vec' = [vec EXCEPT ![k] = [size |-> @.size + 1, total |-> @.total + n]]
      /\ \E d \in Contents(s, n) : data' = [data EXCEPT ![s] = d]
      /\ meta_pos' = meta_pos + PageInts
      /\ UNCHANGED <<phase, sections, slots, shadow, chk, ret>>

init_ob_iterator(k, n) ==
  LET s == meta_pos \div PageInts
  IN  /\ Register(k, n)
      /\ shadow_mem_len' = [shadow_mem_len EXCEPT ![s] = 0]
      /\ shadow_mem_pos' = [shadow_mem_pos EXCEPT ![s] = 0]
      /\ iter_pos' = [iter_pos EXCEPT ![s] = 0]

init_read_ob_iterator(n)  == init_ob_iterator("r_ob", n)
init_write_ob_iterator(n) == init_ob_iterator("w_ob", n)

init_nob_array(n) ==
  Register("nob", n) /\ UNCHANGED <<shadow_mem_len, shadow_mem_pos, iter_pos>>

init_read_nob_array(n) ==
  Register("r_nob", n) /\ UNCHANGED <<shadow_mem_len, shadow_mem_pos, iter_pos>>

-----------------------------------------------------------------------------
(* Leaky sections *)

Streaming == vec["r_ob"].total # 0 \/ vec["w_ob"].total # 0

\* The slots of all objects of kind k together.
SlotsOf(k, sets) ==
  IF vec[k].size = 0 THEN 0 ELSE vec[k].size * SlotSize(sets, vec[k].size)

SectionFits ==
  /\ NobFits(vec["nob"].total)
  /\ ReadNobFits(vec["nob"].total, vec["r_nob"].total)

\* Where begin_leaky_sec puts the objects, the ALLOC record being al.
PlaceObjects(al) ==
  /\ alloc' = al
  /\ shadow_mem' =
       [s \in Objects |->
          CASE obj[s].kind = "nob" -> cur_nob + obj[s].before
            [] obj[s].kind = "r_nob" -> cur_nob + vec["nob"].total + obj[s].before
            [] obj[s].kind = "r_ob" /\ Streaming ->
                 cur_ob + obj[s].idx * SlotSize(al.ob_r, vec["r_ob"].size)
            [] obj[s].kind = "w_ob" ->
                 cur_ob_rw + obj[s].idx * SlotSize(al.ob_w, vec["w_ob"].size)
            [] OTHER -> shadow_mem[s]]
  /\ cur_nob' = cur_nob + vec["nob"].total + vec["r_nob"].total
  /\ cur_ob' = IF Streaming THEN cur_ob + SlotsOf("r_ob", al.ob_r) ELSE cur_ob
  /\ cur_ob_rw' = cur_ob_rw + SlotsOf("w_ob", al.ob_w)

begin_leaky_sec ==
  /\ phase \in {"setup", "idle"}
  /\ sections < MaxSections
  /\ SectionFits
  /\ phase' = "leaky"
  /\ sections' = sections + 1
  /\ UNCHANGED <<objects, data, shadow_mem_pos, ret>>
  /\ PlaceObjects(Divide(vec["nob"].total, vec["r_nob"].total,
                         vec["r_ob"].total, vec["w_ob"].total, alloc))
  /\ begin_tx(Store(shadow, UNION {
       {<<Cell(s, i)', data[s][i]>> : i \in 0 .. obj[s].len - 1}
          : s \in OfKind("nob") \cup OfKind("r_nob")}))

\* The arrays need more sets than there are: abort_message ends the process.
begin_leaky_sec_aborts ==
  /\ phase \in {"setup", "idle"}
  /\ ~SectionFits
  /\ phase' = "aborted"
  /\ UNCHANGED <<sections, objects, data, slots, chunks, ret>>

\* Fault to seed: the end of a section forgets the arrays.
FinalDataOfIterators(s) ==
  IF obj[s].kind = "w_ob" THEN CopiedBack(shadow, s) ELSE data[s]

\* What the end of a section leaves in the client's array s.
FinalData(s) ==
  CASE obj[s].kind = "w_ob" -> CopiedBack(shadow, s)
    [] obj[s].kind = "nob"  -> [i \in 0 .. obj[s].len - 1 |-> shadow[Cell(s, i)]]
    [] OTHER                -> data[s]

\* Fault to seed: one cursor is not reset.
ResetCursorsButOne ==
  meta_pos' = 0 /\ cur_ob' = 0 /\ cur_ob_rw' = cur_ob_rw /\ cur_nob' = 0

ResetCursors == meta_pos' = 0 /\ cur_ob' = 0 /\ cur_ob_rw' = 0 /\ cur_nob' = 0

\* end_leaky_sec with the client in phase p afterwards.
EndSection(p) ==
  /\ phase = "leaky"
  /\ phase' = p
  /\ data' = [s \in Objects |-> FinalData(s)]
  /\ shadow_mem_pos' = Advanced(iter_pos)
  /\ shadow_mem_len' = [s \in Objects |-> 0]
  /\ ResetCursors
  /\ chk' = NoCheckpoint
  /\ UNCHANGED <<sections, vec, obj, shadow_mem, alloc, iter_pos, shadow, ret>>

end_leaky_sec == EndSection("idle")

\* cmo_abort ends the section and the process.  Outside a section its xend is
\* a fault.
cmo_abort ==
  \/ EndSection("aborted")
  \/ /\ phase \in {"setup", "idle"}
     /\ phase' = "trapped"
     /\ UNCHANGED <<sections, objects, data, slots, chunks, ret>>

-----------------------------------------------------------------------------
(* Accesses in a section *)

\* The client asks for no more than its array holds.
Unfinished(s) == shadow_mem_pos[s] + iter_pos[s] < obj[s].len

\* Fault to seed: the test comes one access late.
ChunkUsedBefore(s, it) ==
  /\ it[s] > shadow_mem_len[s]
  /\ shadow_mem_pos[s] + shadow_mem_len[s] < obj[s].len

\* The access that made iter_pos it took the last int of the chunk of s, but
\* not of its array.
ChunkUsed(s, it) ==
  /\ it[s] = shadow_mem_len[s]
  /\ shadow_mem_pos[s] + shadow_mem_len[s] < obj[s].len

\* The rest of ob_read_next and ob_write_next, with shadow memory sh: the call
\* that uses the last int of a chunk, but not of the array, moves all chunks.
Step(s, sh) ==
  LET it == [iter_pos EXCEPT ![s] = @ + 1]
  IN  IF ChunkUsed(s, it)
      THEN end_tx(sh, it) /\ begin_tx(sh)
      ELSE /\ iter_pos' = it
           /\ shadow' = sh
           /\ UNCHANGED <<data, shadow_mem_len, shadow_mem_pos, chk>>

ob_read_next(s) ==
  /\ phase = "leaky"
  /\ s \in OfKind("r_ob") /\ Unfinished(s)
  /\ alloc.ob_r # 0
  /\ ret' = shadow[Cell(s, iter_pos[s])]
  /\ UNCHANGED <<phase, sections, objects, slots>>
  /\ Step(s, shadow)

ob_write_next(s, v) ==
  /\ phase = "leaky"
  /\ s \in OfKind("w_ob") /\ Unfinished(s)
  /\ alloc.ob_w # 0
  /\ UNCHANGED <<phase, sections, objects, slots, ret>>
  /\ Step(s, [shadow EXCEPT ![Cell(s, iter_pos[s])] = v])

\* An iterator whose region has no sets divides by zero.  In a transaction the
\* exception is an abort like any other: the code retries, and faults again.
ob_next_faults(s) ==
  /\ phase = "leaky"
  /\ s \in Iterators /\ Unfinished(s)
  /\ StreamSets(s) = 0
  /\ RollBack

nob_read_at(s, i) ==
  /\ phase = "leaky"
  /\ s \in OfKind("nob") \cup OfKind("r_nob")
  /\ i \in 0 .. obj[s].len - 1
  /\ ret' = shadow[Cell(s, i)]
  /\ UNCHANGED <<phase, sections, objects, data, slots, chunks>>

nob_write_at(s, i, v) ==
  /\ phase = "leaky"
  /\ s \in OfKind("nob")
  /\ i \in 0 .. obj[s].len - 1
  /\ shadow' = [shadow EXCEPT ![Cell(s, i)] = v]
  /\ UNCHANGED <<phase, sections, objects, data, slots, shadow_mem_len,
                 shadow_mem_pos, iter_pos, chk, ret>>

TxAbort == phase = "leaky" /\ RollBack

-----------------------------------------------------------------------------
(* Between sections; after the last section there is nothing left to show *)

Between == phase = "idle" /\ sections < MaxSections

\* The client stores into its own array (write_leaky).
write_leaky(s, i, v) ==
  /\ Between
  /\ i \in 0 .. obj[s].len - 1
  /\ data' = [data EXCEPT ![s][i] = v]
  /\ UNCHANGED <<phase, sections, objects, slots, chunks, ret>>

reset_ob(s) ==
  /\ Between
  /\ s \in Iterators
  /\ shadow_mem_pos' = [shadow_mem_pos EXCEPT ![s] = 0]
  /\ UNCHANGED <<phase, sections, objects, data, slots, shadow_mem_len,
                 iter_pos, shadow, chk, ret>>

free_cmo_runtime ==
  /\ phase \in {"setup", "idle"}
  /\ phase' = "freed"
  /\ shadow_mem' = [s \in Objects |->
                      IF obj[s].kind \in AllKinds THEN -1 ELSE shadow_mem[s]]
  /\ UNCHANGED <<sections, objects, data, cur_ob, cur_ob_rw, cur_nob, alloc,
                 chunks, ret>>

\* The process is over, or has no runtime.
Stopped ==
  /\ \/ phase \in {"freed", "aborted", "trapped"}
     \/ phase = "idle" /\ sections = MaxSections
  /\ UNCHANGED vars

-----------------------------------------------------------------------------
NoObject == [kind |-> "none", len |-> 0, idx |-> 0, before |-> 0]

Init ==
  /\ phase = "setup"
  /\ sections = 0
  /\ meta_pos = 0 /\ cur_ob = 0 /\ cur_ob_rw = 0 /\ cur_nob = 0
  /\ vec = [k \in AllKinds |-> [size |-> 0, total |-> 0]]
  /\ obj = [s \in Objects |-> NoObject]
  /\ data = [s \in Objects |-> [i \in {} |-> Zero]]
  /\ shadow_mem = [s \in Objects |-> 0]
  /\ shadow_mem_len = [s \in Objects |-> 0]
  /\ shadow_mem_pos = [s \in Objects |-> 0]
  /\ iter_pos = [s \in Objects |-> 0]
  /\ alloc = [meta |-> 0, ob_r |-> 0, ob_w |-> 0, nob_r |-> 0, nob_w |-> 0]
  /\ shadow = [a \in Addr |-> Zero]
  /\ ret = Zero
  /\ chk = NoCheckpoint

Next ==
  \/ \E n \in Lens : \/ init_read_ob_iterator(n) \/ init_write_ob_iterator(n)
                     \/ init_nob_array(n) \/ init_read_nob_array(n)
  \/ begin_leaky_sec \/ begin_leaky_sec_aborts
  \/ end_leaky_sec \/ cmo_abort \/ TxAbort \/ free_cmo_runtime
  \/ \E s \in Objects :
       \/ ob_read_next(s) \/ ob_next_faults(s) \/ reset_ob(s)
       \/ \E v \in Written : ob_write_next(s, v)
       \/ \E i \in 0 .. obj[s].len - 1 :
            \/ nob_read_at(s, i)
            \/ \E v \in Written : nob_write_at(s, i, v) \/ write_leaky(s, i, v)
  \/ Stopped

Spec == Init /\ [][Next]_vars

-----------------------------------------------------------------------------
(* Properties *)

\* The variables have the types the code gives them; a slot is -1 once the
\* runtime is freed.
TypeOK ==
  /\ phase \in Phases
  /\ sections \in Nat
  /\ meta_pos \in Nat /\ cur_ob \in Nat /\ cur_ob_rw \in Nat /\ cur_nob \in Nat
  /\ vec \in [AllKinds -> [size : Nat, total : Nat]]
  /\ obj \in [Objects -> [kind : AllKinds \cup {"none"}, len : Nat,
                          idx : Nat, before : Nat]]
  /\ data = [x \in Objects |-> data[x]]
  /\ \A s \in Objects : data[s] \in [0 .. obj[s].len - 1 -> Value]
  /\ shadow_mem \in [Objects -> Nat \cup {-1}]
  /\ shadow_mem_len \in [Objects -> Nat]
  /\ shadow_mem_pos \in [Objects -> Nat]
  /\ iter_pos \in [Objects -> Nat]
  /\ alloc \in Alloc
  /\ shadow \in [Addr -> Value]
  /\ ret \in Value
  /\ chk \in [shadow : [Addr -> Value], iter_pos : [Objects -> Nat], ret : Value]

\* The offsets of object s that the shadow memory holds: the chunk of an
\* iterator, the whole of an array.
Live(s) ==
  IF s \in Iterators THEN 0 .. shadow_mem_len[s] - 1 ELSE 0 .. obj[s].len - 1

\* The line the struct of an object, or the ALLOC record, is in: set 0 of its
\* page.
Metadata == {a \in Addr : SetOf(a) = 0 /\ PageOf(a) \in 0 .. AllocPage}

\* In a section every int the shadow memory holds for an object is at an index
\* of its own, inside g_shadow_mem and outside the lines of the object structs
\* and of the ALLOC record: no access of the client can reach another object's
\* data (the cal_ functions and the division of sets in begin_leaky_sec).
NoAlias ==
  phase = "leaky" =>
    \A s \in Objects : \A i \in Live(s) :
      /\ Cell(s, i) \in Addr \ Metadata
      /\ \A t \in Objects : \A j \in Live(t) :
           Cell(s, i) = Cell(t, j) => s = t /\ i = j

\* In a section the lines a transaction can touch, those of the read-only
\* arrays apart, fill no L1 set beyond its ways: otherwise the transaction would
\* be evicted, and abort, each time it is tried.
L1Resident ==
  phase = "leaky" =>
    LET cells == UNION {{Cell(s, i) : i \in Live(s)}
                          : s \in {t \in Objects : obj[t].kind # "r_nob"}}
    IN  \A set \in 0 .. L1Sets - 1 :
          Cardinality({PageOf(a) : a \in {b \in cells \cup Metadata : SetOf(b) = set}})
            <= L1Ways

\* In a section the next access of an iterator that has some of its array left
\* falls inside its chunk, whichever iterator moved the chunks last, and the
\* chunk inside the array; only an iterator without sets has no chunk.
ChunkReady ==
  phase = "leaky" =>
    \A s \in Iterators :
      /\ shadow_mem_pos[s] + shadow_mem_len[s] <= obj[s].len
      /\ iter_pos[s] <= shadow_mem_len[s]
      /\ Unfinished(s) /\ StreamSets(s) # 0 => iter_pos[s] < shadow_mem_len[s]

\* Once a transaction is committed, what it wrote through an iterator stays:
\* a later commit of the section, which copies a whole chunk back, leaves the
\* array as it is in front of the chunk, and an array only changes in a section
\* when the chunks move or the section ends.
CommittedStable ==
  [][phase = "leaky" =>
       /\ \A s \in OfKind("w_ob") : \A i \in 0 .. shadow_mem_pos[s] - 1 :
            data'[s][i] = data[s][i]
       /\ data' # data =>
            \/ phase' # "leaky"
            \/ \E s \in Iterators : shadow_mem_pos'[s] > shadow_mem_pos[s]]_vars

-----------------------------------------------------------------------------
(* Why TypeOK, NoAlias and ChunkReady hold: an inductive invariant *)

SameKind(s, t) == obj[s].kind = obj[t].kind /\ obj[s].kind # "none"

\* The vectors of the runtime number their objects and lay them end to end.
VectorsOK ==
  /\ \A k \in AllKinds : vec[k].size <= MaxObjects
  /\ phase = "setup" =>
       \E n \in 0 .. MaxObjects :
         /\ meta_pos = n * PageInts
         /\ \A k \in AllKinds : vec[k].size <= n
         /\ \A s \in Objects : s >= n => obj[s].kind = "none"
  /\ \A s \in Objects :
       IF obj[s].kind = "none" THEN obj[s].len = 0
       ELSE /\ obj[s].idx < vec[obj[s].kind].size
            /\ obj[s].before + obj[s].len <= vec[obj[s].kind].total
  /\ \A s, t \in Objects : s # t /\ SameKind(s, t) =>
       /\ obj[s].idx # obj[t].idx
       /\ \/ obj[s].before + obj[s].len <= obj[t].before
          \/ obj[t].before + obj[t].len <= obj[s].before

\* Every section starts to lay out its slots at 0.
CursorsOK == phase # "leaky" => cur_ob = 0 /\ cur_ob_rw = 0 /\ cur_nob = 0

\* The slots of a section are where the vectors say, in a partition of the sets.
SlotsOK ==
  /\ ~Streaming => alloc.ob_r = 0 /\ alloc.ob_w = 0
  /\ phase = "leaky" =>
       /\ SectionFits
       /\ Partition(alloc)
       /\ alloc.nob_w = NobSets(vec["nob"].total)
       /\ alloc.nob_r = ReadNobSets(vec["r_nob"].total)
       /\ \A s \in OfKind("nob") : shadow_mem[s] = obj[s].before
       /\ \A s \in OfKind("r_nob") :
            shadow_mem[s] = vec["nob"].total + obj[s].before
       /\ \A s \in Iterators : Streaming => shadow_mem[s] = obj[s].idx * Slot(s)

\* A chunk is as long as the slot and the rest of the array allow, a transaction
\* starts at the front of the chunks, and a chunk is used up only at the end of
\* the array.
ChunksOK ==
  /\ \A s \in Objects : shadow_mem_pos[s] <= obj[s].len
  /\ phase = "leaky" =>
       /\ chk.iter_pos = [s \in Objects |-> 0]
       /\ \A s \in Iterators :
            /\ shadow_mem_len[s] = Min2(Slot(s), obj[s].len - shadow_mem_pos[s])
            /\ iter_pos[s] <= shadow_mem_len[s]
            /\ iter_pos[s] = shadow_mem_len[s] /\ iter_pos[s] # 0 =>
                 shadow_mem_pos[s] + iter_pos[s] = obj[s].len

IInv == TypeOK /\ VectorsOK /\ CursorsOK /\ SlotsOK /\ ChunksOK

-----------------------------------------------------------------------------
(* What else the refinement below needs *)

\* Shadow memory sh holds the client's ints of what a section only reads.
Copies(sh) ==
  /\ \A s \in OfKind("r_ob") : \A i \in Live(s) :
       sh[Cell(s, i)] = data[s][shadow_mem_pos[s] + i]
  /\ \A s \in OfKind("r_nob") : \A i \in Live(s) : sh[Cell(s, i)] = data[s][i]

\* The copies of a reader's chunk and of a read-only array are never stale and
\* never written over, by any sequence of accesses, chunk moves and aborts; nor
\* are those in the state an abort goes back to.
CopiesMatch == phase = "leaky" => Copies(shadow) /\ Copies(chk.shadow)

-----------------------------------------------------------------------------
(* The runtime implements ObliviousArrays *)

\* The array of object s as the client sees it when the shadow memory is sh.
Logical(sh, s) ==
  CASE obj[s].kind = "w_ob" -> CopiedBack(sh, s)
    [] obj[s].kind = "nob"  -> [i \in 0 .. obj[s].len - 1 |-> sh[Cell(s, i)]]
    [] OTHER                -> data[s]

LogicalContent(sh) == [s \in Objects |-> Logical(sh, s)]

\* The mapping: in a section the content is the chunk laid over the array, and
\* the state to fall back to is the one the processor saved.
Abstract ==
  INSTANCE ObliviousArrays WITH
    status  <- CASE phase = "leaky" -> "open"
                 [] phase \in {"setup", "idle"} -> "closed"
                 [] OTHER -> "over",
    kind    <- [s \in Objects |-> obj[s].kind],
    content <- IF phase = "leaky" THEN LogicalContent(shadow) ELSE data,
    pos     <- IF phase = "leaky" THEN Advanced(iter_pos) ELSE shadow_mem_pos,
    saved   <- IF phase = "leaky"
               THEN [content |-> LogicalContent(chk.shadow),
                     pos |-> Advanced(chk.iter_pos), ret |-> chk.ret]
               ELSE <<>>

\* Every run of the runtime is one of ObliviousArrays: whatever the lengths,
\* the interleaving of the iterators, the chunk moves and the aborts, reads
\* return the elements in order, each once, writes land in order, each once,
\* an abort undoes all of a transaction or nothing, and the end of a section
\* leaves in the client's arrays what the calls of the section made of them.
ImplementsObliviousArrays == Abstract!Spec

=============================================================================
