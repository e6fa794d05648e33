----------------------------- MODULE PAORuntime -----------------------------
(***************************************************************************)
(* The runtime of pao.cpp: arrays that are copied whole into the shadow    *)
(* memory, read and written there by index in a transaction, and copied    *)
(* back after it.  A runtime is a record; arrays are named by their place   *)
(* in the order of registration.  Addresses count ints.                     *)
(***************************************************************************)
EXTENDS Integers, Sequences, SequencesExt, FiniteSetsExt

CONSTANTS
  META_SIZE,   \* ints before the copies, for the arrays' structs
  OB_SIZE,     \* ints for the copies of one kind
  ObjectInts,  \* meta_pos advances by so much for an array
  ShadowInts   \* of g_shadow_mem

ASSUME PAOAssumption ==
  /\ META_SIZE \in Nat /\ OB_SIZE \in Nat /\ ObjectInts \in Nat \ {0} /\ ShadowInts \in Nat

Struct == "struct"

(* Fault to seed: the read-only copies have no region of their own.         *)
cal_array_ro_at_rw(offset) == offset + META_SIZE

cal_array_ro(offset) == offset + META_SIZE + OB_SIZE + OB_SIZE

cal_array_rw(offset) == offset + META_SIZE

Address(rw, offset) == IF rw THEN cal_array_rw(offset) ELSE cal_array_ro(offset)

(* new PAO_t leaves the cursors what the memory holds: zeros, or those of a   *)
(* runtime that was freed there, n sections after such memory was fresh.      *)
init_pao_runtime(n) ==
  [mem          |-> [x \in 0 .. ShadowInts - 1 |-> 0],
   meta_pos     |-> 3 * ObjectInts * n,
   cur_array_ro |-> 2 * (OB_SIZE \div 2) * n,
   cur_array_rw |-> OB_SIZE * n,
   arrays       |-> << >>]

init_array(rt, rw, data) ==
  [rt EXCEPT !.mem = [x \in DOMAIN @ |->
                        IF x \in rt.meta_pos .. rt.meta_pos + ObjectInts - 1 THEN Struct ELSE @[x]],
             !.meta_pos = @ + ObjectInts,
             !.arrays = Append(@, [rw |-> rw, data |-> data, len |-> Len(data), at |-> rt.meta_pos,
                                   shadow_mem |-> 0, shadow_mem_len |-> 0, shadow_mem_pos |-> 0,
                                   iter_pos |-> 0])]

OfKind(rt, rw) == SelectSeq(rt.arrays, LAMBDA ob : ob.rw = rw)

(* The ints an array has before the next one of its kind.                    *)
Share(rt, rw) == OB_SIZE \div Len(OfKind(rt, rw))

max_shadow_mem_size(ob) ==
  LET cap  == IF ob.rw THEN OB_SIZE ELSE OB_SIZE \div 2
      left == ob.len - ob.shadow_mem_pos
  IN IF cap < left THEN cap ELSE left

CopyOf(ob) == [k \in 0 .. ob.shadow_mem_len - 1 |-> Address(ob.rw, ob.shadow_mem + k)]

(* Copies the arrays in, in the order of registration within each kind.      *)
begin_tx(rt) ==
  LET arrays == [j \in DOMAIN rt.arrays |->
                   [rt.arrays[j] EXCEPT !.shadow_mem_len = max_shadow_mem_size(rt.arrays[j]),
                                        !.iter_pos = 0]]
      CopyIn(mem, ob) ==
        LET copy == CopyOf(ob)
        IN [x \in DOMAIN mem |->
              IF \E k \in DOMAIN copy : copy[k] = x
              THEN ob.data[ob.shadow_mem_pos + (x - copy[0]) + 1] ELSE mem[x]]
      filled == [rt EXCEPT !.arrays = arrays]
  IN [filled EXCEPT !.mem = FoldLeft(CopyIn, @, OfKind(filled, FALSE) \o OfKind(filled, TRUE))]

(* Fault to seed: the length of the copy is cleared before it is used.      *)
end_tx_cleared(rt) ==
  [rt EXCEPT !.arrays = [j \in DOMAIN @ |-> [@[j] EXCEPT !.shadow_mem_len = 0]]]

(* Copies the arrays that may be written back.                                *)
end_tx(rt) ==
  LET Ended(ob) ==
        [ob EXCEPT !.data = IF ~ob.rw THEN @
                            ELSE [x \in DOMAIN @ |->
                                    IF x - 1 - ob.shadow_mem_pos \in DOMAIN CopyOf(ob)
                                    THEN rt.mem[CopyOf(ob)[x - 1 - ob.shadow_mem_pos]] ELSE @[x]],
                   !.shadow_mem_pos = @ + ob.iter_pos,
                   !.shadow_mem_len = 0]
  IN [rt EXCEPT !.arrays = [j \in DOMAIN @ |-> Ended(@[j])]]

(* Gives each array its place among those of its kind, and both cursors go on *)
(* from where they are.                                                       *)
begin_leaky_sec(rt) ==
  LET Before(j) == Cardinality({i \in 1 .. j - 1 : rt.arrays[i].rw = rt.arrays[j].rw})
      Cursor(rw) == IF rw THEN rt.cur_array_rw ELSE rt.cur_array_ro
      After(rw) == Cursor(rw) + IF OfKind(rt, rw) = << >> THEN 0
                                ELSE Share(rt, rw) * Len(OfKind(rt, rw))
  IN begin_tx([rt EXCEPT
       !.arrays = [j \in DOMAIN @ |->
          [@[j] EXCEPT !.shadow_mem = Cursor(rt.arrays[j].rw) + Before(j) * Share(rt, rt.arrays[j].rw)]],
       !.cur_array_ro = After(FALSE), !.cur_array_rw = After(TRUE)])

(* An access that finds the copy used up asks for the next part of the array; *)
(* nothing advances iter_pos, so that none does.                               *)
Moved(rt, ob) ==
  IF ob.iter_pos = ob.shadow_mem_len /\ ob.shadow_mem_pos + ob.shadow_mem_len < ob.len
  THEN begin_tx(end_tx(rt)) ELSE rt

(* What is read, and the runtime after it.                                    *)
read_at(rt, ob, idx) == <<rt.mem[cal_array_ro(ob.shadow_mem + idx)], Moved(rt, ob)>>

write_at(rt, ob, idx, data) ==
  Moved([rt EXCEPT !.mem[cal_array_rw(ob.shadow_mem + idx)] = data], ob)
=============================================================================
