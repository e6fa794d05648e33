-------------------------- MODULE ObliviousArrays ---------------------------
(***************************************************************************)
(* What the runtime promises its client, with no shadow memory, no chunks  *)
(* and no hardware: objects hold arrays; an iterator reads or writes its   *)
(* array from the front, one element a call, an array object is read and   *)
(* written anywhere.  Inside a section the program may fall back to a      *)
(* state it was in after an earlier call of this section, and then it      *)
(* falls back completely.  What a section has done when it is closed is    *)
(* there for good.                                                         *)
(***************************************************************************)
EXTENDS Integers

CONSTANTS Objects, Value, Written, Zero

VARIABLES
  status,   \* "closed", "open" (inside a section) or "over"
  kind,     \* kind[s]: "none" until s is registered
  content,  \* content[s]: the array of s as the client sees it
  pos,      \* pos[s]: how far the iterator s has come
  ret,      \* what the last call returned
  saved     \* the state a section may fall back to

vars == <<status, kind, content, pos, ret, saved>>

Nowhere  == <<>>
Now      == [content |-> content, pos |-> pos, ret |-> ret]
Iterator == {"r_ob", "w_ob"}
Array    == {"nob", "r_nob"}

\* Objects are registered while no section is open.
Register(s, k) ==
  /\ status = "closed" /\ kind[s] = "none"
  /\ kind' = [kind EXCEPT ![s] = k]
  /\ content' = [content EXCEPT ![s] = content'[s]]
  /\ \A i \in DOMAIN content'[s] : content'[s][i] \in Value
  /\ UNCHANGED <<status, pos, ret, saved>>

Open ==
  /\ status = "closed" /\ status' = "open"
  /\ saved' = Now
  /\ UNCHANGED <<kind, content, pos, ret>>

MaySave == saved' = saved \/ saved' = Now'

\* The next element of an iterator: each one once, in order.
HasNext(s, k) == status = "open" /\ kind[s] = k /\ pos[s] \in DOMAIN content[s]

Read(s) ==
  /\ HasNext(s, "r_ob")
  /\ ret' = content[s][pos[s]]
  /\ pos' = [pos EXCEPT ![s] = @ + 1]
  /\ MaySave
  /\ UNCHANGED <<status, kind, content>>

Write(s, v) ==
  /\ HasNext(s, "w_ob")
  /\ content' = [content EXCEPT ![s][pos[s]] = v]
  /\ pos' = [pos EXCEPT ![s] = @ + 1]
  /\ MaySave
  /\ UNCHANGED <<status, kind, ret>>

Get(s, i) ==
  /\ status = "open" /\ kind[s] \in Array
  /\ ret' = content[s][i]
  /\ UNCHANGED <<status, kind, content, pos, saved>>

Put(s, i, v) ==
  /\ status = "open" /\ kind[s] = "nob"
  /\ content' = [content EXCEPT ![s][i] = v]
  /\ UNCHANGED <<status, kind, pos, ret, saved>>

FallBack ==
  /\ status = "open"
  /\ content' = saved.content /\ pos' = saved.pos /\ ret' = saved.ret
  /\ UNCHANGED <<status, kind, saved>>

Close(st) ==
  /\ status = "open" /\ status' = st
  /\ saved' = Nowhere
  /\ UNCHANGED <<kind, content, pos, ret>>

\* Between sections the client owns its arrays and may rewind an iterator.
Store(s, i, v) ==
  /\ status = "closed"
  /\ content' = [content EXCEPT ![s][i] = v]
  /\ UNCHANGED <<status, kind, pos, ret, saved>>

Rewind(s) ==
  /\ status = "closed" /\ kind[s] \in Iterator
  /\ pos' = [pos EXCEPT ![s] = 0]
  /\ UNCHANGED <<status, kind, content, ret, saved>>

Finish ==
  /\ status = "closed" /\ status' = "over"
  /\ UNCHANGED <<kind, content, pos, ret, saved>>

Init ==
  /\ status = "closed"
  /\ kind = [s \in Objects |-> "none"]
  /\ content = [s \in Objects |-> [i \in {} |-> Zero]]
  /\ pos = [s \in Objects |-> 0]
  /\ ret = Zero
  /\ saved = Nowhere

Next ==
  \/ \E s \in Objects :
       \/ \E k \in Iterator \cup Array : Register(s, k)
       \/ Read(s) \/ Rewind(s)
       \/ \E v \in Written : Write(s, v)
       \/ \E i \in DOMAIN content[s] :
            \/ Get(s, i)
            \/ \E v \in Written : Put(s, i, v) \/ Store(s, i, v)
  \/ Open \/ FallBack \/ Finish
  \/ \E st \in {"closed", "over"} : Close(st)

Spec == Init /\ [][Next]_vars

=============================================================================
