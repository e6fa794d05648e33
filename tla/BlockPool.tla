----------------------------- MODULE BlockPool -----------------------------
(***************************************************************************)
(* What MemoryPool promises its client: blocks that are allocated and      *)
(* freed in any order and enumerated in the order of their allocation,     *)
(* each keeping what was last written to it.                               *)
(***************************************************************************)
EXTENDS Integers, Sequences, SequencesExt

CONSTANTS
  Blocks,   \* the addresses of the blocks
  Elements  \* what the client writes to a block

VARIABLES
  used,     \* the blocks as the pool enumerates them, oldest first
  content   \* what each of the client's blocks holds

vars == <<used, content>>

InUse == DOMAIN content

Init == used = << >> /\ content = [b \in {} |-> 0]

\* A new block may hold anything.
Alloc(b) ==
  /\ b \notin InUse
  /\ used' = Append(used, b)
  /\ DOMAIN content' = InUse \cup {b}
  /\ \A c \in InUse : content'[c] = content[c]

Free(b) ==
  /\ b \in InUse
  /\ \E i \in 1 .. Len(used) : used[i] = b /\ used' = RemoveAt(used, i)
  /\ content' = [c \in InUse \ {b} |-> content[c]]

Write(b, v) ==
  /\ b \in InUse
  /\ content' = [content EXCEPT ![b] = v]
  /\ UNCHANGED used

Next ==
  \E b \in Blocks : Alloc(b) \/ Free(b) \/ \E v \in Elements : Write(b, v)

Spec == Init /\ [][Next]_vars

=============================================================================
