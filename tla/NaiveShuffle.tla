---------------------------- MODULE NaiveShuffle ----------------------------
(***************************************************************************)
(* naive_shuffle of src/algo/naive_shuffle.cpp on the runtime: the program *)
(* is the client of CMORuntime, and an abort takes its local variables     *)
(* back along with the shadow memory.                                      *)
(***************************************************************************)
EXTENDS CMORuntime

CONSTANT MaxRetries  \* bound: aborts of one transaction

VARIABLES
  pc,       \* the next call of the program
  len,      \* the parameter len
  i,        \* the loop variable
  args,     \* the arguments of nob_write_at evaluated so far
  saved,    \* the locals the processor saved with the transaction
  retries   \* aborts of the current transaction

locals == <<pc, i, args>>
svars  == <<vars, locals, len, saved, retries>>

\* The objects in the order the program registers them.
d == 0
p == 1
o == 2

\* The program registers three objects, and perm_in holds a permutation.
ASSUME ShuffleAssumption ==
  /\ MaxObjects >= 3
  /\ \A n \in Lens : \A f \in Contents(p, n) :
       /\ \A j \in 0 .. n - 1 : f[j] \in 0 .. n - 1
       /\ \A j, k \in 0 .. n - 1 : f[j] = f[k] => j = k

NoArgs == [x \in {} |-> Zero]

\* A call that starts a transaction leaves the locals for the processor to save
\* and makes the count of aborts start again.
Transact ==
  IF phase' = "leaky" /\ (phase # "leaky" \/ shadow_mem_pos' # shadow_mem_pos)
  THEN saved' = locals' /\ retries' = 0
  ELSE UNCHANGED <<saved, retries>>

\* The call c, after which the program is at label next, with loop variable n
\* and the arguments a.
Call(from, next, c, n, a) ==
  /\ pc = from
  /\ c
  /\ pc' = next /\ i' = n /\ args' = a
  /\ UNCHANGED len
  /\ Transact

RegisterD ==
  \E n \in Lens :
    /\ pc = "init_d" /\ pc' = "init_p"
    /\ init_read_ob_iterator(n)
    /\ len' = n
    /\ UNCHANGED <<i, args, saved, retries>>

RegisterP   == Call("init_p", "init_o", init_read_ob_iterator(len), i, args)
RegisterO   == Call("init_o", "begin", init_nob_array(len), i, args)
Begin       == Call("begin", "loop", begin_leaky_sec, 0, args)
BeginAborts == Call("begin", "dead", begin_leaky_sec_aborts, i, args)

\* C++ leaves open which argument of nob_write_at is evaluated first.
Evaluate(s) ==
  /\ i < len
  /\ s \notin DOMAIN args
  /\ Call("loop", "loop", ob_read_next(s), i,
          [x \in DOMAIN args \cup {s} |-> IF x = s THEN ret' ELSE args[x]])

Faults(s) ==
  /\ i < len
  /\ s \notin DOMAIN args
  /\ pc = "loop" /\ ob_next_faults(s)
  /\ pc' = saved[1] /\ i' = saved[2] /\ args' = saved[3]
  /\ UNCHANGED <<len, saved, retries>>

WriteOut ==
  /\ DOMAIN args = {d, p}
  /\ Call("loop", "loop", nob_write_at(o, args[p], args[d]), i + 1, NoArgs)

\* Fault to seed: the loop stops one element early.
EndEarly == i >= len - 1 /\ Call("loop", "free", end_leaky_sec, i, args)

End  == i = len /\ Call("loop", "free", end_leaky_sec, i, args)
Free == Call("free", "done", free_cmo_runtime, i, args)

Abort ==
  /\ retries < MaxRetries
  /\ TxAbort
  /\ pc' = saved[1] /\ i' = saved[2] /\ args' = saved[3]
  /\ retries' = retries + 1
  /\ UNCHANGED <<len, saved>>

Done == pc \in {"done", "dead"} /\ UNCHANGED svars

ShuffleInit ==
  /\ Init
  /\ pc = "init_d" /\ len = 0 /\ i = 0 /\ args = NoArgs
  /\ saved = locals
  /\ retries = 0

Program ==
  \/ RegisterD \/ RegisterP \/ RegisterO \/ Begin \/ BeginAborts
  \/ (\E s \in {d, p} : Evaluate(s) \/ Faults(s))
  \/ WriteOut \/ End \/ Free

ShuffleNext == Program \/ Abort \/ Done

\* The processor runs the program; nothing is assumed of the aborts but that
\* one transaction has no more than MaxRetries, since nothing the transaction
\* does evicts it (L1Resident).
ShuffleSpec == ShuffleInit /\ [][ShuffleNext]_svars /\ WF_svars(Program)

-----------------------------------------------------------------------------
(* Properties *)

\* When naive_shuffle returns, every element of arr_in is in arr_out where
\* perm_in sends it, whichever argument was evaluated first and wherever the
\* transactions were aborted.
Shuffled ==
  pc = "done" => \A j \in 0 .. len - 1 : data[o][data[p][j]] = data[d][j]

\* naive_shuffle returns, or ends with the message that arr_out is too long:
\* the retries of a transaction come to an end.
Terminates == <>(pc \in {"done", "dead"})

\* The arrays and the metadata take every set, and the iterators get none.
AllSetsTaken == phase = "leaky" /\ alloc.meta + alloc.nob_w + alloc.nob_r = L1Sets

\* naive_shuffle returns or ends with the message, but in the section that
\* begin_leaky_sec should have refused for want of sets.
Ends == <>(pc \in {"done", "dead"} \/ AllSetsTaken)

\* A retried transaction does no work twice: the locals an abort restores are
\* those of the elements read when the transaction started.
LocalsMatch ==
  phase = "leaky" =>
    /\ Advanced(iter_pos)[d] = i + (IF d \in DOMAIN args THEN 1 ELSE 0)
    /\ Advanced(iter_pos)[p] = i + (IF p \in DOMAIN args THEN 1 ELSE 0)

=============================================================================
