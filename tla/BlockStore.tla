----------------------------- MODULE BlockStore -----------------------------
(***************************************************************************)
(* What the buffer cache promises to the file system: every block has one  *)
(* content, which changes only when the process that has the block writes  *)
(* it, and at most one process has a block.                                *)
(***************************************************************************)
CONSTANTS Procs, Blocks, Values, Nobody

VARIABLES mem, user

Init ==
  /\ mem \in [Blocks -> Values]
  /\ user = [n \in Blocks |-> Nobody]

\* bread() returns.
Take(p, n) ==
  /\ user[n] = Nobody
  /\ user' = [user EXCEPT ![n] = p]
  /\ UNCHANGED mem

Write(p, n, v) ==
  /\ user[n] = p
  /\ mem' = [mem EXCEPT ![n] = v]
  /\ UNCHANGED user

\* brelse() is called.
Give(p, n) ==
  /\ user[n] = p
  /\ user' = [user EXCEPT ![n] = Nobody]
  /\ UNCHANGED mem

Next ==
  \E p \in Procs, n \in Blocks :
    Take(p, n) \/ Give(p, n) \/ \E v \in Values : Write(p, n, v)

Spec == Init /\ [][Next]_<<mem, user>>
=============================================================================
