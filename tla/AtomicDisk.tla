----------------------------- MODULE AtomicDisk -----------------------------
(***************************************************************************)
(* What the logging layer (log.c) promises to the file system above it: a  *)
(* disk on which the block writes of a set of system calls become durable  *)
(* all together or not at all.  "mem" is what the system calls read and    *)
(* write, "stable" is what survives a crash, "active" is the set of        *)
(* processes between begin_op() and end_op().                              *)
(***************************************************************************)
CONSTANTS Procs, Blocks, Values

VARIABLES mem, stable, active
vars == <<mem, stable, active>>

Init ==
  /\ stable \in [Blocks -> Values]
  /\ mem = stable
  /\ active = {}

Begin(p) ==
  /\ p \notin active
  /\ active' = active \cup {p}
  /\ UNCHANGED <<mem, stable>>

Write(p, b, v) ==
  /\ p \in active
  /\ mem' = [mem EXCEPT ![b] = v]
  /\ UNCHANGED <<stable, active>>

End(p) ==
  /\ p \in active
  /\ active' = active \ {p}
  /\ UNCHANGED <<mem, stable>>

\* Everything written so far becomes durable in one step, and only between
\* system calls: no call is ever half durable.
Commit ==
  /\ active = {}
  /\ stable' = mem
  /\ UNCHANGED <<mem, active>>

Crash ==
  /\ mem' = stable
  /\ active' = {}
  /\ UNCHANGED stable

Next ==
  \/ \E p \in Procs : Begin(p) \/ End(p)
  \/ \E p \in Procs, b \in Blocks, v \in Values : Write(p, b, v)
  \/ Commit
  \/ Crash

Spec == Init /\ [][Next]_vars
=============================================================================
