-------------------------------- MODULE Pipe --------------------------------
(***************************************************************************)
(* A pipe (my-xv6-public/pipe.c) between processes that read, write, close *)
(* their ends and are killed.  What runs under p->lock is interleaved only *)
(* with kill(), which takes another lock; a byte is one step.              *)
(***************************************************************************)
EXTENDS Integers, Sequences

CONSTANTS
  Procs,
  Readers, Writers,   \* who has the read end and the write end open at first
  Bytes,
  PIPESIZE,
  Wrap,               \* modulus of the unsigned counters nread and nwrite
  ReadLengths, WriteLengths   \* arguments n of read() and write()

ASSUME PipeConstants ==
  /\ Readers \in (SUBSET Procs) \ {{}}
  /\ Writers \in (SUBSET Procs) \ {{}}
  /\ PIPESIZE \in Nat \ {0}
  /\ Wrap \in Nat /\ Wrap > PIPESIZE /\ Wrap % PIPESIZE = 0
  /\ ReadLengths \subseteq Nat /\ WriteLengths \subseteq Nat
  /\ Bytes # {}
  /\ "nobody" \notin Procs   \* plock is free

VARIABLES
  nread, nwrite, data,
  open,       \* readopen and writeopen
  allocated,  \* the page of struct pipe has not been freed
  plock,      \* the process that holds p->lock, if any
  holders,    \* references to the two struct file
  pc, end,    \* where a process is, and in which end's code
  left,       \* n - i
  got,        \* the byte that piperead() copied out last
  killed

ring == <<nread, nwrite, data>>
vars == <<ring, open, allocated, plock, holders, pc, end, left, got, killed>>

Ends == {"r", "w"}
Nobody == "nobody"

Empty == nread = nwrite

\* Faulty: a sum that does not wrap around.
FullWide == nwrite = nread + PIPESIZE

Full == nwrite = (nread + PIPESIZE) % Wrap

\* pipealloc() and the fork() of the processes that share the pipe.
Init ==
  /\ nread = 0 /\ nwrite = 0
  /\ \E v \in Bytes : data = [i \in 0 .. (PIPESIZE - 1) |-> v] /\ got = v
  /\ open = [e \in Ends |-> TRUE]
  /\ allocated = TRUE
  /\ plock = Nobody
  /\ holders = [e \in Ends |-> IF e = "r" THEN Readers ELSE Writers]
  /\ pc = [p \in Procs |-> "idle"]
  /\ end = [p \in Procs |-> "r"]
  /\ left = [p \in Procs |-> 0]
  /\ killed = [p \in Procs |-> FALSE]

\* wakeup(&p->nread) for the readers, wakeup(&p->nwrite) for the writers.
Wake(f, e) ==
  [q \in Procs |-> IF f[q] = "asleep" /\ end[q] = e THEN "woken" ELSE f[q]]

\* Process p holds p->lock in the code of end e, at a location in L.
Running(p, e, L) == plock = p /\ end[p] = e /\ pc[p] \in L

\* Faulty: nobody is woken.
ReturnSilently(p, e) ==
  /\ pc' = [pc EXCEPT ![p] = "idle"]
  /\ left' = [left EXCEPT ![p] = 0]
  /\ plock' = Nobody

\* release(&p->lock) and return, after waking the sleepers of end e.
Return(p, e) ==
  /\ pc' = Wake([pc EXCEPT ![p] = "idle"], e)
  /\ left' = [left EXCEPT ![p] = 0]
  /\ plock' = Nobody

\* pipewrite() or piperead() is called.
Start(p, e, n) ==
  /\ pc[p] = "idle" /\ ~killed[p]
  /\ p \in holders[e]
  /\ plock = Nobody
  /\ plock' = p
  /\ pc' = [pc EXCEPT ![p] = "loop"]
  /\ end' = [end EXCEPT ![p] = e]
  /\ left' = [left EXCEPT ![p] = n]
  /\ UNCHANGED <<ring, open, allocated, holders, got, killed>>

WriteByte(p, v) ==
  /\ Running(p, "w", {"loop"})
  /\ left[p] > 0
  /\ ~Full
  /\ data' = [data EXCEPT ![nwrite % PIPESIZE] = v]
  /\ nwrite' = (nwrite + 1) % Wrap
  /\ left' = [left EXCEPT ![p] = @ - 1]
  /\ UNCHANGED <<nread, open, allocated, plock, holders, pc, end, got, killed>>

\* The pipe is full: give up, or wake the readers and go to sleep.
WriteFull(p) ==
  /\ Running(p, "w", {"loop"})
  /\ left[p] > 0
  /\ Full
  /\ \/ /\ ~open["r"] \/ killed[p]
        /\ pc' = [pc EXCEPT ![p] = "idle"]
        /\ left' = [left EXCEPT ![p] = 0]
        /\ plock' = Nobody
     \/ /\ open["r"] /\ ~killed[p]
        /\ pc' = Wake([pc EXCEPT ![p] = "sleep"], "r")
        /\ UNCHANGED <<left, plock>>
  /\ UNCHANGED <<ring, open, allocated, holders, end, got, killed>>

WriteDone(p) ==
  /\ Running(p, "w", {"loop"})
  /\ left[p] = 0
  /\ Return(p, "r")
  /\ UNCHANGED <<ring, open, allocated, holders, end, got, killed>>

\* The pipe is empty and may still be written: give up if killed, or sleep.
ReadEmpty(p) ==
  /\ Running(p, "r", {"loop"})
  /\ Empty /\ open["w"]
  /\ \/ /\ killed[p]
        /\ pc' = [pc EXCEPT ![p] = "idle"]
        /\ left' = [left EXCEPT ![p] = 0]
        /\ plock' = Nobody
     \/ /\ ~killed[p]
        /\ pc' = [pc EXCEPT ![p] = "sleep"]
        /\ UNCHANGED <<left, plock>>
  /\ UNCHANGED <<ring, open, allocated, holders, end, got, killed>>

ReadByte(p) ==
  /\ Running(p, "r", {"loop", "copy"})
  /\ left[p] > 0
  /\ ~Empty
  /\ got' = data[nread % PIPESIZE]
  /\ nread' = (nread + 1) % Wrap
  /\ left' = [left EXCEPT ![p] = @ - 1]
  /\ pc' = [pc EXCEPT ![p] = "copy"]
  /\ UNCHANGED <<nwrite, data, open, allocated, plock, holders, end, killed>>

\* What was there has been copied, or nothing will come any more.
ReadDone(p) ==
  /\ \/ Running(p, "r", {"copy"})
     \/ Running(p, "r", {"loop"}) /\ ~(Empty /\ open["w"])
  /\ left[p] = 0 \/ Empty
  /\ Return(p, "w")
  /\ UNCHANGED <<ring, open, allocated, holders, end, got, killed>>

\* sleep(): p->lock is released in the step that makes the process sleep.
Sleep(p) ==
  /\ plock = p
  /\ pc[p] = "sleep"
  /\ pc' = [pc EXCEPT ![p] = "asleep"]
  /\ plock' = Nobody
  /\ UNCHANGED <<ring, open, allocated, holders, end, left, got, killed>>

\* The end of sleep(): the lock is taken again.
Relock(p) ==
  /\ pc[p] = "woken"
  /\ plock = Nobody
  /\ plock' = p
  /\ pc' = [pc EXCEPT ![p] = "loop"]
  /\ UNCHANGED <<ring, open, allocated, holders, end, left, got, killed>>

\* kill(), which takes ptable.lock and not p->lock.
Kill(p) ==
  /\ ~killed[p]
  /\ killed' = [killed EXCEPT ![p] = TRUE]
  /\ pc' = [pc EXCEPT ![p] = IF @ = "asleep" THEN "woken" ELSE @]
  /\ UNCHANGED <<ring, open, allocated, plock, holders, end, left, got>>

\* fileclose(): the last reference to an end closes it.
FileClose(p, e) ==
  /\ pc[p] = "idle"
  /\ p \in holders[e]
  /\ holders' = [holders EXCEPT ![e] = @ \ {p}]
  /\ IF holders[e] = {p}
     THEN /\ pc' = [pc EXCEPT ![p] = "close"]
          /\ end' = [end EXCEPT ![p] = e]
     ELSE UNCHANGED <<pc, end>>
  /\ UNCHANGED <<ring, open, allocated, plock, left, got, killed>>

Other(e) == IF e = "w" THEN "r" ELSE "w"

\* Faulty: the sleepers of the same end are woken.
WakesSameEnd(e) == e

\* The end whose sleepers pipeclose() wakes.
WakesAtClose(e) == Other(e)

\* Faulty: the first close frees.
StillOpenBoth(o) == o["r"] /\ o["w"]

StillOpen(o) == o["r"] \/ o["w"]

\* pipeclose(): the other end's sleepers are woken; the second close frees.
PipeClose(p) ==
  /\ pc[p] = "close"
  /\ plock = Nobody
  /\ open' = [open EXCEPT ![end[p]] = FALSE]
  /\ pc' = Wake([pc EXCEPT ![p] = "idle"], WakesAtClose(end[p]))
  /\ allocated' = StillOpen(open')
  /\ UNCHANGED <<ring, plock, holders, end, left, got, killed>>

-----------------------------------------------------------------------------

\* The code of a call that has been entered.
Kernel(p) ==
  \/ \E v \in Bytes : WriteByte(p, v)
  \/ WriteFull(p) \/ WriteDone(p) \/ ReadEmpty(p) \/ ReadByte(p) \/ ReadDone(p)
  \/ Sleep(p) \/ Relock(p) \/ PipeClose(p)

Next ==
  \E p \in Procs :
    \/ Kernel(p)
    \/ \E n \in ReadLengths : Start(p, "r", n)
    \/ \E n \in WriteLengths : Start(p, "w", n)
    \/ \E e \in Ends : FileClose(p, e)
    \/ Kill(p)

Spec == Init /\ [][Next]_vars

\* A process in the kernel goes on, and gets the lock it spins on; a killed one
\* that is back in user space exits, which closes its ends.
Fairness ==
  \A p \in Procs :
    /\ SF_vars(Kernel(p))
    /\ WF_vars(killed[p] /\ \E e \in Ends : FileClose(p, e))

\* What is asked of the programs: one that keeps the read end open reads.
ReadersKeepReading ==
  \A p \in Procs : SF_vars(\E n \in ReadLengths \ {0} : Start(p, "r", n))

FairSpec == Spec /\ Fairness /\ ReadersKeepReading

-----------------------------------------------------------------------------
(* Properties *)

TypeOK ==
  /\ nread \in 0 .. (Wrap - 1)
  /\ nwrite \in 0 .. (Wrap - 1)
  /\ data \in [0 .. (PIPESIZE - 1) -> Bytes]
  /\ open \in [Ends -> BOOLEAN]
  /\ allocated \in BOOLEAN
  /\ plock \in Procs \cup {Nobody}
  /\ holders \in [Ends -> SUBSET Procs]
  /\ pc \in [Procs -> {"idle", "loop", "copy", "sleep", "asleep", "woken", "close"}]
  /\ end \in [Procs -> Ends]
  /\ left \in [Procs -> Nat]
  /\ got \in Bytes
  /\ killed \in [Procs -> BOOLEAN]

\* The bytes between nread and nwrite, which wrap around in the array and in
\* the counters, are a FIFO queue: what piperead() copies out is what pipewrite()
\* put in, in that order, and no byte is lost or overwritten.
Queue ==
  [i \in 1 .. ((nwrite - nread) % Wrap) |-> data[(nread + i - 1) % PIPESIZE]]

Channel == INSTANCE Fifo WITH Size <- PIPESIZE, queue <- Queue, out <- got

IsFifo == Channel!Spec

\* No wakeup is lost: when nobody is inside, a reader sleeps only on an empty
\* pipe that can be written and a writer only on a full one that can be read.
\* Only a writer that was killed may leave bytes and sleeping readers behind.
SleepersHaveReason ==
  plock = Nobody =>
    \A p \in Procs : pc[p] = "asleep" =>
      IF end[p] = "r"
      THEN open["w"] /\ (Empty \/ \E q \in Writers : killed[q])
      ELSE open["r"] /\ Full

\* The pipe is freed once, when no process can use it any more.
NotFreedInUse ==
  /\ \A p \in Procs : pc[p] # "idle" => allocated
  /\ \A e \in Ends : holders[e] # {} => open[e]
  /\ open["r"] \/ open["w"] => allocated

\* No call blocks for ever: a write ends, by the readers' work or because they
\* have all gone, and a read ends once the last write end is closed.
CallsEnd ==
  \A p \in Procs :
    (pc[p] # "idle" /\ (end[p] = "w" \/ holders["w"] = {})) ~> (pc[p] = "idle")
=============================================================================
