------------------------------- MODULE Bcache -------------------------------
(***************************************************************************)
(* The buffer cache (my-xv6-public/bio.c), the sleep locks of its buffers  *)
(* (sleeplock.c) and the IDE driver under it (ide.c), with the disk that   *)
(* works on its own and interrupts.                                        *)
(*                                                                         *)
(* A step is what the code does under one spin lock.  A member of Procs is *)
(* one use of a buffer, by a process: a process that holds two buffers at  *)
(* once (write_log() and install_trans() in log.c, bmap() with balloc() in *)
(* fs.c) is two of them.  What it wants is any block of the disk.          *)
(***************************************************************************)
EXTENDS Integers, Sequences, Functions, FiniteSetsExt

CONSTANTS
  Procs, Blocks, Values,
  Bufs,        \* the NBUF buffers
  MaxPinned,   \* how many dirty buffers the log leaves in the cache
  ReadStatus   \* how a read may end: {"good"}, or {"good", "bad"}

Nobody == "nobody"
None == "none"

ASSUME BcacheConstants ==
  /\ IsFiniteSet(Procs) /\ Nobody \notin Procs
  /\ IsFiniteSet(Bufs) /\ None \notin Bufs \cup Blocks
  /\ MaxPinned \in Nat
  /\ ReadStatus \subseteq {"good", "bad"}

VARIABLES
  buf,        \* blockno, valid, dirty, refcnt and data of each buffer
  lru,        \* the list from bcache.head.next on
  owner,      \* who holds the sleep lock of a buffer
  idequeue,
  cmd,        \* the command that the disk works on
  disk,
  pc, mine, want   \* where a process is, its buffer, the block it asked for

vars == <<buf, lru, owner, idequeue, cmd, disk, pc, mine, want>>

Idle == [op |-> "none", block |-> None, value |-> None, done |-> FALSE]

\* binit(), after ideinit().
Init ==
  /\ disk \in [Blocks -> Values]
  /\ \E v \in Values : buf = [b \in Bufs |->
       [blockno |-> None, valid |-> FALSE, dirty |-> FALSE, refcnt |-> 0, data |-> v]]
  /\ lru \in Bijection(1 .. Cardinality(Bufs), Bufs)
  /\ owner = [b \in Bufs |-> Nobody]
  /\ idequeue = <<>>
  /\ cmd = Idle
  /\ pc = [p \in Procs |-> "idle"]
  /\ mine = [p \in Procs |-> None]
  /\ want = [p \in Procs |-> None]

Goto(p, loc) == pc' = [pc EXCEPT ![p] = loc]

-----------------------------------------------------------------------------
(* bget() *)

\* Where in the list the block is.
Cached(n) == {i \in DOMAIN lru : buf[lru[i]].blockno = n}

\* Faulty: a dirty buffer is recycled; a buffer that is waited for is recycled.
CleanOrDirty(b) == buf[b].refcnt = 0
Unlocked(b) == owner[b] = Nobody /\ ~buf[b].dirty

Unused(b) == buf[b].refcnt = 0 /\ ~buf[b].dirty

Recyclable == {i \in DOMAIN lru : Unused(lru[i])}

Recycled(b, n) ==
  [blockno |-> n, valid |-> FALSE, dirty |-> FALSE, refcnt |-> 1, data |-> buf[b].data]

\* The least recently used one is recycled.  With no buffer left bget() panics,
\* "no buffers": nothing in the code keeps the log and the processes from using
\* all NBUF of them.
Bget(p, n) ==
  /\ pc[p] = "idle"
  /\ IF Cached(n) # {} THEN
       LET b == lru[Min(Cached(n))] IN
       /\ buf' = [buf EXCEPT ![b].refcnt = @ + 1]
       /\ mine' = [mine EXCEPT ![p] = b]
       /\ Goto(p, "lock")
     ELSE IF Recyclable # {} THEN
       LET b == lru[Max(Recyclable)] IN
       /\ buf' = [buf EXCEPT ![b] = Recycled(b, n)]
       /\ mine' = [mine EXCEPT ![p] = b]
       /\ Goto(p, "lock")
     ELSE
       /\ Goto(p, "nobufs")
       /\ UNCHANGED <<buf, mine>>
  /\ want' = [want EXCEPT ![p] = n]
  /\ UNCHANGED <<lru, owner, idequeue, cmd, disk>>

-----------------------------------------------------------------------------
(* Sleep locks *)

AcquireSleep(p) ==
  /\ pc[p] = "lock"
  /\ IF owner[mine[p]] = Nobody
     THEN /\ owner' = [owner EXCEPT ![mine[p]] = p]
          /\ Goto(p, "bread")
     ELSE /\ Goto(p, "locksleep")
          /\ UNCHANGED owner
  /\ UNCHANGED <<buf, lru, idequeue, cmd, disk, mine, want>>

\* wakeup(lk)
LockWaitersWoken(b) ==
  [q \in Procs |-> IF pc[q] = "locksleep" /\ mine[q] = b THEN "lock" ELSE pc[q]]

-----------------------------------------------------------------------------
(* bread(), bwrite() and log_write() *)

\* Faulty: the block is read even if it is there.
BreadAlways(p) ==
  /\ pc[p] = "bread"
  /\ Goto(p, "iderw")
  /\ UNCHANGED <<buf, lru, owner, idequeue, cmd, disk, mine, want>>

Bread(p) ==
  /\ pc[p] = "bread"
  /\ Goto(p, IF buf[mine[p]].valid THEN "use" ELSE "iderw")
  /\ UNCHANGED <<buf, lru, owner, idequeue, cmd, disk, mine, want>>

\* The holder changes the data and calls bwrite().
Bwrite(p, v) ==
  /\ pc[p] = "use"
  /\ buf' = [buf EXCEPT ![mine[p]].data = v, ![mine[p]].dirty = TRUE]
  /\ Goto(p, "iderw")
  /\ UNCHANGED <<lru, owner, idequeue, cmd, disk, mine, want>>

\* Dirty, and not on the way to the disk.
Pinned ==
  {b \in Bufs : buf[b].dirty /\
     ~\E p \in Procs : mine[p] = b /\ pc[p] \in {"iderw", "iosleep", "iowoken"}}

\* The holder changes the data and calls log_write(), which marks the buffer
\* so that it stays in the cache until the log installs the block.
LogWrite(p, v) ==
  /\ pc[p] = "use"
  /\ Cardinality(Pinned \ {mine[p]}) < MaxPinned
  /\ buf' = [buf EXCEPT ![mine[p]].data = v, ![mine[p]].dirty = TRUE]
  /\ UNCHANGED <<lru, owner, idequeue, cmd, disk, pc, mine, want>>

\* brelse(), first the sleep lock and then the reference.
ReleaseSleep(p) ==
  /\ pc[p] = "use"
  /\ owner' = [owner EXCEPT ![mine[p]] = Nobody]
  /\ pc' = [LockWaitersWoken(mine[p]) EXCEPT ![p] = "deref"]
  /\ UNCHANGED <<buf, lru, idequeue, cmd, disk, mine, want>>

\* The buffer moves to the front, past those that were before it.
MostRecent(b) ==
  LET at == CHOOSE i \in DOMAIN lru : lru[i] = b IN
  [i \in DOMAIN lru |-> IF i = 1 THEN b ELSE IF i <= at THEN lru[i - 1] ELSE lru[i]]

Brelse(p) ==
  /\ pc[p] = "deref"
  /\ LET b == mine[p] IN
     /\ buf' = [buf EXCEPT ![b].refcnt = @ - 1]
     /\ lru' = IF buf[b].refcnt = 1 THEN MostRecent(b) ELSE lru
  /\ Goto(p, "idle")
  /\ mine' = [mine EXCEPT ![p] = None]
  /\ want' = [want EXCEPT ![p] = None]
  /\ UNCHANGED <<owner, idequeue, cmd, disk>>

-----------------------------------------------------------------------------
(* The driver *)

\* idestart(): a write hands the data over at once.
Idestart(b) ==
  [op |-> IF buf[b].dirty THEN "write" ELSE "read", block |-> buf[b].blockno,
   value |-> IF buf[b].dirty THEN buf[b].data ELSE None, done |-> FALSE]

Synced(b) == buf[b].valid /\ ~buf[b].dirty

\* idequeue == b
StartNow(q) == Len(q) = 1

\* iderw() up to its sleep().
Iderw(p) ==
  /\ pc[p] = "iderw"
  /\ LET b == mine[p]  q == Append(idequeue, mine[p]) IN
     IF owner[b] # p \/ Synced(b)
     THEN Goto(p, "panic") /\ UNCHANGED <<idequeue, cmd>>
     ELSE /\ idequeue' = q
          /\ cmd' = IF StartNow(q) THEN Idestart(b) ELSE cmd
          /\ Goto(p, "iosleep")
  /\ UNCHANGED <<buf, lru, owner, disk, mine, want>>

\* iderw() after its sleep().
IderwWoken(p) ==
  /\ pc[p] = "iowoken"
  /\ Goto(p, IF Synced(mine[p]) THEN "use" ELSE "iosleep")
  /\ UNCHANGED <<buf, lru, owner, idequeue, cmd, disk, mine, want>>

\* The disk does what it was told and interrupts.
Disk ==
  /\ cmd.op # "none" /\ ~cmd.done
  /\ IF cmd.op = "write"
     THEN /\ disk' = [disk EXCEPT ![cmd.block] = cmd.value]
          /\ cmd' = [cmd EXCEPT !.done = TRUE]
     ELSE /\ cmd' = [cmd EXCEPT !.done = TRUE, !.value = disk[cmd.block]]
          /\ UNCHANGED disk
  /\ UNCHANGED <<buf, lru, owner, idequeue, pc, mine, want>>

\* The command that ideintr() gives, q being what is left of the queue.
NextCommand(q) == IF q = <<>> THEN Idle ELSE Idestart(Head(q))

\* Faulty: nobody is woken.
IoNotWoken(b) == pc

\* wakeup(b)
IoWaitersWoken(b) ==
  [q \in Procs |-> IF pc[q] = "iosleep" /\ mine[q] = b THEN "iowoken" ELSE pc[q]]

\* ideintr(): the data of a read are copied if the status is good.
Ideintr(status) ==
  /\ cmd.done
  /\ LET b == Head(idequeue) IN
     /\ buf' = [buf EXCEPT
          ![b].data = IF ~buf[b].dirty /\ status = "good" THEN cmd.value ELSE @,
          ![b].valid = TRUE,
          ![b].dirty = FALSE]
     /\ pc' = IoWaitersWoken(b)
  /\ idequeue' = Tail(idequeue)
  /\ cmd' = NextCommand(Tail(idequeue))
  /\ UNCHANGED <<lru, owner, disk, mine, want>>

-----------------------------------------------------------------------------

\* What a process does on its own in the kernel; it keeps no buffer for ever.
Kernel(p) ==
  \/ AcquireSleep(p) \/ Bread(p) \/ ReleaseSleep(p) \/ Brelse(p)
  \/ Iderw(p) \/ IderwWoken(p)

Device == Disk \/ \E s \in ReadStatus : Ideintr(s)

Next ==
  \/ \E p \in Procs :
       \/ Kernel(p)
       \/ \E n \in Blocks : Bget(p, n)
       \/ \E v \in Values : Bwrite(p, v) \/ LogWrite(p, v)
  \/ Device

Spec == Init /\ [][Next]_vars

-----------------------------------------------------------------------------
(* Properties *)

\* iderw() is called by the holder of the buffer's lock and for a reason: bread(),
\* bwrite(), the log's pins and the interrupt never leave it a buffer that is valid
\* and clean. (That bget() finds a buffer is not claimed.)
NoPanic == \A p \in Procs : pc[p] # "panic"

\* A process that has passed bget() works on a buffer of the block it asked for,
\* of which there is no other copy: the buffer is not recycled while the process
\* waits for its lock, or between the release of the lock and brelse()'s end, as
\* refcnt counts the processes that have it; and no buffer drops out of the LRU list or
\* is twice in the queue of the disk.
RightBuffer ==
  /\ \A p \in Procs : mine[p] # None =>
       \A b \in Bufs : buf[b].blockno = want[p] <=> b = mine[p]
  /\ \A b \in Bufs : buf[b].refcnt = Cardinality({p \in Procs : mine[p] = b})
  /\ lru \in Bijection(1 .. Cardinality(Bufs), Bufs)
  /\ IsInjective(idequeue)

\* For its users the cache is a store of blocks: a block keeps its content from
\* one user to the next, wherever it is in the meantime.
Content(n) ==
  LET copies == {b \in Bufs : buf[b].blockno = n /\ buf[b].valid} IN
  IF copies = {} THEN disk[n] ELSE buf[CHOOSE b \in copies : TRUE].data

User(n) ==
  LET users == {p \in Procs : want[p] = n /\ pc[p] \in {"use", "iderw", "iosleep", "iowoken"}
                                /\ buf[mine[p]].valid} IN
  IF users = {} THEN Nobody ELSE CHOOSE p \in users : TRUE

Store == INSTANCE BlockStore WITH
  mem <- [n \in Blocks |-> Content(n)], user <- [n \in Blocks |-> User(n)]

StoresBlocks == Store!Spec

\* No wakeup is lost: who sleeps on the lock of a buffer has a holder to wake it,
\* who sleeps in iderw() has its buffer in the driver's queue, and the disk works
\* on the head of the queue.
SleepersHaveReason ==
  /\ \A p \in Procs :
       /\ pc[p] = "locksleep" => owner[mine[p]] # Nobody
       /\ pc[p] = "iosleep" => mine[p] \in Range(idequeue)
  /\ idequeue # <<>> => cmd.op # "none" /\ cmd.block = buf[Head(idequeue)].blockno
=============================================================================
