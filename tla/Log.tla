-------------------------------- MODULE Log --------------------------------
(***************************************************************************)
(* The redo log of the xv6 file system (my-xv6-public/log.c), with power   *)
(* failures.  Each action is either a section of code under log.lock or    *)
(* one synchronous disk write; a crash may fall between any two of them,   *)
(* those of recovery included.                                             *)
(*                                                                         *)
(* The buffer cache appears as "cache", the contents bread() returns: a    *)
(* buffer that is not pinned by B_DIRTY may be evicted and read back.      *)
(***************************************************************************)
EXTENDS Integers, Sequences, FiniteSets

CONSTANTS
  Procs,        \* processes that make file-system calls
  Blocks,       \* home locations of the file system's blocks
  Values,       \* what a block may contain
  Zero,         \* what mkfs fills a block with
  MAXOPBLOCKS,  \* blocks begin_op() reserves for a system call
  LOGSIZE,      \* entries of struct logheader
  NLOG,         \* sb.nlog: blocks of the on-disk log, its header included
  OpBlocks      \* distinct blocks a system call really writes, at most

ASSUME LogConstants ==
  /\ IsFiniteSet(Procs)
  /\ IsFiniteSet(Blocks)
  /\ Zero \in Values
  /\ MAXOPBLOCKS \in Nat \ {0}
  /\ LOGSIZE \in Nat
  /\ MAXOPBLOCKS <= LOGSIZE
  /\ NLOG \in Nat \ {0}
  /\ OpBlocks \in 1 .. MAXOPBLOCKS

VARIABLES
  disk, dlog, dhead,        \* on disk: home blocks, log blocks, log header
  cache,                    \* what bread() returns for a home block
  lh,                       \* log.lh: block numbers logged so far
  outstanding, committing,  \* log.outstanding, log.committing
  tail,                     \* loop index of write_log() and install_trans()
  pc,                       \* where each process is
  held,                     \* the buffer a process is modifying
  wrote,                    \* blocks written since the process's begin_op()
  boot,                     \* progress of recover_from_log(), then "up"
  panicked                  \* panic() was called

durable == <<disk, dlog, dhead>>
vars == <<disk, dlog, dhead, cache, lh, outstanding, committing, tail, pc,
          held, wrote, boot, panicked>>

LogSlots == 1 .. (NLOG - 1)
InOp == {"op", "check", "append"}
InCommit == {"write_log", "write_head", "install", "clear", "finish"}
PcValues == {"idle", "asleep", "woken"} \cup InOp \cup InCommit

\* The processes between begin_op() and end_op().
Active == {p \in Procs : pc[p] \in InOp}

\* The blocks that the list of block numbers h names.
Logged(h) == {h[i] : i \in 1 .. Len(h)}

\* The contents of the home blocks once the log that is on disk has been
\* installed: what a reboot in this state recovers.
Recovered ==
  [b \in Blocks |-> IF b \in Logged(dhead)
                    THEN dlog[CHOOSE i \in 1 .. Len(dhead) : dhead[i] = b]
                    ELSE disk[b]]

Up == boot = "up" /\ ~panicked

-----------------------------------------------------------------------------
(* Boot and recovery *)

\* mkfs leaves an empty log; the first process to be scheduled calls
\* initlog(), which recovers before any other file-system call.
Init ==
  /\ disk \in [Blocks -> Values]
  /\ dlog = [i \in LogSlots |-> Zero]
  /\ dhead = <<>>
  /\ cache = disk
  /\ lh = <<>>
  /\ outstanding = 0
  /\ committing = FALSE
  /\ tail = 0
  /\ pc = [p \in Procs |-> "idle"]
  /\ held = [p \in Procs |-> {}]
  /\ wrote = [p \in Procs |-> {}]
  /\ boot = "read_head"
  /\ panicked = FALSE

\* A power failure (or a reboot after a panic): memory is lost.
Crash ==
  /\ cache' = disk
  /\ lh' = <<>>
  /\ outstanding' = 0
  /\ committing' = FALSE
  /\ tail' = 0
  /\ pc' = [p \in Procs |-> "idle"]
  /\ held' = [p \in Procs |-> {}]
  /\ wrote' = [p \in Procs |-> {}]
  /\ boot' = "read_head"
  /\ panicked' = FALSE
  /\ UNCHANGED durable

\* read_head(): the header on disk becomes the header in memory.
ReadHead ==
  /\ boot = "read_head"
  /\ lh' = dhead
  /\ tail' = 0
  /\ boot' = IF dhead = <<>> THEN "clear" ELSE "install"
  /\ UNCHANGED <<durable, cache, outstanding, committing, pc, held, wrote,
                 panicked>>

\* Faulty variant: the buffer is filled but not written to its home block.
InstallBlockUnwritten ==
  /\ cache' = [cache EXCEPT ![lh[tail + 1]] = dlog[tail + 1]]
  /\ tail' = tail + 1
  /\ UNCHANGED disk

\* One iteration of install_trans(): a log block is copied home.
InstallBlock ==
  /\ disk' = [disk EXCEPT ![lh[tail + 1]] = dlog[tail + 1]]
  /\ cache' = [cache EXCEPT ![lh[tail + 1]] = dlog[tail + 1]]
  /\ tail' = tail + 1

\* "log.lh.n = 0; write_head()": the transaction is erased from the log.
ClearHead ==
  /\ lh' = <<>>
  /\ tail' = 0
  /\ dhead' = <<>>

RecoverInstall ==
  /\ boot = "install"
  /\ InstallBlock
  /\ boot' = IF tail + 1 = Len(lh) THEN "clear" ELSE "install"
  /\ UNCHANGED <<dlog, dhead, lh, outstanding, committing, pc, held, wrote,
                 panicked>>

RecoverClear ==
  /\ boot = "clear"
  /\ ClearHead
  /\ boot' = "up"
  /\ UNCHANGED <<disk, dlog, cache, outstanding, committing, pc, held, wrote,
                 panicked>>

-----------------------------------------------------------------------------
(* System calls *)

\* begin_op()'s test for log space.
NoSpace == Len(lh) + (outstanding + 1) * MAXOPBLOCKS > LOGSIZE

\* Faulty variant: begin_op() does not wait for a commit in progress.
MustWaitForSpaceOnly == NoSpace

\* begin_op()'s two reasons to sleep.
MustWait == committing \/ NoSpace

\* begin_op(), admitted.
BeginOp(p) ==
  /\ Up
  /\ pc[p] \in {"idle", "woken"}
  /\ ~MustWait
  /\ outstanding' = outstanding + 1
  /\ pc' = [pc EXCEPT ![p] = "op"]
  /\ UNCHANGED <<durable, cache, lh, committing, tail, held, wrote, boot,
                 panicked>>

\* begin_op(), sleeping on &log until a commit or another end_op().
BeginOpSleep(p) ==
  /\ Up
  /\ pc[p] \in {"idle", "woken"}
  /\ MustWait
  /\ pc' = [pc EXCEPT ![p] = "asleep"]
  /\ UNCHANGED <<durable, cache, lh, outstanding, committing, tail, held,
                 wrote, boot, panicked>>

\* bp = bread(...); modify bp->data: the buffer stays locked until brelse().
Modify(p, b, v) ==
  /\ Up
  /\ pc[p] = "op"
  /\ \A q \in Procs : b \notin held[q]
  /\ Cardinality(wrote[p] \cup {b}) <= OpBlocks
  /\ cache' = [cache EXCEPT ![b] = v]
  /\ held' = [held EXCEPT ![p] = {b}]
  /\ pc' = [pc EXCEPT ![p] = "check"]
  /\ UNCHANGED <<durable, lh, outstanding, committing, tail, wrote, boot,
                 panicked>>

\* log_write()'s two tests, made before it takes log.lock.
LogWriteCheck(p) ==
  /\ Up
  /\ pc[p] = "check"
  /\ IF Len(lh) >= LOGSIZE \/ Len(lh) >= NLOG - 1 \/ outstanding < 1
     THEN panicked' = TRUE /\ UNCHANGED pc
     ELSE pc' = [pc EXCEPT ![p] = "append"] /\ UNCHANGED panicked
  /\ UNCHANGED <<durable, cache, lh, outstanding, committing, tail, held,
                 wrote, boot>>

\* The rest of log_write(), under log.lock, and the caller's brelse(): a block
\* that is already in the log is absorbed.
LogWrite(p) ==
  /\ Up
  /\ pc[p] = "append"
  /\ \E b \in held[p] :
       /\ lh' = IF b \in Logged(lh) THEN lh ELSE Append(lh, b)
       /\ wrote' = [wrote EXCEPT ![p] = @ \cup {b}]
  /\ held' = [held EXCEPT ![p] = {}]
  /\ pc' = [pc EXCEPT ![p] = "op"]
  /\ UNCHANGED <<durable, cache, outstanding, committing, tail, boot, panicked>>

\* Faulty variant: the sleepers are forgotten.
WakeupNobody(f) == f

\* wakeup(&log): every process asleep in begin_op() tests again.
Wakeup(f) == [q \in Procs |-> IF f[q] = "asleep" THEN "woken" ELSE f[q]]

\* Faulty variant: the header is written before the log blocks.
CommitEntryHeadFirst == IF lh = <<>> THEN "finish" ELSE "write_head"

\* commit() does nothing for an empty log, and starts with write_log().
CommitEntry == IF lh = <<>> THEN "finish" ELSE "write_log"

\* end_op() up to the release of log.lock.
EndOp(p) ==
  /\ Up
  /\ pc[p] = "op"
  /\ outstanding' = outstanding - 1
  /\ panicked' = committing
  /\ IF outstanding = 1
     THEN /\ committing' = TRUE
          /\ pc' = [pc EXCEPT ![p] = CommitEntry]
     ELSE /\ pc' = Wakeup([pc EXCEPT ![p] = "idle"])
          /\ UNCHANGED committing
  /\ wrote' = [wrote EXCEPT ![p] = {}]
  /\ UNCHANGED <<durable, cache, lh, tail, held, boot>>

-----------------------------------------------------------------------------
(* commit() *)

\* One iteration of write_log(): a modified block is copied to the log.
WriteLog(p) ==
  /\ Up
  /\ pc[p] = "write_log"
  /\ dlog' = [dlog EXCEPT ![tail + 1] = cache[lh[tail + 1]]]
  /\ tail' = tail + 1
  /\ pc' = IF tail + 1 = Len(lh) THEN [pc EXCEPT ![p] = "write_head"] ELSE pc
  /\ UNCHANGED <<disk, dhead, cache, lh, outstanding, committing, held, wrote,
                 boot, panicked>>

\* write_head(): the transaction commits.
WriteHead(p) ==
  /\ Up
  /\ pc[p] = "write_head"
  /\ dhead' = lh
  /\ tail' = 0
  /\ pc' = [pc EXCEPT ![p] = "install"]
  /\ UNCHANGED <<disk, dlog, cache, lh, outstanding, committing, held, wrote,
                 boot, panicked>>

InstallTrans(p) ==
  /\ Up
  /\ pc[p] = "install"
  /\ InstallBlock
  /\ pc' = IF tail + 1 = Len(lh) THEN [pc EXCEPT ![p] = "clear"] ELSE pc
  /\ UNCHANGED <<dlog, dhead, lh, outstanding, committing, held, wrote, boot,
                 panicked>>

ClearLog(p) ==
  /\ Up
  /\ pc[p] = "clear"
  /\ ClearHead
  /\ pc' = [pc EXCEPT ![p] = "finish"]
  /\ UNCHANGED <<disk, dlog, cache, outstanding, committing, held, wrote, boot,
                 panicked>>

\* The end of end_op(): committing is over and sleepers are woken.
FinishCommit(p) ==
  /\ Up
  /\ pc[p] = "finish"
  /\ committing' = FALSE
  /\ pc' = Wakeup([pc EXCEPT ![p] = "idle"])
  /\ UNCHANGED <<durable, cache, lh, outstanding, tail, held, wrote, boot,
                 panicked>>

-----------------------------------------------------------------------------

Commit(p) ==
  WriteLog(p) \/ WriteHead(p) \/ InstallTrans(p) \/ ClearLog(p) \/ FinishCommit(p)

Recover == ReadHead \/ RecoverInstall \/ RecoverClear

Next ==
  \/ Crash
  \/ Recover
  \/ \E p \in Procs :
       \/ BeginOp(p) \/ BeginOpSleep(p) \/ LogWriteCheck(p) \/ LogWrite(p)
       \/ EndOp(p) \/ Commit(p)
  \/ \E p \in Procs, b \in Blocks, v \in Values : Modify(p, b, v)

Spec == Init /\ [][Next]_vars

\* A system call makes finitely many log writes, so it comes to its end_op();
\* code that holds log.lock or waits for the disk, and a process that
\* wakeup() has made runnable, go on.  Nobody has to start a call, and power
\* need not fail.
Fairness ==
  /\ WF_vars(Recover)
  /\ \A p \in Procs :
       /\ WF_vars(LogWriteCheck(p) \/ LogWrite(p) \/ Commit(p))
       /\ WF_vars(pc[p] = "woken" /\ (BeginOp(p) \/ BeginOpSleep(p)))
       /\ SF_vars(EndOp(p))

FairSpec == Spec /\ Fairness

-----------------------------------------------------------------------------
(* Properties *)

TypeOK ==
  /\ disk \in [Blocks -> Values]
  /\ dlog \in [LogSlots -> Values]
  /\ dhead \in Seq(Blocks)
  /\ cache \in [Blocks -> Values]
  /\ lh \in Seq(Blocks)
  /\ outstanding \in Nat
  /\ committing \in BOOLEAN
  /\ tail \in 0 .. Len(lh)
  /\ pc \in [Procs -> PcValues]
  /\ held \in [Procs -> SUBSET Blocks]
  /\ wrote \in [Procs -> SUBSET Blocks]
  /\ boot \in {"read_head", "install", "clear", "up"}
  /\ panicked \in BOOLEAN

\* Calls that stay far enough below their reservation for the log on disk.
OpsLeaveRoom ==
  /\ OpBlocks < MAXOPBLOCKS
  /\ LOGSIZE - (MAXOPBLOCKS - OpBlocks) < NLOG - 1

\* No path of log.c reaches a panic(): log_write() never finds the log full,
\* although begin_op() reserved the space earlier and log_write() tests it
\* without the lock, and end_op() never finds a commit in progress.
NoPanic == ~panicked

\* The transaction always fits in the blocks that mkfs gave to the log, so
\* write_log() never writes past its end.
LogFits == Len(lh) <= NLOG - 1 /\ Len(dhead) <= NLOG - 1

\* "Only commits when there are no FS system calls active": while one process
\* is in commit() no call is between begin_op() and end_op(), no buffer is
\* being modified and nobody else is in commit().
CommitIsQuiet ==
  \A p \in Procs :
    pc[p] \in InCommit =>
      /\ committing
      /\ outstanding = 0
      /\ \A q \in Procs \ {p} : pc[q] \notin InOp \cup InCommit
      /\ \A q \in Procs : held[q] = {}

\* No wakeup is lost: whoever sleeps in begin_op() still has a reason to, so
\* a later commit or end_op() will wake it.
SleepersHaveReason ==
  (\E p \in Procs : pc[p] = "asleep") => committing \/ (NoSpace /\ outstanding > 0)

\* Once the last end_op() has returned, everything that the calls wrote is on
\* the home blocks and survives a crash.
DurableWhenQuiet ==
  boot = "up" /\ ~committing /\ outstanding = 0 =>
    cache = disk /\ Recovered = disk

\* What a crash would recover changes only in commit()'s first write_head(),
\* and then to the contents all the finished calls produced ("the true point
\* at which the current transaction commits").
CommitPoint ==
  [][Recovered' # Recovered =>
       (\E p \in Procs : pc[p] = "write_head") /\ Recovered' = cache]_vars

\* The log makes a disk with atomic, all-or-nothing transactions.  While the
\* machine is recovering, what the file system will see is what it recovers.
Atomic == INSTANCE AtomicDisk WITH
  mem <- IF boot = "up" THEN cache ELSE Recovered,
  stable <- Recovered,
  active <- Active

AtomicSpec == Atomic!Spec

\* A process that sleeps in begin_op() is woken to test again (or the machine
\* crashes).
SleeperWakes == \A p \in Procs : (pc[p] = "asleep") ~> (pc[p] # "asleep")

=============================================================================
