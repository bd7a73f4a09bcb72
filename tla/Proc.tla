------------------------------- MODULE Proc -------------------------------
(***************************************************************************)
(* The process table of xv6 (my-xv6-public/proc.c): fork, exit, wait, kill, *)
(* sleep and wakeup, and the per-CPU scheduler, with the clock interrupt   *)
(* and sys_sleep() (trap.c, sysproc.c), the callers of sleep() with a lock *)
(* of their own.                                                           *)
(*                                                                         *)
(* ptable.lock is passed from a process to the scheduler and back across   *)
(* swtch().  A section of code that takes the lock and gives it back is    *)
(* one action; one that goes through sched() is two, so that between the   *)
(* new state and the switch of stacks the other CPUs take steps.           *)
(***************************************************************************)
EXTENDS Integers, FiniteSets, FiniteSetsExt

CONSTANTS
  NPROC,        \* slots of the process table
  NCPU,         \* processors; clock ticks are counted by CPU 0
  MaxPid,       \* bound: process identifiers given out
  Wrap,         \* modulus of the unsigned clock
  SleepTimes    \* arguments of sys_sleep()

ASSUME ProcConstants ==
  /\ NPROC \in Nat \ {0}
  /\ NCPU \in Nat \ {0}
  /\ MaxPid \in Nat \ {0}
  /\ Wrap \in Nat \ {0}
  /\ SleepTimes \subseteq 0 .. (Wrap - 1)

VARIABLES
  \* ptable.proc[]: the fields of struct proc
  state, pid, parent, killed, chan, kstack,
  nextpid,
  \* where the kernel thread of a process is, and its local variables
  pc, np, ticks0, wait_n,
  preempted,    \* the thread is in yield(), called by a clock interrupt at pc
  \* locks: the CPU that holds each of them
  ptlock, tickslock,
  ticks,
  \* per CPU: c->proc, the stack it executes on, the scheduler's loop index
  cproc, on, scan,
  intr,         \* CPU 0 in the clock interrupt: "off", "wakeup" or "yield"
  panicked      \* the CPUs that have stopped in panic()

table == <<state, pid, parent, killed, chan, kstack, nextpid>>
threads == <<pc, np, ticks0, wait_n, preempted>>
clock == <<tickslock, ticks, intr>>
cpus == <<cproc, on, scan>>
vars == <<table, threads, ptlock, clock, cpus, panicked>>

Slots == 1 .. NPROC
CPUs == 0 .. (NCPU - 1)
None == -1          \* no CPU
NoProc == 0         \* a null struct proc pointer; on[c]: the scheduler's stack
initproc == 1
TicksChan == NPROC + 1      \* &ticks; a struct proc pointer is its slot

\* Where a thread may be when it holds no lock and interrupts are on.
Interruptible == {"user", "kstack", "copy", "ready", "exit", "tick_check"}
PcValues == Interruptible \cup {"forkret", "wait", "tick_sleep", "tick_wait", "zombie"}

\* The process on c executes the code at one of the locations L.
At(c, L) ==
  /\ c \notin panicked
  /\ on[c] # NoProc
  /\ state[on[c]] = "RUNNING"
  /\ ~preempted[on[c]]
  /\ pc[on[c]] \in L
  /\ c = 0 => intr = "off"

\* A system call starts: trap() has found the process not killed.
Syscall(c) == At(c, {"user"}) /\ ~killed[on[c]]

\* release(&ptable.lock) by CPU c, which panics when another one holds it.
Release(c) ==
  /\ ptlock' = None
  /\ panicked' = IF ptlock = c THEN panicked ELSE panicked \cup {c}

\* Faulty variant: the lock is released before the stack is left.
ReleaseBeforeSwitch(c) == ptlock' = None

\* The lock a process takes to change its state is released by the scheduler
\* or by the process that runs next.
HoldAcrossSwitch(c) == ptlock' = c

\* The process on c goes on at location l.
Goto(c, l) == pc' = [pc EXCEPT ![on[c]] = l]

\* wakeup1(): every process that sleeps on channel ch.
Wakeup1(st, ch) ==
  [p \in Slots |-> IF st[p] = "SLEEPING" /\ chan[p] = ch THEN "RUNNABLE" ELSE st[p]]

\* userinit(), and the CPUs enter scheduler().
Init ==
  /\ state = [p \in Slots |-> IF p = initproc THEN "RUNNABLE" ELSE "UNUSED"]
  /\ pid = [p \in Slots |-> IF p = initproc THEN 1 ELSE 0]
  /\ parent = [p \in Slots |-> NoProc]
  /\ killed = [p \in Slots |-> FALSE]
  /\ chan = [p \in Slots |-> 0]
  /\ kstack = [p \in Slots |-> p = initproc]
  /\ nextpid = 2
  /\ pc = [p \in Slots |-> "forkret"]
  /\ np = [p \in Slots |-> NoProc]
  /\ ticks0 = [p \in Slots |-> 0]
  /\ wait_n = [p \in Slots |-> 0]
  /\ preempted = [p \in Slots |-> FALSE]
  /\ ptlock = None
  /\ tickslock = None
  /\ ticks = 0
  /\ cproc = [c \in CPUs |-> NoProc]
  /\ on = [c \in CPUs |-> NoProc]
  /\ scan = [c \in CPUs |-> 1]
  /\ intr = "off"
  /\ panicked = {}

-----------------------------------------------------------------------------
(* The scheduler *)

\* Faulty variant: the loop ends before the last slot.
RunnableButLast(c) ==
  {p \in Slots : p >= scan[c] /\ p < NPROC /\ state[p] = "RUNNABLE"}

\* What the loop of scheduler() on c has still to run.
Runnable(c) == {p \in Slots : p >= scan[c] /\ state[p] = "RUNNABLE"}

\* scheduler(), up to the next swtch() or the end of its loop: it takes
\* ptable.lock at the start of the loop and keeps it until the end.
Scheduler(c) ==
  /\ c \notin panicked
  /\ on[c] = NoProc
  /\ c = 0 => intr = "off"
  /\ ptlock = c \/ (ptlock = None /\ scan[c] = 1)
  /\ IF Runnable(c) # {}
     THEN LET p == Min(Runnable(c)) IN
          /\ ptlock' = c
          /\ state' = [state EXCEPT ![p] = "RUNNING"]
          /\ cproc' = [cproc EXCEPT ![c] = p]
          /\ on' = [on EXCEPT ![c] = p]
          /\ scan' = [scan EXCEPT ![c] = p + 1]
     ELSE /\ ptlock' = None
          /\ scan' = [scan EXCEPT ![c] = 1]
          /\ UNCHANGED <<state, cproc, on>>
  /\ UNCHANGED <<pid, parent, killed, chan, kstack, nextpid, threads, clock,
                 panicked>>

\* The tests of sched(): ptable.lock is held and is the only lock, and the
\* state has been changed.
SchedOK(c) ==
  /\ ptlock = c
  /\ tickslock # c
  /\ cproc[c] # NoProc
  /\ state[cproc[c]] # "RUNNING"

\* sched(): the CPU goes back to the scheduler's stack, which clears c->proc.
Sched(c) ==
  /\ c \notin panicked
  /\ on[c] # NoProc
  /\ state[on[c]] # "RUNNING"
  /\ panicked' = IF SchedOK(c) THEN panicked ELSE panicked \cup {c}
  /\ on' = [on EXCEPT ![c] = NoProc]
  /\ cproc' = [cproc EXCEPT ![c] = NoProc]
  /\ UNCHANGED <<table, threads, ptlock, clock, scan>>

\* The first schedule of a new process: forkret() releases ptable.lock.
Forkret(c) ==
  /\ At(c, {"forkret"})
  /\ Release(c)
  /\ Goto(c, "user")
  /\ UNCHANGED <<table, np, ticks0, wait_n, preempted, clock, cpus>>

-----------------------------------------------------------------------------
(* The clock interrupt *)

\* Faulty variant: the tick is counted without waiting for tickslock.
TickUnlocked == At(0, Interruptible) \/ (on[0] = NoProc /\ ptlock # 0)

\* CPU 0 is between two rounds of the scheduler or in code that can be
\* interrupted, and gets tickslock.
TickPossible ==
  /\ tickslock = None
  /\ At(0, Interruptible) \/ (on[0] = NoProc /\ ptlock # 0)

\* ticks++ on an unsigned counter.
NextTick == (ticks + 1) % Wrap

\* CPU 0 counts a tick.
ClockTick ==
  /\ 0 \notin panicked
  /\ intr = "off"
  /\ TickPossible
  /\ tickslock' = 0
  /\ ticks' = NextTick
  /\ intr' = "wakeup"
  /\ UNCHANGED <<table, threads, ptlock, cpus, panicked>>

\* wakeup(&ticks), with tickslock held.
ClockWakeup ==
  /\ 0 \notin panicked
  /\ intr = "wakeup"
  /\ ptlock = None
  /\ state' = Wakeup1(state, TicksChan)
  /\ tickslock' = None
  /\ intr' = IF on[0] = NoProc THEN "off" ELSE "yield"
  /\ UNCHANGED <<pid, parent, killed, chan, kstack, nextpid, threads, ptlock, ticks,
                 cpus, panicked>>

\* The end of trap() for a clock interrupt: a killed process exits if it was in
\* user space, and otherwise the process gives up the CPU in yield().
Yield(c) ==
  /\ c \notin panicked
  /\ IF c = 0 THEN intr = "yield" ELSE At(c, Interruptible)
  /\ LET p == on[c] IN
     IF killed[p] /\ pc[p] = "user"
     THEN /\ Goto(c, "exit")
          /\ UNCHANGED <<state, preempted, ptlock>>
     ELSE /\ ptlock = None
          /\ HoldAcrossSwitch(c)
          /\ state' = [state EXCEPT ![p] = "RUNNABLE"]
          /\ preempted' = [preempted EXCEPT ![p] = TRUE]
          /\ UNCHANGED pc
  /\ intr' = IF c = 0 THEN "off" ELSE intr
  /\ UNCHANGED <<pid, parent, killed, chan, kstack, nextpid, np, ticks0, wait_n,
                 tickslock, ticks, cpus, panicked>>

\* The end of yield(), when the process runs again.
Resume(c) ==
  /\ c \notin panicked
  /\ on[c] # NoProc
  /\ state[on[c]] = "RUNNING"
  /\ preempted[on[c]]
  /\ Release(c)
  /\ preempted' = [preempted EXCEPT ![on[c]] = FALSE]
  /\ UNCHANGED <<table, pc, np, ticks0, wait_n, clock, cpus>>

-----------------------------------------------------------------------------
(* System calls *)

\* allocproc() in fork(), up to the release of ptable.lock.
AllocProc(c) ==
  /\ Syscall(c)
  /\ ptlock = None
  /\ nextpid <= MaxPid
  /\ \E p \in Slots : state[p] = "UNUSED"
  /\ LET q == Min({p \in Slots : state[p] = "UNUSED"}) IN
     /\ state' = [state EXCEPT ![q] = "EMBRYO"]
     /\ pid' = [pid EXCEPT ![q] = nextpid]
     /\ np' = [np EXCEPT ![on[c]] = q]
  /\ nextpid' = nextpid + 1
  /\ Goto(c, "kstack")
  /\ UNCHANGED <<parent, killed, chan, kstack, ticks0, wait_n, preempted, ptlock,
                 clock, cpus, panicked>>

\* The rest of allocproc(): the kernel stack, with a context that starts in
\* forkret().
AllocStack(c) ==
  /\ At(c, {"kstack"})
  /\ kstack' = [kstack EXCEPT ![np[on[c]]] = TRUE]
  /\ pc' = [pc EXCEPT ![on[c]] = "copy", ![np[on[c]]] = "forkret"]
  /\ UNCHANGED <<state, pid, parent, killed, chan, nextpid, np, ticks0, wait_n,
                 preempted, ptlock, clock, cpus, panicked>>

\* kalloc() in allocproc() or copyuvm() in fork() fails: the slot is given
\* back, without ptable.lock, and fork() returns -1.
ForkFail(c) ==
  /\ At(c, {"kstack", "copy"})
  /\ kstack' = [kstack EXCEPT ![np[on[c]]] = FALSE]
  /\ state' = [state EXCEPT ![np[on[c]]] = "UNUSED"]
  /\ np' = [np EXCEPT ![on[c]] = NoProc]
  /\ Goto(c, "user")
  /\ UNCHANGED <<pid, parent, killed, chan, nextpid, ticks0, wait_n, preempted,
                 ptlock, clock, cpus, panicked>>

\* fork() copies the parent into the child, without ptable.lock.
ForkCopy(c) ==
  /\ At(c, {"copy"})
  /\ parent' = [parent EXCEPT ![np[on[c]]] = on[c]]
  /\ Goto(c, "ready")
  /\ UNCHANGED <<state, pid, killed, chan, kstack, nextpid, np, ticks0, wait_n,
                 preempted, ptlock, clock, cpus, panicked>>

\* The end of fork(), under ptable.lock.
ForkReady(c) ==
  /\ At(c, {"ready"})
  /\ ptlock = None
  /\ state' = [state EXCEPT ![np[on[c]]] = "RUNNABLE"]
  /\ np' = [np EXCEPT ![on[c]] = NoProc]
  /\ Goto(c, "user")
  /\ UNCHANGED <<pid, parent, killed, chan, kstack, nextpid, ticks0, wait_n,
                 preempted, ptlock, clock, cpus, panicked>>

\* exit(), called by the process or by trap() for a killed one, closes files.
\* initproc does not exit (exit() would panic).
Exit(c) ==
  /\ At(c, {"user"})
  /\ on[c] # initproc
  /\ Goto(c, "exit")
  /\ UNCHANGED <<table, np, ticks0, wait_n, preempted, ptlock, clock, cpus, panicked>>

\* Faulty variant: children keep the parent that exits.
KeepParents(p) == parent

\* exit() passes abandoned children to initproc.
PassToInit(p) == [q \in Slots |-> IF parent[q] = p THEN initproc ELSE parent[q]]

\* Faulty variant: nobody is told.
WakeNobody(p) == state

\* exit() wakes its parent, and initproc if it inherits a zombie.
ExitWakeups(p) ==
  IF \E q \in Slots : parent[q] = p /\ state[q] = "ZOMBIE"
  THEN Wakeup1(Wakeup1(state, parent[p]), initproc)
  ELSE Wakeup1(state, parent[p])

\* Faulty variant: ptable.lock is released before the zombie leaves its stack.
ExitUnlocked(c) ==
  /\ At(c, {"exit"})
  /\ ptlock = None
  /\ parent' = PassToInit(on[c])
  /\ state' = [ExitWakeups(on[c]) EXCEPT ![on[c]] = "ZOMBIE"]
  /\ Goto(c, "zombie")
  /\ UNCHANGED <<pid, killed, chan, kstack, nextpid, np, ticks0, wait_n, preempted,
                 ptlock, clock, cpus, panicked>>

\* The rest of exit(), up to sched(): the process is a zombie that still runs on
\* its stack.
ExitZombie(c) ==
  /\ At(c, {"exit"})
  /\ ptlock = None
  /\ parent' = PassToInit(on[c])
  /\ state' = [ExitWakeups(on[c]) EXCEPT ![on[c]] = "ZOMBIE"]
  /\ HoldAcrossSwitch(c)
  /\ Goto(c, "zombie")
  /\ UNCHANGED <<pid, killed, chan, kstack, nextpid, np, ticks0, wait_n, preempted,
                 clock, cpus, panicked>>

\* One round of the loop in wait(), under ptable.lock: a zombie child is freed,
\* or there is nothing to wait for, or the process sleeps on itself.
WaitLoop(c) ==
  LET p == on[c]
      kids == {q \in Slots : parent[q] = p}
      zombies == {q \in kids : state[q] = "ZOMBIE"}
  IN  IF zombies # {}
      THEN LET q == Min(zombies) IN
           /\ kstack' = [kstack EXCEPT ![q] = FALSE]
           /\ pid' = [pid EXCEPT ![q] = 0]
           /\ parent' = [parent EXCEPT ![q] = NoProc]
           /\ killed' = [killed EXCEPT ![q] = FALSE]
           /\ state' = [state EXCEPT ![q] = "UNUSED"]
           /\ chan' = [chan EXCEPT ![p] = 0]
           /\ ptlock' = None
           /\ Goto(c, "user")
      ELSE /\ IF kids = {} \/ killed[p]
              THEN /\ chan' = [chan EXCEPT ![p] = 0]
                   /\ ptlock' = None
                   /\ Goto(c, "user")
                   /\ UNCHANGED state
              ELSE /\ chan' = [chan EXCEPT ![p] = p]
                   /\ state' = [state EXCEPT ![p] = "SLEEPING"]
                   /\ HoldAcrossSwitch(c)
                   /\ Goto(c, "wait")
           /\ UNCHANGED <<pid, parent, killed, kstack>>

\* wait(), when it is called and each time it is woken; the scheduler then
\* hands over ptable.lock.
Wait(c) ==
  /\ \/ Syscall(c) /\ ptlock = None
     \/ At(c, {"wait"})
  /\ WaitLoop(c)
  /\ UNCHANGED <<nextpid, np, ticks0, wait_n, preempted, clock, cpus, panicked>>

\* Faulty variant: a sleeping process is marked but not woken.
MarkOnly(st) == st

\* "Wake process from sleep if necessary."
Unsleep(st) == IF st = "SLEEPING" THEN "RUNNABLE" ELSE st

\* kill(i): the first slot with that pid, in use or not, is marked and woken. The code
\* takes the pid of initproc too, whose exit() then panics: that no program does this
\* is assumed.
Kill(c, i) ==
  /\ Syscall(c)
  /\ ptlock = None
  /\ i # pid[initproc]
  /\ \E p \in Slots : pid[p] = i
  /\ LET p == Min({q \in Slots : pid[q] = i}) IN
     /\ killed' = [killed EXCEPT ![p] = TRUE]
     /\ state' = [state EXCEPT ![p] = Unsleep(@)]
  /\ UNCHANGED <<pid, parent, chan, kstack, nextpid, threads, ptlock, clock, cpus,
                 panicked>>

\* The loop test of sys_sleep(), under tickslock, for a sleep of n since t0 (the
\* local variables are forgotten when it returns).
TickLoop(c, t0, n) ==
  LET again == (ticks - t0) % Wrap < n /\ ~killed[on[c]] IN
  /\ tickslock' = IF again THEN c ELSE None
  /\ Goto(c, IF again THEN "tick_sleep" ELSE "user")
  /\ ticks0' = [ticks0 EXCEPT ![on[c]] = IF again THEN t0 ELSE 0]
  /\ wait_n' = [wait_n EXCEPT ![on[c]] = IF again THEN n ELSE 0]

\* sys_sleep(n).
SysSleep(c, n) ==
  /\ Syscall(c)
  /\ tickslock = None
  /\ TickLoop(c, ticks, n)
  /\ UNCHANGED <<table, np, preempted, ptlock, ticks, intr, cpus, panicked>>

\* sleep(&ticks, &tickslock) up to sched(): ptable.lock is taken before
\* tickslock is released.
TickSleep(c) ==
  /\ At(c, {"tick_sleep"})
  /\ ptlock = None
  /\ HoldAcrossSwitch(c)
  /\ tickslock' = None
  /\ chan' = [chan EXCEPT ![on[c]] = TicksChan]
  /\ state' = [state EXCEPT ![on[c]] = "SLEEPING"]
  /\ Goto(c, "tick_wait")
  /\ UNCHANGED <<pid, parent, killed, kstack, nextpid, np, ticks0, wait_n, preempted,
                 ticks, intr, cpus, panicked>>

\* The end of sleep(), up to the release of ptable.lock.
TickWoken(c) ==
  /\ At(c, {"tick_wait"})
  /\ Release(c)
  /\ chan' = [chan EXCEPT ![on[c]] = 0]
  /\ Goto(c, "tick_check")
  /\ UNCHANGED <<state, pid, parent, killed, kstack, nextpid, np, ticks0, wait_n,
                 preempted, clock, cpus>>

\* sleep() takes tickslock back and sys_sleep() tests again.
TickAgain(c) ==
  /\ At(c, {"tick_check"})
  /\ tickslock = None
  /\ TickLoop(c, ticks0[on[c]], wait_n[on[c]])
  /\ UNCHANGED <<table, np, preempted, ptlock, ticks, intr, cpus, panicked>>

-----------------------------------------------------------------------------

\* The ends of a switch to a process or away from it; ptable.lock is held.
Switch(c) == Sched(c) \/ Forkret(c) \/ Resume(c)

\* The code of a system call that has been entered.
Kernel(c) ==
  \/ AllocStack(c) \/ ForkCopy(c) \/ ForkFail(c) \/ ForkReady(c) \/ ExitZombie(c)
  \/ At(c, {"wait"}) /\ Wait(c)
  \/ TickSleep(c) \/ TickWoken(c) \/ TickAgain(c)

\* What a process asks for.
User(c) ==
  \/ AllocProc(c) \/ Exit(c)
  \/ Syscall(c) /\ Wait(c)
  \/ \E i \in 0 .. MaxPid : Kill(c, i)
  \/ \E n \in SleepTimes : SysSleep(c, n)

Next ==
  \/ ClockTick \/ ClockWakeup
  \/ \E c \in CPUs : Scheduler(c) \/ Switch(c) \/ Yield(c) \/ Kernel(c) \/ User(c)

Spec == Init /\ [][Next]_vars

\* A CPU that spins on a lock that is released again and again gets it, clock
\* interrupts keep coming, and a process does not spend every one of its time
\* slices in interrupts.  initproc calls wait() again and again (init.c).
Fairness ==
  /\ WF_vars(ClockTick) /\ SF_vars(ClockWakeup)
  /\ \A c \in CPUs : SF_vars(Scheduler(c) \/ Switch(c) \/ Yield(c))
  /\ \A p \in Slots : SF_vars(\E c \in CPUs : on[c] = p /\ Kernel(c))
  /\ SF_vars(\E c \in CPUs : on[c] = initproc /\ Syscall(c) /\ Wait(c))

FairSpec == Spec /\ Fairness

-----------------------------------------------------------------------------
(* Properties *)

TypeOK ==
  /\ state \in [Slots -> {"UNUSED", "EMBRYO", "SLEEPING", "RUNNABLE", "RUNNING", "ZOMBIE"}]
  /\ pid \in [Slots -> 0 .. MaxPid]
  /\ parent \in [Slots -> Slots \cup {NoProc}]
  /\ killed \in [Slots -> BOOLEAN]
  /\ chan \in [Slots -> 0 .. TicksChan]
  /\ kstack \in [Slots -> BOOLEAN]
  /\ nextpid \in 2 .. (MaxPid + 1)
  /\ pc \in [Slots -> PcValues]
  /\ np \in [Slots -> Slots \cup {NoProc}]
  /\ ticks0 \in [Slots -> 0 .. (Wrap - 1)]
  /\ wait_n \in [Slots -> 0 .. (Wrap - 1)]
  /\ preempted \in [Slots -> BOOLEAN]
  /\ ptlock \in CPUs \cup {None}
  /\ tickslock \in CPUs \cup {None}
  /\ ticks \in 0 .. (Wrap - 1)
  /\ cproc \in [CPUs -> Slots \cup {NoProc}]
  /\ on \in [CPUs -> Slots \cup {NoProc}]
  /\ scan \in [CPUs -> 1 .. (NPROC + 1)]
  /\ intr \in {"off", "wakeup", "yield"}
  /\ panicked \subseteq CPUs

\* No panic: sched() finds ptable.lock held, as the only lock and with the
\* state changed, and whoever releases ptable.lock holds it, although the lock
\* changes hands in swtch().
NoPanic == panicked = {}

\* The kernel stack a CPU runs on is its own, although a process that gives up
\* the CPU is RUNNABLE, or woken, while it still runs on its stack; and it is
\* allocated, that of a zombie included: wait() frees it only when the zombie has
\* left it.
OneStackOneCPU ==
  \A c \in CPUs : on[c] # NoProc =>
    /\ \A d \in CPUs : on[d] = on[c] => d = c
    /\ kstack[on[c]] /\ state[on[c]] \notin {"UNUSED", "EMBRYO"} /\ cproc[c] = on[c]

\* Every process but initproc has a parent that can still wait for it.
NoOrphans ==
  \A p \in Slots \ {initproc} :
    state[p] \in {"SLEEPING", "RUNNABLE", "RUNNING", "ZOMBIE"} =>
      /\ parent[p] # NoProc
      /\ state[parent[p]] \in {"SLEEPING", "RUNNABLE", "RUNNING"}

\* No wakeup of a parent is lost: a process that sleeps in wait() has a child
\* to wait for, no zombie child, and has not been killed.
WaitersHaveReason ==
  \A p \in Slots : state[p] = "SLEEPING" /\ chan[p] = p =>
    /\ \E q \in Slots : parent[q] = p
    /\ ~ \E q \in Slots : parent[q] = p /\ state[q] = "ZOMBIE"
    /\ ~killed[p]

\* No tick is lost: when a process sleeps in sys_sleep(), and the interrupt that
\* counted the last tick has done its wakeup(), its time has not yet come.
TickSleepersHaveReason ==
  \A p \in Slots : state[p] = "SLEEPING" /\ chan[p] = TicksChan /\ intr # "wakeup" =>
    (ticks - ticks0[p]) % Wrap < wait_n[p]

\* The scheduler's rounds reach every process that is ready to run.
Scheduled == \A p \in Slots : (state[p] = "RUNNABLE") ~> (state[p] = "RUNNING")

\* "Process won't exit until it returns to user space": a killed process does
\* exit, whether it was in wait(), preempted, or on its way through the scheduler.
\* (Other sleeps, of pipes for instance, are not part of this module.)
KilledExits ==
  \A p \in Slots \ {initproc} :
    (killed[p] /\ state[p] \in {"SLEEPING", "RUNNABLE", "RUNNING"}) ~> (state[p] = "ZOMBIE")

\* A zombie that initproc has as a child, inherited or not, is freed.
InitReaps ==
  \A p \in Slots : (state[p] = "ZOMBIE" /\ parent[p] = initproc) ~> (state[p] = "UNUSED")
=============================================================================
