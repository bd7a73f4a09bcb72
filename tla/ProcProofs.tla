----------------------------- MODULE ProcProofs -----------------------------
(***************************************************************************)
(* Theorems about Proc, for any number of slots and CPUs.  ptable.lock is  *)
(* handed over correctly across swtch(), so that no assertion of the       *)
(* scheduler fails and no kernel stack is shared or freed in use; every    *)
(* process has a living parent; and neither wait() nor sys_sleep() loses a *)
(* wakeup.                                                                 *)
(***************************************************************************)
EXTENDS Proc, WellFoundedInduction, TLAPS

\* A process that, when it runs next, is the one to release ptable.lock.
Releases(p) == preempted[p] \/ pc[p] \in {"forkret", "wait", "tick_wait"}

\* What each CPU runs, and that it holds ptable.lock exactly while its process
\* gives up the CPU or has just got it.
Running ==
  /\ panicked = {}
  /\ \A c \in CPUs : cproc[c] = on[c]
  /\ \A c, d \in CPUs : on[c] = on[d] /\ on[c] # NoProc => c = d
  /\ \A c \in CPUs : on[c] # NoProc =>
       /\ state[on[c]] \notin {"UNUSED", "EMBRYO"}
       /\ ptlock = c <=> state[on[c]] # "RUNNING" \/ Releases(on[c])

\* A process that is not running goes on where ptable.lock is released, and every
\* process has a kernel stack.
Stopped ==
  \A p \in Slots :
    /\ state[p] \in {"RUNNABLE", "SLEEPING"} => Releases(p)
    /\ state[p] \notin {"UNUSED", "EMBRYO"} => kstack[p]
    /\ state[p] \in {"UNUSED", "EMBRYO", "ZOMBIE"} => pc[p] \in {"forkret", "zombie"}
    /\ preempted[p] => pc[p] \in Interruptible

Forking(p) == pc[p] \in {"kstack", "copy", "ready"}

\* The slot that a fork() prepares is its own.
Children ==
  /\ \A p \in Slots : Forking(p) =>
       /\ np[p] \in Slots /\ state[np[p]] = "EMBRYO"
       /\ pc[p] # "kstack" => kstack[np[p]] /\ pc[np[p]] = "forkret"
  /\ \A p, q \in Slots : Forking(p) /\ Forking(q) /\ np[p] = np[q] => p = q

\* The process on c is at a location in L, whatever else goes on on c.
Executes(c, L) ==
  /\ on[c] # NoProc /\ state[on[c]] = "RUNNING"
  /\ ~preempted[on[c]] /\ pc[on[c]] \in L

\* What the clock interrupt interrupts, and who holds tickslock.
Clock ==
  /\ intr # "off" =>
       \/ on[0] = NoProc /\ ptlock # 0 /\ intr = "wakeup"
       \/ Executes(0, Interruptible)
  /\ \A c \in CPUs : tickslock = c =>
       (c = 0 /\ intr = "wakeup") \/ Executes(c, {"tick_sleep"})

IInv == TypeOK /\ Running /\ Stopped /\ Children /\ Clock

-----------------------------------------------------------------------------
\* Slots, CPUs and null values.
LEMMA Basics ==
  /\ initproc \in Slots /\ NoProc \notin Slots /\ 0 \in CPUs /\ None \notin CPUs
  /\ \A p \in Slots : p + 1 \in 1 .. (NPROC + 1) /\ p \in 0 .. TicksChan
  /\ 1 \in 1 .. (NPROC + 1) /\ 0 \in 0 .. TicksChan /\ TicksChan \in 0 .. TicksChan
  /\ 0 \in 0 .. (Wrap - 1) /\ 0 \in 0 .. MaxPid
BY ProcConstants DEF Slots, CPUs, NoProc, None, initproc, TicksChan

\* A loop over the table that finds a slot with some property finds the first.
LEMMA FirstSlot ==
  ASSUME NEW S \in SUBSET Slots, S # {}
  PROVE  Min(S) \in S
<1> DEFINE R == OpToRel(<, Nat)
<1>1. IsWellFoundedOn(R, Nat)
  BY NatLessThanWellFounded, Zenon
<1>2. \A x, y \in Nat : y < x => <<y, x>> \in R
  BY Zenon DEF OpToRel
<1>3. S \subseteq Nat
  BY ProcConstants DEF Slots
<1> HIDE DEF R
<1>4. PICK x \in S : \A y \in S : ~ (<<y, x>> \in R)
  BY <1>1, <1>3, WFMin, Zenon
<1>5. ASSUME NEW y \in S
      PROVE  x =< y
  <2>1. ~ (y < x)
    BY <1>2, <1>3, <1>4, Zenon
  <2> QED
    BY <1>3, <2>1
<1> QED
  BY <1>5, Zenon DEF Min

\* The initial state satisfies the inductive invariant.
LEMMA InitInv == Init => IInv
<1> SUFFICES ASSUME Init PROVE IInv
  BY Zenon
<1> USE ProcConstants DEF Init, Slots, CPUs, NoProc, None, initproc, TicksChan,
     Interruptible, PcValues
<1>1. TypeOK
  BY DEF TypeOK
<1>2. Running
  BY Zenon DEF Running
<1>3. Stopped
  BY Zenon DEF Stopped, Releases
<1>4. Children
  BY Zenon DEF Children, Forking
<1>5. Clock
  BY DEF Clock
<1> QED
  BY <1>1, <1>2, <1>3, <1>4, <1>5, Zenon DEF IInv

States == {"UNUSED", "EMBRYO", "SLEEPING", "RUNNABLE", "RUNNING", "ZOMBIE"}

\* The part of the types that the control of processes depends on.
Shape ==
  /\ state \in [Slots -> States] /\ pc \in [Slots -> PcValues]
  /\ preempted \in [Slots -> BOOLEAN] /\ kstack \in [Slots -> BOOLEAN]
  /\ np \in [Slots -> Slots \cup {NoProc}]
  /\ cproc \in [CPUs -> Slots \cup {NoProc}] /\ on \in [CPUs -> Slots \cup {NoProc}]

\* Null values are not slots or CPUs.
LEMMA Nulls == NoProc \notin Slots /\ 0 \in CPUs /\ None \notin CPUs
BY Basics, Zenon

LEMMA Shaped == (TypeOK => Shape) /\ (TypeOK' => Shape')
BY Zenon DEF TypeOK, Shape, States


\* Every step keeps the types.
LEMMA TypeStep ==
  ASSUME IInv, [Next]_vars
  PROVE  TypeOK'
<1> USE Basics DEF IInv, table, threads, clock, cpus
<1>1. ASSUME NEW c \in CPUs, Scheduler(c)
      PROVE  TypeOK'
  <2>1. CASE Runnable(c) # {}
    <3> DEFINE p == Min(Runnable(c))
    <3>1. p \in Slots /\ p + 1 \in 1 .. (NPROC + 1)
      BY <2>1, FirstSlot, Zenon DEF Runnable
    <3>2. /\ ptlock' = c
          /\ state' = [state EXCEPT ![p] = "RUNNING"]
          /\ cproc' = [cproc EXCEPT ![c] = p]
          /\ on' = [on EXCEPT ![c] = p]
          /\ scan' = [scan EXCEPT ![c] = p + 1]
      BY <1>1, <2>1, Zenon DEF Scheduler
    <3> HIDE DEF p
    <3> QED
      BY <1>1, <3>1, <3>2, Zenon DEF Scheduler, TypeOK
  <2>2. CASE Runnable(c) = {}
    BY <1>1, <2>2, Zenon DEF Scheduler, TypeOK
  <2> QED
    BY <2>1, <2>2, Zenon
<1>2. ASSUME NEW c \in CPUs, Sched(c)
      PROVE  TypeOK'
  BY <1>2, Zenon DEF Sched, SchedOK, TypeOK, PcValues, Interruptible
<1>3. ASSUME NEW c \in CPUs, Forkret(c)
      PROVE  TypeOK'
  BY <1>3, Zenon DEF Forkret, At, Release, Goto, TypeOK, PcValues, Interruptible
<1>4. ASSUME NEW c \in CPUs, Resume(c)
      PROVE  TypeOK'
  BY <1>4, Zenon DEF Resume, Release, TypeOK, PcValues, Interruptible
<1>5. ASSUME ClockTick
      PROVE  TypeOK'
  <2>1. ticks' \in 0 .. (Wrap - 1)
    BY <1>5, ProcConstants DEF ClockTick, NextTick, TypeOK
  <2> QED
    BY <1>5, <2>1, Zenon DEF ClockTick, TypeOK
<1>6. ASSUME ClockWakeup
      PROVE  TypeOK'
  BY <1>6, Zenon DEF ClockWakeup, Wakeup1, TypeOK, PcValues, Interruptible
<1>7. ASSUME NEW c \in CPUs, Yield(c)
      PROVE  TypeOK'
  <2>1. /\ intr' \in {"off", intr} /\ ptlock' \in {c, ptlock}
        /\ UNCHANGED <<pid, parent, killed, chan, kstack, nextpid, np, ticks0, wait_n,
                       tickslock, ticks, cpus, panicked>>
    BY <1>7, Zenon DEF Yield, HoldAcrossSwitch
  <2>2. state' = state \/ state' = [state EXCEPT ![on[c]] = "RUNNABLE"]
    BY <1>7, Zenon DEF Yield
  <2>3. preempted' = preempted \/ preempted' = [preempted EXCEPT ![on[c]] = TRUE]
    BY <1>7, Zenon DEF Yield
  <2>4. pc' = pc \/ pc' = [pc EXCEPT ![on[c]] = "exit"]
    BY <1>7, Zenon DEF Yield, Goto
  <2>5. state' \in [Slots -> States]
    BY <2>2, Zenon DEF TypeOK, States
  <2>6. preempted' \in [Slots -> BOOLEAN]
    BY <2>3, Zenon DEF TypeOK
  <2>7. pc' \in [Slots -> PcValues]
    BY <2>4, Zenon DEF TypeOK, PcValues, Interruptible
  <2> QED
    BY <2>1, <2>5, <2>6, <2>7, Zenon DEF TypeOK, States
<1>8. ASSUME NEW c \in CPUs, AllocProc(c)
      PROVE  TypeOK'
  <2> DEFINE q == Min({p \in Slots : state[p] = "UNUSED"})
  <2>1. q \in Slots
    <3>1. {p \in Slots : state[p] = "UNUSED"} # {}
      BY <1>8, Zenon DEF AllocProc
    <3> QED
      BY <3>1, FirstSlot, Zenon
  <2>2. /\ state' = [state EXCEPT ![q] = "EMBRYO"]
        /\ pid' = [pid EXCEPT ![q] = nextpid]
        /\ np' = [np EXCEPT ![on[c]] = q]
        /\ nextpid <= MaxPid /\ nextpid' = nextpid + 1
        /\ pc' = [pc EXCEPT ![on[c]] = "kstack"]
    BY <1>8, Zenon DEF AllocProc, Goto
  <2> HIDE DEF q
  <2>3. nextpid \in 0 .. MaxPid /\ nextpid' \in 2 .. (MaxPid + 1)
    BY <2>2, ProcConstants DEF TypeOK
  <2>4. /\ state' \in [Slots -> States]
        /\ pid' \in [Slots -> 0 .. MaxPid]
        /\ np' \in [Slots -> Slots \cup {NoProc}]
        /\ pc' \in [Slots -> PcValues]
    BY <2>1, <2>2, <2>3, Zenon DEF TypeOK, States, PcValues, Interruptible
  <2> QED
    BY <1>8, <2>3, <2>4, Zenon DEF AllocProc, TypeOK, States
<1>9. ASSUME NEW c \in CPUs, AllocStack(c)
      PROVE  TypeOK'
  BY <1>9, Zenon DEF AllocStack, At, TypeOK, PcValues, Interruptible
<1>10. ASSUME NEW c \in CPUs, ForkFail(c)
      PROVE  TypeOK'
  BY <1>10, Zenon DEF ForkFail, At, Goto, TypeOK, PcValues, Interruptible
<1>11. ASSUME NEW c \in CPUs, ForkCopy(c)
      PROVE  TypeOK'
  BY <1>11, Zenon DEF ForkCopy, At, Goto, TypeOK, PcValues, Interruptible
<1>12. ASSUME NEW c \in CPUs, ForkReady(c)
      PROVE  TypeOK'
  BY <1>12, Zenon DEF ForkReady, At, Goto, TypeOK, PcValues, Interruptible
<1>13. ASSUME NEW c \in CPUs, Exit(c)
      PROVE  TypeOK'
  BY <1>13, Zenon DEF Exit, At, Goto, TypeOK, PcValues, Interruptible
<1>14. ASSUME NEW c \in CPUs, ExitZombie(c)
      PROVE  TypeOK'
  <2>1. Wakeup1(state, parent[on[c]]) \in [Slots -> States]
    BY Zenon DEF Wakeup1, TypeOK, States
  <2>2. \A st \in [Slots -> States] : \A ch : Wakeup1(st, ch) \in [Slots -> States]
    BY Zenon DEF Wakeup1, States
  <2>3. ExitWakeups(on[c]) \in [Slots -> States]
    BY <2>1, <2>2, Zenon DEF ExitWakeups
  <2>4. state' \in [Slots -> States]
    BY <1>14, <2>3, Zenon DEF ExitZombie, States
  <2>5. parent' \in [Slots -> Slots \cup {NoProc}]
    BY <1>14, Zenon DEF ExitZombie, PassToInit, TypeOK
  <2>6. pc' \in [Slots -> PcValues] /\ ptlock' = c
    BY <1>14, Zenon DEF ExitZombie, Goto, HoldAcrossSwitch, TypeOK, PcValues, Interruptible
  <2> QED
    BY <1>14, <2>4, <2>5, <2>6, Zenon DEF ExitZombie, TypeOK, States
<1>15. ASSUME NEW c \in CPUs, Wait(c)
      PROVE  TypeOK'
  <2> DEFINE kids == {q \in Slots : parent[q] = on[c]}
             zombies == {q \in kids : state[q] = "ZOMBIE"}
  <2>1. on[c] # NoProc
    BY <1>15, Zenon DEF Wait, Syscall, At
  <2>2. state' \in [Slots -> States] /\ ptlock' \in CPUs \cup {None}
    BY <1>15, Zenon DEF Wait, WaitLoop, HoldAcrossSwitch, TypeOK, States
  <2>3. pid' \in [Slots -> 0 .. MaxPid] /\ parent' \in [Slots -> Slots \cup {NoProc}]
    <3>1. 0 \in 0 .. MaxPid
      BY ProcConstants
    <3>2. pid' \in [Slots -> 0 .. MaxPid]
      BY <1>15, <3>1 DEF Wait, WaitLoop, TypeOK
    <3>3. parent' \in [Slots -> Slots \cup {NoProc}]
      BY <1>15, Zenon DEF Wait, WaitLoop, TypeOK
    <3> QED
      BY <3>2, <3>3
  <2>4. killed' \in [Slots -> BOOLEAN] /\ kstack' \in [Slots -> BOOLEAN]
    BY <1>15, Zenon DEF Wait, WaitLoop, TypeOK
  <2>5. chan' \in [Slots -> 0 .. TicksChan]
    BY <1>15, <2>1 DEF Wait, WaitLoop, TypeOK
  <2>6. pc' \in [Slots -> PcValues]
    BY <1>15 DEF Wait, WaitLoop, Goto, TypeOK, PcValues, Interruptible
  <2> QED
    BY <1>15, <2>2, <2>3, <2>4, <2>5, <2>6, Zenon DEF Wait, TypeOK, States
<1>16. ASSUME NEW c \in CPUs, NEW i \in 0 .. MaxPid, Kill(c, i)
      PROVE  TypeOK'
  BY <1>16, FirstSlot, Zenon DEF Kill, Syscall, At, Unsleep, TypeOK, PcValues,
       Interruptible
<1>17. ASSUME NEW c \in CPUs, NEW n \in SleepTimes, SysSleep(c, n)
      PROVE  TypeOK'
  <2>1. /\ tickslock' \in CPUs \cup {None}
        /\ pc' \in [Slots -> PcValues]
    BY <1>17, Zenon DEF SysSleep, TickLoop, Goto, TypeOK, PcValues, Interruptible
  <2>2. ticks0' \in [Slots -> 0 .. (Wrap - 1)]
    BY <1>17, ProcConstants, Zenon DEF SysSleep, TickLoop, At, Syscall, TypeOK
  <2>3. wait_n' \in [Slots -> 0 .. (Wrap - 1)]
    BY <1>17, ProcConstants, Zenon DEF SysSleep, TickLoop, At, Syscall, TypeOK
  <2> QED
    BY <1>17, <2>1, <2>2, <2>3, Zenon DEF SysSleep, TypeOK
<1>18. ASSUME NEW c \in CPUs, TickSleep(c)
      PROVE  TypeOK'
  <2>1. /\ chan' \in [Slots -> 0 .. TicksChan]
        /\ state' \in [Slots -> States]
        /\ pc' \in [Slots -> PcValues]
    BY <1>18, Zenon DEF TickSleep, Goto, TypeOK, States, PcValues, Interruptible
  <2> QED
    BY <1>18, <2>1, Zenon DEF TickSleep, HoldAcrossSwitch, TypeOK, States
<1>19. ASSUME NEW c \in CPUs, TickWoken(c)
      PROVE  TypeOK'
  <2>1. /\ chan' \in [Slots -> 0 .. TicksChan]
        /\ pc' \in [Slots -> PcValues]
    BY <1>19, Zenon DEF TickWoken, Goto, TypeOK, PcValues, Interruptible
  <2> QED
    BY <1>19, <2>1, Zenon DEF TickWoken, Release, TypeOK
<1>20. ASSUME NEW c \in CPUs, TickAgain(c)
      PROVE  TypeOK'
  <2>1. /\ tickslock' \in CPUs \cup {None}
        /\ pc' \in [Slots -> PcValues]
    BY <1>20, Zenon DEF TickAgain, TickLoop, Goto, TypeOK, PcValues, Interruptible
  <2>2. ticks0' \in [Slots -> 0 .. (Wrap - 1)]
    BY <1>20, Zenon DEF TickAgain, TickLoop, At, Syscall, TypeOK
  <2>3. wait_n' \in [Slots -> 0 .. (Wrap - 1)]
    BY <1>20, Zenon DEF TickAgain, TickLoop, At, Syscall, TypeOK
  <2> QED
    BY <1>20, <2>1, <2>2, <2>3, Zenon DEF TickAgain, TypeOK
<1>21. CASE UNCHANGED vars
  BY <1>21, Zenon DEF vars, TypeOK, PcValues, Interruptible
<1> QED
  BY <1>1, <1>2, <1>3, <1>4, <1>5, <1>6, <1>7, <1>8, <1>9, <1>10, <1>11, <1>12,
       <1>13, <1>14, <1>15, <1>16, <1>17, <1>18, <1>19, <1>20, <1>21, Zenon DEF Next,
       Switch, Kernel, User

\* scheduler() on c takes a process that is RUNNABLE, or comes to the end of its
\* loop.
SchedulerEffect(c) ==
  /\ on[c] = NoProc /\ (c = 0 => intr = "off")
  /\ ptlock = c \/ ptlock = None
  /\ \/ \E p \in Slots :
          /\ state[p] = "RUNNABLE"
          /\ ptlock' = c
          /\ state' = [state EXCEPT ![p] = "RUNNING"]
          /\ cproc' = [cproc EXCEPT ![c] = p]
          /\ on' = [on EXCEPT ![c] = p]
     \/ ptlock' = None /\ UNCHANGED <<state, cproc, on>>
  /\ UNCHANGED <<kstack, threads, clock, panicked>>

LEMMA SchedulerFinds ==
  ASSUME NEW c \in CPUs, Scheduler(c)
  PROVE  SchedulerEffect(c)
<1>1. CASE Runnable(c) # {}
  <2>1. Min(Runnable(c)) \in Runnable(c)
    BY <1>1, FirstSlot, Zenon DEF Runnable
  <2> QED
    BY <1>1, <2>1, Zenon DEF Scheduler, SchedulerEffect, Runnable
<1>2. CASE Runnable(c) = {}
  BY <1>2, Zenon DEF Scheduler, SchedulerEffect
<1> QED
  BY <1>1, <1>2, Zenon

\* allocproc() takes a slot that is UNUSED.
AllocProcEffect(c) ==
  /\ Syscall(c) /\ ptlock = None
  /\ \E q \in Slots :
       /\ state[q] = "UNUSED"
       /\ state' = [state EXCEPT ![q] = "EMBRYO"]
       /\ np' = [np EXCEPT ![on[c]] = q]
  /\ pc' = [pc EXCEPT ![on[c]] = "kstack"]
  /\ UNCHANGED <<kstack, preempted, ptlock, clock, cpus, panicked>>

LEMMA AllocProcFinds ==
  ASSUME NEW c \in CPUs, AllocProc(c)
  PROVE  AllocProcEffect(c)
<1> DEFINE S == {p \in Slots : state[p] = "UNUSED"}
<1>1. S # {}
  BY Zenon DEF AllocProc
<1>2. Min(S) \in S
  BY <1>1, FirstSlot, Zenon
<1> QED
  BY <1>2, Zenon DEF AllocProc, AllocProcEffect, Goto

\* wait() frees a ZOMBIE, or returns, or goes to sleep.
WaitEffect(c) ==
  /\ (Syscall(c) /\ ptlock = None) \/ At(c, {"wait"})
  /\ \/ \E q \in Slots :
          /\ state[q] = "ZOMBIE"
          /\ kstack' = [kstack EXCEPT ![q] = FALSE]
          /\ state' = [state EXCEPT ![q] = "UNUSED"]
          /\ ptlock' = None /\ pc' = [pc EXCEPT ![on[c]] = "user"]
     \/ /\ ptlock' = None /\ pc' = [pc EXCEPT ![on[c]] = "user"]
        /\ UNCHANGED <<state, kstack>>
     \/ /\ ptlock' = c /\ pc' = [pc EXCEPT ![on[c]] = "wait"]
        /\ state' = [state EXCEPT ![on[c]] = "SLEEPING"]
        /\ UNCHANGED kstack
  /\ UNCHANGED <<np, preempted, clock, cpus, panicked>>

LEMMA WaitFinds ==
  ASSUME NEW c \in CPUs, Wait(c)
  PROVE  WaitEffect(c)
<1> DEFINE kids == {q \in Slots : parent[q] = on[c]}
           zombies == {q \in kids : state[q] = "ZOMBIE"}
<1>1. CASE zombies # {}
  <2>1. Min(zombies) \in zombies
    BY <1>1, FirstSlot, Zenon
  <2> QED
    BY <1>1, <2>1, Zenon DEF Wait, WaitLoop, WaitEffect, Goto
<1>2. CASE zombies = {}
  BY <1>2, Zenon DEF Wait, WaitLoop, WaitEffect, Goto, HoldAcrossSwitch
<1> QED
  BY <1>1, <1>2, Zenon

\* exit() leaves a ZOMBIE, holds ptable.lock and wakes some of those that sleep.
ExitEffect(c) ==
  /\ At(c, {"exit"}) /\ ptlock = None /\ ptlock' = c
  /\ state'[on[c]] = "ZOMBIE"
  /\ \A q \in Slots \ {on[c]} :
       state'[q] = state[q] \/ (state[q] = "SLEEPING" /\ state'[q] = "RUNNABLE")
  /\ pc' = [pc EXCEPT ![on[c]] = "zombie"]
  /\ UNCHANGED <<kstack, np, preempted, clock, cpus, panicked>>

LEMMA ExitLeaves ==
  ASSUME Shape, NEW c \in CPUs, ExitZombie(c)
  PROVE  ExitEffect(c)
<1>1. on[c] \in Slots
  BY Zenon DEF ExitZombie, At, Shape
<1>2. \A q \in Slots :
        ExitWakeups(on[c])[q] \in
          {state[q], IF state[q] = "SLEEPING" THEN "RUNNABLE" ELSE state[q]}
  BY Zenon DEF ExitWakeups, Wakeup1
<1>3. state'[on[c]] = "ZOMBIE" /\ \A q \in Slots \ {on[c]} : state'[q] = ExitWakeups(on[c])[q]
  BY <1>1, Zenon DEF ExitZombie, ExitWakeups, Wakeup1
<1>4. \A q \in Slots \ {on[c]} :
        state'[q] = state[q] \/ (state[q] = "SLEEPING" /\ state'[q] = "RUNNABLE")
  BY <1>2, <1>3, Zenon
<1> QED
  BY <1>3, <1>4, Zenon DEF ExitZombie, ExitEffect, Goto, HoldAcrossSwitch, clock, cpus

\* Every step hands ptable.lock over correctly.
LEMMA RunningStep ==
  ASSUME Shape, Running, Stopped, Children, Clock, Shape', [Next]_vars
  PROVE  Running'
<1> USE Nulls DEF table, threads, clock, cpus
<1>1. ASSUME NEW c \in CPUs, Scheduler(c)
      PROVE  Running'
  <2>1. SchedulerEffect(c)
    BY <1>1, SchedulerFinds, Zenon
  <2>2. CASE ptlock' = None /\ UNCHANGED <<state, cproc, on>>
    BY <2>1, <2>2, Zenon DEF SchedulerEffect, Shape, Running, Releases
  <2>3. ASSUME NEW p \in Slots, state[p] = "RUNNABLE", ptlock' = c,
               state' = [state EXCEPT ![p] = "RUNNING"],
               cproc' = [cproc EXCEPT ![c] = p], on' = [on EXCEPT ![c] = p]
        PROVE  Running'
    <3>1. \A d \in CPUs : on[d] # p
      BY <2>1, <2>3 DEF SchedulerEffect, Shape, Running
    <3>2. on'[c] = p /\ cproc'[c] = p /\ state'[p] = "RUNNING"
      BY <2>3, Zenon DEF Shape
    <3>3. \A d \in CPUs \ {c} : on'[d] = on[d] /\ cproc'[d] = cproc[d]
      BY <2>3, Zenon DEF Shape
    <3>4. \A q \in Slots \ {p} : state'[q] = state[q]
      BY <2>3, Zenon DEF Shape
    <3>5. \A q \in Slots : Releases(q)' = Releases(q)
      BY <2>1, Zenon DEF SchedulerEffect, Releases
    <3>6. Releases(p)
      BY <2>3, Zenon DEF Stopped
    <3>7. panicked' = {}
      BY <2>1, Zenon DEF SchedulerEffect, Running
    <3>8. ASSUME NEW d \in CPUs, on'[d] # NoProc, d # c
          PROVE  /\ state'[on'[d]] \notin {"UNUSED", "EMBRYO"}
                 /\ ptlock' = d <=> state'[on'[d]] # "RUNNING" \/ Releases(on[d])'
      <4>1. on'[d] = on[d] /\ on[d] \in Slots \ {p}
        BY <3>1, <3>3, <3>8, Zenon DEF Shape
      <4>2. ptlock # d /\ ptlock' # d
        BY <2>1, <2>3, <3>8, Zenon DEF SchedulerEffect
      <4>3. state[on[d]] \notin {"UNUSED", "EMBRYO"} /\ state[on[d]] = "RUNNING" /\ ~Releases(on[d])
        BY <3>8, <4>1, <4>2, Zenon DEF Running
      <4> QED
        BY <3>4, <3>5, <4>1, <4>2, <4>3, Zenon DEF Releases
    <3> QED
      BY <2>3, <3>1, <3>2, <3>3, <3>5, <3>6, <3>7, <3>8 DEF Shape, Running, Releases
  <2> QED
    BY <2>1, <2>2, <2>3, Zenon DEF SchedulerEffect
<1>2. ASSUME NEW c \in CPUs, Sched(c)
      PROVE  Running'
  BY <1>2 DEF Sched, SchedOK, Shape, Running, Clock, Executes, Releases
<1>3. ASSUME NEW c \in CPUs, Forkret(c)
      PROVE  Running'
  BY <1>3 DEF Forkret, At, Release, Goto, Shape, Running, Releases
<1>4. ASSUME NEW c \in CPUs, Resume(c)
      PROVE  Running'
  BY <1>4 DEF Resume, Release, Shape, Running, Stopped, Releases, Interruptible
<1>5. ASSUME ClockTick
      PROVE  Running'
  BY <1>5, Zenon DEF ClockTick, TickPossible, NextTick, At, Running, Releases
<1>6. ASSUME ClockWakeup
      PROVE  Running'
  BY <1>6, Zenon DEF ClockWakeup, Wakeup1, Shape, Running, Releases
<1>7. ASSUME NEW c \in CPUs, Yield(c)
      PROVE  Running'
  BY <1>7 DEF Yield, At, Goto, HoldAcrossSwitch, Shape, Running, Releases
<1>8. ASSUME NEW c \in CPUs, AllocProc(c)
      PROVE  Running'
  BY <1>8, AllocProcFinds DEF AllocProcEffect, Syscall, At, Shape, Running, Releases
<1>9. ASSUME NEW c \in CPUs, AllocStack(c)
      PROVE  Running'
  BY <1>9 DEF AllocStack, At, Shape, Running, Children, Forking, Releases
<1>10. ASSUME NEW c \in CPUs, ForkFail(c)
      PROVE  Running'
  BY <1>10 DEF ForkFail, At, Goto, Shape, Running, Children, Forking, Releases
<1>11. ASSUME NEW c \in CPUs, ForkCopy(c)
      PROVE  Running'
  BY <1>11 DEF ForkCopy, At, Goto, Running, Releases
<1>12. ASSUME NEW c \in CPUs, ForkReady(c)
      PROVE  Running'
  <2>1. on[c] \in Slots /\ np[on[c]] \in Slots /\ state[np[on[c]]] = "EMBRYO"
    BY <1>12, Zenon DEF ForkReady, At, Shape, Children, Forking
  <2> QED
    BY <1>12, <2>1 DEF ForkReady, At, Goto, Shape, Running, Releases
<1>13. ASSUME NEW c \in CPUs, Exit(c)
      PROVE  Running'
  BY <1>13 DEF Exit, At, Goto, Running, Releases
<1>14. ASSUME NEW c \in CPUs, ExitZombie(c)
      PROVE  Running'
  <2>1. ExitEffect(c) /\ on[c] \in Slots
    BY <1>14, ExitLeaves, Zenon DEF ExitEffect, At, Shape
  <2> QED
    BY <2>1 DEF ExitEffect, At, Shape, Running, Releases
<1>15. ASSUME NEW c \in CPUs, Wait(c)
      PROVE  Running'
  BY <1>15, WaitFinds DEF WaitEffect, Syscall, At, Shape, Running, Releases,
       Interruptible
<1>16. ASSUME NEW c \in CPUs, NEW i \in 0 .. MaxPid, Kill(c, i)
      PROVE  Running'
  BY <1>16, FirstSlot DEF Kill, Syscall, At, Unsleep, Running, Releases
<1>17. ASSUME NEW c \in CPUs, NEW n \in SleepTimes, SysSleep(c, n)
      PROVE  Running'
  BY <1>17 DEF SysSleep, Syscall, At, TickLoop, Goto, Running, Releases
<1>18. ASSUME NEW c \in CPUs, TickSleep(c)
      PROVE  Running'
  BY <1>18 DEF TickSleep, At, Goto, HoldAcrossSwitch, Shape, Running, Releases
<1>19. ASSUME NEW c \in CPUs, TickWoken(c)
      PROVE  Running'
  BY <1>19, Zenon DEF TickWoken, At, Goto, Release, Shape, Running, Releases
<1>20. ASSUME NEW c \in CPUs, TickAgain(c)
      PROVE  Running'
  BY <1>20 DEF TickAgain, At, TickLoop, Goto, Running, Releases
<1>21. CASE UNCHANGED vars
  BY <1>21 DEF vars, Shape, Running, Stopped, Children, Clock, Executes, Forking,
       Releases, Interruptible
<1> QED
  BY <1>1, <1>2, <1>3, <1>4, <1>5, <1>6, <1>7, <1>8, <1>9, <1>10, <1>11, <1>12,
       <1>13, <1>14, <1>15, <1>16, <1>17, <1>18, <1>19, <1>20, <1>21, Zenon DEF Next,
       Switch, Kernel, User


\* Every step leaves a process where it can be resumed.
LEMMA StoppedStep ==
  ASSUME Shape, Running, Stopped, Children, Clock, Shape', [Next]_vars
  PROVE  Stopped'
<1> USE Nulls DEF table, threads, clock, cpus
<1>1. ASSUME NEW c \in CPUs, Scheduler(c)
      PROVE  Stopped'
  BY <1>1, SchedulerFinds DEF SchedulerEffect, Shape, Stopped, Releases
<1>2. ASSUME NEW c \in CPUs, Sched(c)
      PROVE  Stopped'
  BY <1>2, Zenon DEF Sched, SchedOK, Stopped, Releases
<1>3. ASSUME NEW c \in CPUs, Forkret(c)
      PROVE  Stopped'
  BY <1>3 DEF Forkret, At, Release, Goto, Stopped, Releases
<1>4. ASSUME NEW c \in CPUs, Resume(c)
      PROVE  Stopped'
  BY <1>4 DEF Resume, Release, Stopped, Releases
<1>5. ASSUME ClockTick
      PROVE  Stopped'
  BY <1>5, Zenon DEF ClockTick, TickPossible, NextTick, At, Stopped, Releases
<1>6. ASSUME ClockWakeup
      PROVE  Stopped'
  BY <1>6, Zenon DEF ClockWakeup, Wakeup1, Stopped, Releases
<1>7. ASSUME NEW c \in CPUs, Yield(c)
      PROVE  Stopped'
  BY <1>7 DEF Yield, Clock, Executes, At, Goto, HoldAcrossSwitch, Shape, Stopped,
       Releases
<1>8. ASSUME NEW c \in CPUs, AllocProc(c)
      PROVE  Stopped'
  <2>1. PICK q \in Slots : /\ state[q] = "UNUSED"
                           /\ state' = [state EXCEPT ![q] = "EMBRYO"]
                           /\ np' = [np EXCEPT ![on[c]] = q]
    BY <1>8, AllocProcFinds, Zenon DEF AllocProcEffect
  <2>2. /\ on[c] \in Slots /\ state[on[c]] = "RUNNING" /\ pc[on[c]] = "user"
        /\ ~preempted[on[c]] /\ on[c] # q
    BY <1>8, <2>1, AllocProcFinds, Zenon DEF AllocProcEffect, Syscall, At, Shape
  <2>3. /\ state'[q] = "EMBRYO" /\ \A p \in Slots \ {q} : state'[p] = state[p]
        /\ pc'[on[c]] = "kstack" /\ \A p \in Slots \ {on[c]} : pc'[p] = pc[p]
        /\ np'[on[c]] = q /\ \A p \in Slots \ {on[c]} : np'[p] = np[p]
        /\ UNCHANGED <<kstack, preempted>>
    BY <1>8, <2>1, <2>2, AllocProcFinds DEF AllocProcEffect, Shape
  <2> QED
    BY <2>1, <2>2, <2>3 DEF Stopped, Releases, Interruptible
<1>9. ASSUME NEW c \in CPUs, AllocStack(c)
      PROVE  Stopped'
  BY <1>9 DEF AllocStack, At, Shape, Stopped, Children, Forking, Releases,
       Interruptible
<1>10. ASSUME NEW c \in CPUs, ForkFail(c)
      PROVE  Stopped'
  BY <1>10 DEF ForkFail, At, Goto, Shape, Stopped, Children, Forking, Releases
<1>11. ASSUME NEW c \in CPUs, ForkCopy(c)
      PROVE  Stopped'
  BY <1>11 DEF ForkCopy, At, Goto, Stopped, Releases
<1>12. ASSUME NEW c \in CPUs, ForkReady(c)
      PROVE  Stopped'
  BY <1>12 DEF ForkReady, At, Goto, Shape, Stopped, Children, Forking, Releases
<1>13. ASSUME NEW c \in CPUs, Exit(c)
      PROVE  Stopped'
  BY <1>13 DEF Exit, At, Goto, Stopped, Releases
<1>14. ASSUME NEW c \in CPUs, ExitZombie(c)
      PROVE  Stopped'
  <2>1. ExitEffect(c) /\ on[c] \in Slots
    BY <1>14, ExitLeaves, Zenon DEF ExitEffect, At, Shape
  <2> QED
    BY <2>1 DEF ExitEffect, At, Shape, Stopped, Releases
<1>15. ASSUME NEW c \in CPUs, Wait(c)
      PROVE  Stopped'
  BY <1>15, WaitFinds DEF WaitEffect, Syscall, At, Shape, Stopped, Releases
<1>16. ASSUME NEW c \in CPUs, NEW i \in 0 .. MaxPid, Kill(c, i)
      PROVE  Stopped'
  BY <1>16, FirstSlot DEF Kill, Syscall, At, Unsleep, Stopped, Releases
<1>17. ASSUME NEW c \in CPUs, NEW n \in SleepTimes, SysSleep(c, n)
      PROVE  Stopped'
  BY <1>17 DEF SysSleep, Syscall, At, TickLoop, Goto, Stopped, Releases
<1>18. ASSUME NEW c \in CPUs, TickSleep(c)
      PROVE  Stopped'
  BY <1>18 DEF TickSleep, At, Goto, HoldAcrossSwitch, Shape, Stopped, Releases
<1>19. ASSUME NEW c \in CPUs, TickWoken(c)
      PROVE  Stopped'
  BY <1>19 DEF TickWoken, At, Goto, Release, Stopped, Releases
<1>20. ASSUME NEW c \in CPUs, TickAgain(c)
      PROVE  Stopped'
  BY <1>20 DEF TickAgain, At, TickLoop, Goto, Stopped, Forking, Releases
<1>21. CASE UNCHANGED vars
  BY <1>21, Zenon DEF vars, Shape, Running, Stopped, Children, Forking, Releases,
       Interruptible
<1> QED
  BY <1>1, <1>2, <1>3, <1>4, <1>5, <1>6, <1>7, <1>8, <1>9, <1>10, <1>11, <1>12,
       <1>13, <1>14, <1>15, <1>16, <1>17, <1>18, <1>19, <1>20, <1>21, Zenon DEF Next,
       Switch, Kernel, User

\* No step disturbs a fork().
LEMMA ChildrenStep ==
  ASSUME Shape, Running, Stopped, Children, Clock, Shape', [Next]_vars
  PROVE  Children'
<1> USE Nulls DEF table, threads, clock, cpus
<1>1. ASSUME NEW c \in CPUs, Scheduler(c)
      PROVE  Children'
  BY <1>1, SchedulerFinds DEF SchedulerEffect, Shape, Children, Forking
<1>2. ASSUME NEW c \in CPUs, Sched(c)
      PROVE  Children'
  BY <1>2, Zenon DEF Sched, SchedOK, Shape, Children, Forking
<1>3. ASSUME NEW c \in CPUs, Forkret(c)
      PROVE  Children'
  BY <1>3 DEF Forkret, At, Release, Goto, Children, Forking
<1>4. ASSUME NEW c \in CPUs, Resume(c)
      PROVE  Children'
  BY <1>4, Zenon DEF Resume, Release, Children, Forking
<1>5. ASSUME ClockTick
      PROVE  Children'
  BY <1>5, Zenon DEF ClockTick, TickPossible, NextTick, At, Children, Forking
<1>6. ASSUME ClockWakeup
      PROVE  Children'
  BY <1>6, Zenon DEF ClockWakeup, Wakeup1, Children, Forking
<1>7. ASSUME NEW c \in CPUs, Yield(c)
      PROVE  Children'
  BY <1>7 DEF Yield, At, Goto, HoldAcrossSwitch, Shape, Running, Children, Forking
<1>8. ASSUME NEW c \in CPUs, AllocProc(c)
      PROVE  Children'
  <2>1. PICK q \in Slots : /\ state[q] = "UNUSED"
                           /\ state' = [state EXCEPT ![q] = "EMBRYO"]
                           /\ np' = [np EXCEPT ![on[c]] = q]
    BY <1>8, AllocProcFinds, Zenon DEF AllocProcEffect
  <2>2. /\ on[c] \in Slots /\ state[on[c]] = "RUNNING" /\ pc[on[c]] = "user"
        /\ ~preempted[on[c]] /\ on[c] # q
    BY <1>8, <2>1, AllocProcFinds, Zenon DEF AllocProcEffect, Syscall, At, Shape
  <2>3. /\ state'[q] = "EMBRYO" /\ \A p \in Slots \ {q} : state'[p] = state[p]
        /\ pc'[on[c]] = "kstack" /\ \A p \in Slots \ {on[c]} : pc'[p] = pc[p]
        /\ np'[on[c]] = q /\ \A p \in Slots \ {on[c]} : np'[p] = np[p]
        /\ UNCHANGED <<kstack, preempted>>
    BY <1>8, <2>1, <2>2, AllocProcFinds DEF AllocProcEffect, Shape
  <2>4. \A p \in Slots \ {on[c]} : Forking(p)' <=> Forking(p)
    BY <2>3, Zenon DEF Forking
  <2>5. ASSUME NEW p \in Slots \ {on[c]}, Forking(p)
        PROVE  np[p] \in Slots /\ np[p] # q /\ np[p] # on[c]
    BY <2>1, <2>2, <2>5, Zenon DEF Children
  <2> QED
    BY <2>1, <2>2, <2>3, <2>4, <2>5 DEF Children, Forking
<1>9. ASSUME NEW c \in CPUs, AllocStack(c)
      PROVE  Children'
  BY <1>9 DEF AllocStack, At, Shape, Children, Forking
<1>10. ASSUME NEW c \in CPUs, ForkFail(c)
      PROVE  Children'
  BY <1>10 DEF ForkFail, At, Goto, Shape, Children, Forking
<1>11. ASSUME NEW c \in CPUs, ForkCopy(c)
      PROVE  Children'
  BY <1>11 DEF ForkCopy, At, Goto, Children, Forking
<1>12. ASSUME NEW c \in CPUs, ForkReady(c)
      PROVE  Children'
  BY <1>12 DEF ForkReady, At, Goto, Shape, Children, Forking
<1>13. ASSUME NEW c \in CPUs, Exit(c)
      PROVE  Children'
  BY <1>13 DEF Exit, At, Goto, Children, Forking
<1>14. ASSUME NEW c \in CPUs, ExitZombie(c)
      PROVE  Children'
  <2>1. ExitEffect(c) /\ on[c] \in Slots
    BY <1>14, ExitLeaves, Zenon DEF ExitEffect, At, Shape
  <2> QED
    BY <2>1 DEF ExitEffect, At, Shape, Running, Children, Forking
<1>15. ASSUME NEW c \in CPUs, Wait(c)
      PROVE  Children'
  <2>1. /\ on[c] \in Slots /\ state[on[c]] = "RUNNING"
        /\ pc[on[c]] \in {"user", "wait"} /\ UNCHANGED np
    BY <1>15, WaitFinds, Zenon DEF WaitEffect, Syscall, At, Shape
  <2>2. pc'[on[c]] \in {"user", "wait"} /\ \A p \in Slots \ {on[c]} : pc'[p] = pc[p]
    BY <1>15, <2>1, WaitFinds DEF WaitEffect, Shape
  <2>3. \A p \in Slots : state[p] = "EMBRYO" => state'[p] = "EMBRYO" /\ kstack'[p] = kstack[p]
    BY <1>15, <2>1, WaitFinds DEF WaitEffect, Shape
  <2>4. \A p \in Slots : Forking(p)' => p # on[c] /\ Forking(p)
    BY <2>1, <2>2, Zenon DEF Forking
  <2>5. \A p \in Slots : Forking(p) => np[p] # on[c]
    BY <2>1, Zenon DEF Children
  <2> QED
    BY <2>1, <2>2, <2>3, <2>4, <2>5 DEF Children
<1>16. ASSUME NEW c \in CPUs, NEW i \in 0 .. MaxPid, Kill(c, i)
      PROVE  Children'
  BY <1>16, FirstSlot DEF Kill, Syscall, At, Unsleep, Children, Forking
<1>17. ASSUME NEW c \in CPUs, NEW n \in SleepTimes, SysSleep(c, n)
      PROVE  Children'
  BY <1>17 DEF SysSleep, Syscall, At, TickLoop, Goto, Children, Forking
<1>18. ASSUME NEW c \in CPUs, TickSleep(c)
      PROVE  Children'
  BY <1>18 DEF TickSleep, At, Goto, HoldAcrossSwitch, Children, Forking
<1>19. ASSUME NEW c \in CPUs, TickWoken(c)
      PROVE  Children'
  BY <1>19 DEF TickWoken, At, Goto, Release, Children, Forking
<1>20. ASSUME NEW c \in CPUs, TickAgain(c)
      PROVE  Children'
  BY <1>20 DEF TickAgain, At, TickLoop, Goto, Children, Forking
<1>21. CASE UNCHANGED vars
  BY <1>21, Zenon DEF vars, Shape, Running, Stopped, Children, Forking, Interruptible
<1> QED
  BY <1>1, <1>2, <1>3, <1>4, <1>5, <1>6, <1>7, <1>8, <1>9, <1>10, <1>11, <1>12,
       <1>13, <1>14, <1>15, <1>16, <1>17, <1>18, <1>19, <1>20, <1>21 DEF Next,
       Switch, Kernel, User

\* Every step respects the clock interrupt and tickslock.
LEMMA ClockStep ==
  ASSUME Shape, Running, Stopped, Children, Clock, Shape', [Next]_vars
  PROVE  Clock'
<1> USE Nulls DEF table, threads, clock, cpus
<1>1. ASSUME NEW c \in CPUs, Scheduler(c)
      PROVE  Clock'
  BY <1>1, SchedulerFinds DEF SchedulerEffect, Shape, Clock, Executes
<1>2. ASSUME NEW c \in CPUs, Sched(c)
      PROVE  Clock'
  BY <1>2 DEF Sched, SchedOK, Clock, Executes
<1>3. ASSUME NEW c \in CPUs, Forkret(c)
      PROVE  Clock'
  BY <1>3 DEF Forkret, At, Release, Goto, Running, Clock, Executes
<1>4. ASSUME NEW c \in CPUs, Resume(c)
      PROVE  Clock'
  BY <1>4 DEF Resume, Release, Clock, Executes
<1>5. ASSUME ClockTick
      PROVE  Clock'
  BY <1>5, Zenon DEF ClockTick, TickPossible, NextTick, At, Clock, Executes
<1>6. ASSUME ClockWakeup
      PROVE  Clock'
  BY <1>6, Zenon DEF ClockWakeup, Wakeup1, Shape, Clock, Executes
<1>7. ASSUME NEW c \in CPUs, Yield(c)
      PROVE  Clock'
  BY <1>7 DEF Yield, At, Goto, HoldAcrossSwitch, Shape, Running, Clock, Executes,
       Interruptible
<1>8. ASSUME NEW c \in CPUs, AllocProc(c)
      PROVE  Clock'
  BY <1>8, AllocProcFinds DEF AllocProcEffect, Syscall, At, Shape, Running, Clock,
       Executes
<1>9. ASSUME NEW c \in CPUs, AllocStack(c)
      PROVE  Clock'
  BY <1>9 DEF AllocStack, At, Shape, Running, Children, Clock, Executes, Forking
<1>10. ASSUME NEW c \in CPUs, ForkFail(c)
      PROVE  Clock'
  BY <1>10 DEF ForkFail, At, Goto, Shape, Running, Children, Clock, Executes,
       Forking
<1>11. ASSUME NEW c \in CPUs, ForkCopy(c)
      PROVE  Clock'
  BY <1>11 DEF ForkCopy, At, Goto, Running, Clock, Executes
<1>12. ASSUME NEW c \in CPUs, ForkReady(c)
      PROVE  Clock'
  BY <1>12 DEF ForkReady, At, Goto, Shape, Running, Children, Clock, Executes,
       Forking
<1>13. ASSUME NEW c \in CPUs, Exit(c)
      PROVE  Clock'
  BY <1>13 DEF Exit, At, Goto, Running, Clock, Executes
<1>14. ASSUME NEW c \in CPUs, ExitZombie(c)
      PROVE  Clock'
  <2>1. ExitEffect(c) /\ on[c] \in Slots
    BY <1>14, ExitLeaves, Zenon DEF ExitEffect, At, Shape
  <2> QED
    BY <2>1 DEF ExitEffect, At, Shape, Running, Clock, Executes, Interruptible
<1>15. ASSUME NEW c \in CPUs, Wait(c)
      PROVE  Clock'
  BY <1>15, WaitFinds DEF WaitEffect, Syscall, At, Shape, Running, Clock, Executes
<1>16. ASSUME NEW c \in CPUs, NEW i \in 0 .. MaxPid, Kill(c, i)
      PROVE  Clock'
  BY <1>16, FirstSlot DEF Kill, Syscall, At, Unsleep, Clock, Executes
<1>17. ASSUME NEW c \in CPUs, NEW n \in SleepTimes, SysSleep(c, n)
      PROVE  Clock'
  BY <1>17, Zenon DEF SysSleep, Syscall, At, TickLoop, Goto, Shape, Running, Clock,
       Executes
<1>18. ASSUME NEW c \in CPUs, TickSleep(c)
      PROVE  Clock'
  BY <1>18 DEF TickSleep, At, Goto, HoldAcrossSwitch, Running, Clock, Executes
<1>19. ASSUME NEW c \in CPUs, TickWoken(c)
      PROVE  Clock'
  BY <1>19 DEF TickWoken, At, Goto, Release, Running, Clock, Executes
<1>20. ASSUME NEW c \in CPUs, TickAgain(c)
      PROVE  Clock'
  BY <1>20, Zenon DEF TickAgain, At, TickLoop, Goto, Shape, Running, Clock, Executes
<1>21. CASE UNCHANGED vars
  BY <1>21, Zenon DEF vars, Shape, Running, Stopped, Children, Clock, Executes, Releases,
       Forking, Interruptible
<1> QED
  BY <1>1, <1>2, <1>3, <1>4, <1>5, <1>6, <1>7, <1>8, <1>9, <1>10, <1>11, <1>12,
       <1>13, <1>14, <1>15, <1>16, <1>17, <1>18, <1>19, <1>20, <1>21, Zenon DEF Next,
       Switch, Kernel, User

\* The inductive invariant holds in every reachable state.
THEOREM Invariance == Spec => []IInv
<1>1. ASSUME IInv, [Next]_vars
      PROVE  IInv'
  <2>1. TypeOK'
    BY <1>1, TypeStep, Zenon
  <2>2. Shape /\ Shape'
    BY <1>1, <2>1, Shaped, Zenon DEF IInv
  <2> QED
    BY <1>1, <2>1, <2>2, RunningStep, StoppedStep, ChildrenStep, ClockStep, Zenon DEF IInv
<1> QED
  BY <1>1, InitInv, PTL DEF Spec

\* Every variable keeps its type.
THEOREM TypeCorrect == Spec => []TypeOK
BY Invariance, PTL DEF IInv

\* No assertion of sched() and release() fails: ptable.lock, which one process
\* takes and another releases, is held by the right CPU and is the only lock at
\* every switch.
THEOREM PanicFree == Spec => []NoPanic
<1>1. IInv => NoPanic
  BY Zenon DEF IInv, Running, NoPanic
<1> QED
  BY <1>1, Invariance, PTL

\* No two CPUs run on one kernel stack, and none on a stack that fork() or wait()
\* has given back.
THEOREM StacksAreSafe == Spec => []OneStackOneCPU
<1>1. IInv => OneStackOneCPU
  BY DEF IInv, TypeOK, Running, Stopped, OneStackOneCPU
<1> QED
  BY <1>1, Invariance, PTL


-----------------------------------------------------------------------------
(* Parents and children *)

Alive == {"SLEEPING", "RUNNABLE", "RUNNING"}

\* initproc lives for ever; the others have a living parent, from the moment
\* fork() makes them RUNNABLE; and a slot that is not in use is nobody's child but
\* that of the process that prepares it.
Families ==
  /\ state[initproc] \in Alive /\ parent[initproc] = NoProc
  /\ ~killed[initproc] /\ pc[initproc] # "exit"
  /\ \A p \in Slots \ {initproc} : state[p] \in Alive \cup {"ZOMBIE"} =>
       parent[p] \in Slots \ {p} /\ state[parent[p]] \in Alive
  /\ \A p \in Slots : state[p] \in {"UNUSED", "EMBRYO"} /\ parent[p] # NoProc =>
       pc[parent[p]] = "ready" /\ np[parent[p]] = p
  /\ \A p \in Slots : pc[p] = "ready" => parent[np[p]] = p

\* A step in which nobody is born, dies or changes parent.
LEMMA FamiliesKept ==
  ASSUME Shape, Shape', Families, parent' = parent,
         parent \in [Slots -> Slots \cup {NoProc}],
         \A p \in Slots : /\ state'[p] \in Alive <=> state[p] \in Alive
                          /\ state'[p] = "ZOMBIE" <=> state[p] = "ZOMBIE"
                          /\ pc'[p] = "ready" <=> pc[p] = "ready"
                          /\ pc[p] = "ready" => np'[p] = np[p],
         ~killed'[initproc], pc'[initproc] # "exit"
  PROVE  Families'
<1>1. \A p \in Slots : state'[p] \in {"UNUSED", "EMBRYO"} <=> state[p] \in {"UNUSED", "EMBRYO"}
  BY Zenon DEF Shape, States, Alive
<1> QED
  BY <1>1, Basics DEF Families

\* What one round of wait() does to the caller's family.
WaitFamily(c) ==
  \/ \E q \in Slots :
       /\ state[q] = "ZOMBIE" /\ parent[q] = on[c]
       /\ parent' = [parent EXCEPT ![q] = NoProc] /\ killed' = [killed EXCEPT ![q] = FALSE]
       /\ state' = [state EXCEPT ![q] = "UNUSED"] /\ chan' = [chan EXCEPT ![on[c]] = 0]
       /\ pc' = [pc EXCEPT ![on[c]] = "user"]
  \/ /\ UNCHANGED <<state, parent, killed>> /\ chan' = [chan EXCEPT ![on[c]] = 0]
     /\ pc' = [pc EXCEPT ![on[c]] = "user"]
  \/ /\ \E q \in Slots : parent[q] = on[c]
     /\ \A q \in Slots : parent[q] = on[c] => state[q] # "ZOMBIE"
     /\ ~killed[on[c]] /\ UNCHANGED <<parent, killed>>
     /\ chan' = [chan EXCEPT ![on[c]] = on[c]]
     /\ state' = [state EXCEPT ![on[c]] = "SLEEPING"]
     /\ pc' = [pc EXCEPT ![on[c]] = "wait"]

LEMMA WaitFound ==
  ASSUME NEW c \in CPUs, Wait(c)
  PROVE  WaitFamily(c)
<1> DEFINE kids == {q \in Slots : parent[q] = on[c]}
           zombies == {q \in kids : state[q] = "ZOMBIE"}
<1>1. CASE zombies # {}
  <2> DEFINE q == Min(zombies)
  <2>1. q \in Slots /\ state[q] = "ZOMBIE" /\ parent[q] = on[c]
    BY <1>1, FirstSlot, Zenon
  <2>2. /\ parent' = [parent EXCEPT ![q] = NoProc] /\ killed' = [killed EXCEPT ![q] = FALSE]
        /\ state' = [state EXCEPT ![q] = "UNUSED"] /\ chan' = [chan EXCEPT ![on[c]] = 0]
        /\ pc' = [pc EXCEPT ![on[c]] = "user"]
    BY <1>1, Zenon DEF Wait, WaitLoop, Goto
  <2> HIDE DEF q
  <2> QED
    BY <2>1, <2>2, Zenon DEF WaitFamily
<1>2. CASE zombies = {} /\ (kids = {} \/ killed[on[c]])
  BY <1>2, Zenon DEF Wait, WaitLoop, WaitFamily, Goto
<1>3. CASE zombies = {} /\ kids # {} /\ ~killed[on[c]]
  <2>1. /\ UNCHANGED <<parent, killed>> /\ chan' = [chan EXCEPT ![on[c]] = on[c]]
        /\ state' = [state EXCEPT ![on[c]] = "SLEEPING"]
        /\ pc' = [pc EXCEPT ![on[c]] = "wait"]
    BY <1>3, Zenon DEF Wait, WaitLoop, Goto
  <2> QED
    BY <1>3, <2>1, Zenon DEF WaitFamily
<1> QED
  BY <1>1, <1>2, <1>3, Zenon

\* kill() marks and wakes a process, which is not initproc.
LEMMA KillFinds ==
  ASSUME NEW c \in CPUs, NEW i \in 0 .. MaxPid, Kill(c, i)
  PROVE  \E p \in Slots : /\ p # initproc /\ killed' = [killed EXCEPT ![p] = TRUE]
                          /\ state' = [state EXCEPT ![p] = Unsleep(@)]
<1> DEFINE S == {q \in Slots : pid[q] = i}
           p == Min(S)
<1>1. S # {} /\ i # pid[initproc]
  BY Zenon DEF Kill
<1>2. p \in Slots /\ pid[p] = i
  BY <1>1, FirstSlot, Zenon
<1>3. /\ killed' = [killed EXCEPT ![p] = TRUE]
      /\ state' = [state EXCEPT ![p] = Unsleep(@)]
  BY Zenon DEF Kill
<1> HIDE DEF p
<1> QED
  BY <1>1, <1>2, <1>3, Zenon

\* exit() gives its children to initproc, and who sleeps on its parent, or on
\* initproc when that inherits a zombie, is woken.
LEMMA ExitTells ==
  ASSUME Shape, parent \in [Slots -> Slots \cup {NoProc}], NEW c \in CPUs, ExitZombie(c)
  PROVE  /\ parent' \in [Slots -> Slots \cup {NoProc}]
         /\ \A q \in Slots : parent'[q] = IF parent[q] = on[c] THEN initproc ELSE parent[q]
         /\ \A q \in Slots \ {on[c]} : state'[q] = "SLEEPING" =>
              /\ chan[q] # parent[on[c]]
              /\ chan[q] = initproc =>
                   ~\E r \in Slots : parent[r] = on[c] /\ state[r] = "ZOMBIE"
<1>1. on[c] \in Slots
  BY Zenon DEF ExitZombie, At, Shape
<1>2. \A q \in Slots : ExitWakeups(on[c])[q] = "SLEEPING" =>
        /\ chan[q] # parent[on[c]]
        /\ chan[q] = initproc => ~\E r \in Slots : parent[r] = on[c] /\ state[r] = "ZOMBIE"
  BY Zenon DEF ExitWakeups, Wakeup1
<1>3. \A q \in Slots \ {on[c]} : state'[q] = ExitWakeups(on[c])[q]
  BY <1>1, Zenon DEF ExitZombie, ExitWakeups, Wakeup1
<1> QED
  BY <1>2, <1>3, Basics, Zenon DEF ExitZombie, PassToInit

\* Every step leaves every process a living parent.
LEMMA FamiliesStep ==
  ASSUME IInv, IInv', Families, [Next]_vars
  PROVE  Families'
<1>0. /\ Shape /\ Shape' /\ parent \in [Slots -> Slots \cup {NoProc}]
      /\ killed \in [Slots -> BOOLEAN]
      /\ Running /\ Stopped /\ Children
  BY Shaped, Zenon DEF IInv, TypeOK
<1> USE Basics DEF table, threads, clock, cpus
<1>1. ASSUME NEW c \in CPUs, Scheduler(c)
      PROVE  Families'
  <2>1. \A p \in Slots : /\ state'[p] \in Alive <=> state[p] \in Alive
                         /\ state'[p] = "ZOMBIE" <=> state[p] = "ZOMBIE"
    BY <1>0, <1>1, SchedulerFinds DEF SchedulerEffect, Shape, Alive
  <2>2. UNCHANGED <<parent, killed, pc, np>>
    BY <1>1, Zenon DEF Scheduler
  <2> QED
    BY <1>0, <2>1, <2>2, FamiliesKept, Zenon DEF Families
<1>2. ASSUME NEW c \in CPUs, Sched(c) \/ Resume(c)
      PROVE  Families'
  <2>1. UNCHANGED <<state, parent, killed, pc, np>>
    BY <1>2, Zenon DEF Sched, Resume
  <2> QED
    BY <1>0, <2>1, FamiliesKept, Zenon DEF Families
<1>3. ASSUME NEW c \in CPUs,
             \/ Forkret(c) \/ Exit(c) \/ TickWoken(c) \/ TickAgain(c)
             \/ \E n \in SleepTimes : SysSleep(c, n)
      PROVE  Families'
  <2>1. UNCHANGED <<state, parent, killed, np>>
    BY <1>3, Zenon DEF Forkret, Exit, TickWoken, TickAgain, SysSleep
  <2>2. PICK l \in {"user", "exit", "tick_check", "tick_sleep"} :
          /\ pc' = [pc EXCEPT ![on[c]] = l] /\ pc[on[c]] # "ready" /\ on[c] # NoProc
          /\ l = "exit" => on[c] # initproc
    BY <1>3, Zenon DEF Forkret, Exit, TickWoken, TickAgain, SysSleep, Syscall, At, TickLoop, Goto
  <2>3. \A p \in Slots : pc'[p] = "ready" <=> pc[p] = "ready"
    BY <1>0, <2>2, Zenon DEF Shape
  <2>4. pc'[initproc] # "exit"
    BY <1>0, <2>2 DEF Shape, Families
  <2> QED
    BY <1>0, <2>1, <2>3, <2>4, FamiliesKept, Zenon DEF Families
<1>4. ASSUME ClockTick \/ ClockWakeup
      PROVE  Families'
  <2>1. UNCHANGED <<parent, killed, pc, np>>
    BY <1>4, Zenon DEF ClockTick, ClockWakeup
  <2>2. \A p \in Slots : /\ state'[p] \in Alive <=> state[p] \in Alive
                         /\ state'[p] = "ZOMBIE" <=> state[p] = "ZOMBIE"
    BY <1>4, Zenon DEF ClockTick, ClockWakeup, Wakeup1, Alive
  <2> QED
    BY <1>0, <2>1, <2>2, FamiliesKept, Zenon DEF Families
<1>5. ASSUME NEW c \in CPUs, Yield(c)
      PROVE  Families'
  <2>1. UNCHANGED <<parent, killed, np>>
    BY <1>5, Zenon DEF Yield
  <2>2. on[c] \in Slots /\ state[on[c]] = "RUNNING"
    BY <1>0, <1>5 DEF Yield, At, IInv, Clock, Executes, Shape
  <2>3. \A p \in Slots : /\ state'[p] \in Alive <=> state[p] \in Alive
                         /\ state'[p] = "ZOMBIE" <=> state[p] = "ZOMBIE"
    BY <1>0, <1>5, <2>2, Zenon DEF Yield, Alive, Shape
  <2>4. /\ \A p \in Slots : pc'[p] = "ready" <=> pc[p] = "ready"
        /\ pc'[initproc] # "exit"
    BY <1>0, <1>5, <2>2 DEF Yield, Goto, Shape, Families
  <2> QED
    BY <1>0, <2>1, <2>3, <2>4, FamiliesKept, Zenon DEF Families
<1>6. ASSUME NEW c \in CPUs, AllocProc(c)
      PROVE  Families'
  <2>1. UNCHANGED <<parent, killed>>
    BY <1>6, Zenon DEF AllocProc
  <2>2. /\ on[c] \in Slots /\ pc[on[c]] = "user"
        /\ pc' = [pc EXCEPT ![on[c]] = "kstack"]
    BY <1>0, <1>6, AllocProcFinds DEF AllocProcEffect, Syscall, At, Shape
  <2>3. \A p \in Slots : /\ state'[p] \in Alive <=> state[p] \in Alive
                         /\ state'[p] = "ZOMBIE" <=> state[p] = "ZOMBIE"
                         /\ p # on[c] => np'[p] = np[p]
    BY <1>0, <1>6, AllocProcFinds DEF AllocProcEffect, Shape, Alive
  <2>4. /\ \A p \in Slots : pc'[p] = "ready" <=> pc[p] = "ready"
        /\ pc'[initproc] # "exit"
    BY <1>0, <2>2 DEF Shape, Families
  <2> QED
    BY <1>0, <2>1, <2>2, <2>3, <2>4, FamiliesKept, Zenon DEF Families
<1>7. ASSUME NEW c \in CPUs, AllocStack(c)
      PROVE  Families'
  <2>1. /\ UNCHANGED <<state, parent, killed, np>> /\ on[c] \in Slots /\ pc[on[c]] = "kstack"
        /\ pc' = [pc EXCEPT ![on[c]] = "copy", ![np[on[c]]] = "forkret"]
    BY <1>0, <1>7, Zenon DEF AllocStack, At, Shape
  <2>2. np[on[c]] \in Slots /\ pc[np[on[c]]] # "ready"
    BY <1>0, <2>1, Zenon DEF Children, Forking, Stopped
  <2>3. /\ \A p \in Slots : pc'[p] = "ready" <=> pc[p] = "ready"
        /\ pc'[initproc] # "exit"
    BY <1>0, <2>1, <2>2 DEF Shape, Families
  <2> QED
    BY <1>0, <2>1, <2>3, FamiliesKept, Zenon DEF Families
<1>8. ASSUME NEW c \in CPUs, ForkFail(c)
      PROVE  Families'
  <2>1. /\ UNCHANGED <<parent, killed>> /\ on[c] \in Slots /\ pc[on[c]] \in {"kstack", "copy"}
        /\ state' = [state EXCEPT ![np[on[c]]] = "UNUSED"]
        /\ np' = [np EXCEPT ![on[c]] = NoProc] /\ pc' = [pc EXCEPT ![on[c]] = "user"]
    BY <1>0, <1>8, Zenon DEF ForkFail, At, Goto, Shape
  <2>2. np[on[c]] \in Slots /\ state[np[on[c]]] = "EMBRYO"
    BY <1>0, <2>1, Zenon DEF Children, Forking
  <2>3. /\ \A p \in Slots : /\ state'[p] \in Alive <=> state[p] \in Alive
                            /\ state'[p] = "ZOMBIE" <=> state[p] = "ZOMBIE"
                            /\ pc'[p] = "ready" <=> pc[p] = "ready"
                            /\ pc[p] = "ready" => np'[p] = np[p]
        /\ pc'[initproc] # "exit"
    BY <1>0, <2>1, <2>2 DEF Shape, Alive, Families
  <2> QED
    BY <1>0, <2>1, <2>3, FamiliesKept, Zenon DEF Families
<1>9. ASSUME NEW c \in CPUs, TickSleep(c)
      PROVE  Families'
  <2>1. /\ UNCHANGED <<parent, killed, np>>
        /\ on[c] \in Slots /\ pc[on[c]] = "tick_sleep" /\ state[on[c]] = "RUNNING"
        /\ state' = [state EXCEPT ![on[c]] = "SLEEPING"]
        /\ pc' = [pc EXCEPT ![on[c]] = "tick_wait"]
    BY <1>0, <1>9, Zenon DEF TickSleep, At, Goto, Shape
  <2>2. /\ \A p \in Slots : /\ state'[p] \in Alive <=> state[p] \in Alive
                            /\ state'[p] = "ZOMBIE" <=> state[p] = "ZOMBIE"
                            /\ pc'[p] = "ready" <=> pc[p] = "ready"
        /\ pc'[initproc] # "exit"
    BY <1>0, <2>1 DEF Shape, Alive, Families
  <2> QED
    BY <1>0, <2>1, <2>2, FamiliesKept, Zenon DEF Families
<1>10. ASSUME NEW c \in CPUs, NEW i \in 0 .. MaxPid, Kill(c, i)
       PROVE  Families'
  <2>1. UNCHANGED <<parent, pc, np>>
    BY <1>10, Zenon DEF Kill
  <2>2. PICK p \in Slots : /\ p # initproc /\ killed' = [killed EXCEPT ![p] = TRUE]
                           /\ state' = [state EXCEPT ![p] = Unsleep(@)]
    BY <1>10, KillFinds, Zenon
  <2>3. \A q \in Slots : /\ state'[q] \in Alive <=> state[q] \in Alive
                         /\ state'[q] = "ZOMBIE" <=> state[q] = "ZOMBIE"
    BY <1>0, <2>2, Zenon DEF Unsleep, Shape, Alive
  <2>4. ~killed'[initproc]
    BY <1>0, <2>2, Zenon DEF Families
  <2> QED
    BY <1>0, <2>1, <2>3, <2>4, FamiliesKept, Zenon DEF Families
<1>11. ASSUME NEW c \in CPUs, ForkCopy(c)
       PROVE  Families'
  <2>1. /\ UNCHANGED <<state, killed, np>> /\ on[c] \in Slots /\ pc[on[c]] = "copy"
        /\ parent' = [parent EXCEPT ![np[on[c]]] = on[c]]
        /\ pc' = [pc EXCEPT ![on[c]] = "ready"]
    BY <1>0, <1>11, Zenon DEF ForkCopy, At, Goto, Shape
  <2> DEFINE q == np[on[c]]
  <2>2. q \in Slots /\ state[q] = "EMBRYO" /\ q # initproc
    BY <1>0, <2>1 DEF Children, Forking, Families, Alive
  <2>3. \A p \in Slots \ {on[c]} : pc[p] = "ready" => np[p] # q
    BY <1>0, <2>1, Zenon DEF Children, Forking
  <2> HIDE DEF q
  <2>4. parent'[q] = on[c] /\ \A p \in Slots \ {q} : parent'[p] = parent[p]
    BY <1>0, <2>1, <2>2, Zenon DEF q
  <2>5. pc'[on[c]] = "ready" /\ \A p \in Slots \ {on[c]} : pc'[p] = pc[p]
    BY <1>0, <2>1, Zenon DEF Shape
  <2>6. \A p \in Slots \ {initproc} : state'[p] \in Alive \cup {"ZOMBIE"} =>
          parent'[p] \in Slots \ {p} /\ state'[parent'[p]] \in Alive
    BY <2>1, <2>2, <2>4, Zenon DEF Families, Alive
  <2>7. \A p \in Slots : state'[p] \in {"UNUSED", "EMBRYO"} /\ parent'[p] # NoProc =>
          pc'[parent'[p]] = "ready" /\ np'[parent'[p]] = p
    BY <1>0, <2>1, <2>4, <2>5 DEF Families, q
  <2>8. \A p \in Slots : pc'[p] = "ready" => parent'[np'[p]] = p
    <3>1. ASSUME NEW p \in Slots \ {on[c]}, pc'[p] = "ready"
          PROVE  parent'[np'[p]] = p
      <4>1. pc[p] = "ready" /\ np[p] \in Slots \ {q}
        BY <1>0, <2>3, <2>5, <3>1, Zenon DEF Children, Forking
      <4> QED
        BY <2>1, <2>4, <4>1, Zenon DEF Families
    <3> QED
      BY <2>1, <2>4, <3>1, Zenon DEF q
  <2> QED
    BY <2>1, <2>2, <2>4, <2>5, <2>6, <2>7, <2>8 DEF Families
<1>12. ASSUME NEW c \in CPUs, ForkReady(c)
       PROVE  Families'
  <2>1. /\ UNCHANGED <<parent, killed>> /\ on[c] \in Slots /\ pc[on[c]] = "ready"
        /\ state[on[c]] = "RUNNING"
        /\ state' = [state EXCEPT ![np[on[c]]] = "RUNNABLE"]
        /\ np' = [np EXCEPT ![on[c]] = NoProc] /\ pc' = [pc EXCEPT ![on[c]] = "user"]
    BY <1>0, <1>12, Zenon DEF ForkReady, At, Goto, Shape
  <2> DEFINE q == np[on[c]]
  <2>2. q \in Slots /\ state[q] = "EMBRYO" /\ q # initproc /\ parent[q] = on[c]
    BY <1>0, <2>1 DEF Children, Forking, Families, Alive
  <2> HIDE DEF q
  <2>3. state'[q] = "RUNNABLE" /\ \A p \in Slots \ {q} : state'[p] = state[p]
    BY <1>0, <2>1, <2>2, Zenon DEF Shape, q
  <2>4. \A p \in Slots \ {on[c]} : pc'[p] = pc[p] /\ np'[p] = np[p]
    BY <1>0, <2>1, Zenon DEF Shape
  <2>5. \A p \in Slots \ {initproc} : state'[p] \in Alive \cup {"ZOMBIE"} =>
          parent'[p] \in Slots \ {p} /\ state'[parent'[p]] \in Alive
    BY <2>1, <2>2, <2>3 DEF Families, Alive
  <2>6. \A p \in Slots : state'[p] \in {"UNUSED", "EMBRYO"} /\ parent'[p] # NoProc =>
          pc'[parent'[p]] = "ready" /\ np'[parent'[p]] = p
    BY <1>0, <2>1, <2>3, <2>4 DEF Families, q
  <2>7. \A p \in Slots : pc'[p] = "ready" => p # on[c] /\ parent'[np'[p]] = p
    BY <1>0, <2>1, <2>4 DEF Families, Shape
  <2>8. state'[initproc] \in Alive /\ pc'[initproc] # "exit"
    BY <1>0, <2>1, <2>2, <2>3 DEF Families, Shape
  <2> QED
    BY <2>1, <2>5, <2>6, <2>7, <2>8, Zenon DEF Families
<1>13. ASSUME NEW c \in CPUs, ExitZombie(c)
       PROVE  Families'
  <2>1. ExitEffect(c) /\ on[c] \in Slots /\ killed' = killed
    BY <1>0, <1>13, ExitLeaves, Zenon DEF ExitEffect, ExitZombie, At, Shape
  <2>2. /\ pc[on[c]] = "exit" /\ state[on[c]] = "RUNNING" /\ on[c] # initproc /\ np' = np
        /\ pc'[on[c]] = "zombie" /\ \A p \in Slots \ {on[c]} : pc'[p] = pc[p]
    BY <1>0, <2>1 DEF ExitEffect, At, Families, Shape
  <2>3. /\ state'[on[c]] = "ZOMBIE"
        /\ \A p \in Slots \ {on[c]} :
             /\ state'[p] \in Alive <=> state[p] \in Alive
             /\ state'[p] = "ZOMBIE" => state[p] = "ZOMBIE"
             /\ state'[p] \in {"UNUSED", "EMBRYO"} => state[p] \in {"UNUSED", "EMBRYO"}
    BY <2>1, Zenon DEF ExitEffect, Alive
  <2>4. \A q \in Slots : parent'[q] = IF parent[q] = on[c] THEN initproc ELSE parent[q]
    BY <1>0, <1>13, ExitTells, Zenon
  <2>5. \A p \in Slots \ {initproc} : state'[p] \in Alive \cup {"ZOMBIE"} =>
          parent'[p] \in Slots \ {p} /\ state'[parent'[p]] \in Alive
    <3>1. ASSUME NEW p \in Slots \ {initproc}, state'[p] \in Alive \cup {"ZOMBIE"}
          PROVE  parent'[p] \in Slots \ {p} /\ state'[parent'[p]] \in Alive
      <4>1. parent[p] \in Slots \ {p} /\ state[parent[p]] \in Alive
        BY <2>2, <2>3, <3>1 DEF Families, Alive
      <4> QED
        BY <2>2, <2>3, <2>4, <4>1 DEF Families
    <3> QED
      BY <3>1, Zenon
  <2>6. \A p \in Slots : state'[p] \in {"UNUSED", "EMBRYO"} /\ parent'[p] # NoProc =>
          pc'[parent'[p]] = "ready" /\ np'[parent'[p]] = p
    <3>1. ASSUME NEW p \in Slots, state'[p] \in {"UNUSED", "EMBRYO"}, parent'[p] # NoProc
          PROVE  pc'[parent'[p]] = "ready" /\ np'[parent'[p]] = p
      <4>1. state[p] \in {"UNUSED", "EMBRYO"} /\ parent[p] # NoProc
        <5>1. parent[p] # NoProc
          BY <2>1, <2>4, <3>1, Nulls, Zenon
        <5>2. p # on[c]
          BY <2>3, <3>1, Zenon
        <5> QED
          BY <2>3, <3>1, <5>1, <5>2, Zenon
      <4>2. parent[p] \in Slots /\ pc[parent[p]] = "ready" /\ np[parent[p]] = p
        BY <1>0, <4>1 DEF Families
      <4> QED
        BY <2>2, <2>4, <4>2, Zenon
    <3> QED
      BY <3>1, Zenon
  <2>7. \A p \in Slots : pc'[p] = "ready" => parent'[np'[p]] = p
    BY <1>0, <2>2, <2>4 DEF Families, Children, Forking
  <2> QED
    BY <2>1, <2>2, <2>3, <2>4, <2>5, <2>6, <2>7 DEF Families
<1>14. ASSUME NEW c \in CPUs, Wait(c)
       PROVE  Families'
  <2>1. /\ on[c] \in Slots /\ pc[on[c]] \in {"user", "wait"} /\ np' = np
        /\ state[on[c]] = "RUNNING"
    BY <1>0, <1>14, Zenon DEF Wait, Syscall, At, Shape
  <2>2. WaitFamily(c)
    BY <1>14, WaitFound, Zenon
  <2>3. /\ \A p \in Slots : pc'[p] = "ready" <=> pc[p] = "ready"
        /\ pc'[initproc] # "exit"
    BY <1>0, <2>1, <2>2 DEF WaitFamily, Shape, Families
  <2>4. CASE UNCHANGED <<parent, killed>>
    <3>1. \A p \in Slots : /\ state'[p] \in Alive <=> state[p] \in Alive
                           /\ state'[p] = "ZOMBIE" <=> state[p] = "ZOMBIE"
      <4>1. CASE \E q \in Slots : parent[q] = on[c] /\ parent' = [parent EXCEPT ![q] = NoProc]
        BY <1>0, <2>1, <2>4, <4>1, Zenon
      <4>2. CASE ~\E q \in Slots : parent[q] = on[c] /\ parent' = [parent EXCEPT ![q] = NoProc]
        BY <1>0, <2>1, <2>2, <4>2, Zenon DEF WaitFamily, Alive, Shape
      <4> QED
        BY <4>1, <4>2, Zenon
    <3> QED
      BY <1>0, <2>1, <2>3, <2>4, <3>1, FamiliesKept, Zenon DEF Families
  <2>5. CASE ~UNCHANGED <<parent, killed>>
    <3>1. PICK q \in Slots :
            /\ state[q] = "ZOMBIE" /\ parent[q] = on[c]
            /\ parent' = [parent EXCEPT ![q] = NoProc]
            /\ killed' = [killed EXCEPT ![q] = FALSE]
            /\ state' = [state EXCEPT ![q] = "UNUSED"]
      BY <2>2, <2>5, Zenon DEF WaitFamily
    <3>2. /\ parent'[q] = NoProc /\ state'[q] = "UNUSED" /\ q # initproc
          /\ \A p \in Slots \ {q} : parent'[p] = parent[p] /\ state'[p] = state[p]
      BY <1>0, <3>1 DEF Shape, Families, Alive
    <3>3. \A p \in Slots \ {initproc} : state'[p] \in Alive \cup {"ZOMBIE"} =>
            parent'[p] \in Slots \ {p} /\ state'[parent'[p]] \in Alive
      <4>1. ASSUME NEW p \in Slots \ {initproc}, state'[p] \in Alive \cup {"ZOMBIE"}
            PROVE  parent'[p] \in Slots \ {p} /\ state'[parent'[p]] \in Alive
        <5>1. /\ p # q /\ parent'[p] = parent[p]
              /\ parent[p] \in Slots \ {p} /\ state[parent[p]] \in Alive
          BY <3>2, <4>1, Zenon DEF Families, Alive
        <5> QED
          BY <3>1, <3>2, <5>1, Zenon DEF Alive
      <4> QED
        BY <4>1, Zenon
    <3>4. \A p \in Slots : state'[p] \in {"UNUSED", "EMBRYO"} /\ parent'[p] # NoProc =>
            pc'[parent'[p]] = "ready" /\ np'[parent'[p]] = p
      BY <1>0, <2>1, <2>3, <3>2 DEF Families
    <3>5. \A p \in Slots : pc'[p] = "ready" => parent'[np'[p]] = p
      BY <1>0, <2>1, <2>3, <3>1, <3>2 DEF Families, Children, Forking
    <3>6. ~killed'[initproc]
      BY <1>0, <3>1, Zenon DEF Families
    <3> QED
      BY <2>3, <3>2, <3>3, <3>4, <3>5, <3>6, Zenon DEF Families
  <2> QED
    BY <2>4, <2>5, Zenon
<1>15. CASE UNCHANGED vars
  BY <1>0, <1>15, FamiliesKept, Zenon DEF vars, Families
<1> QED
  BY <1>1, <1>2, <1>3, <1>4, <1>5, <1>6, <1>7, <1>8, <1>9, <1>10, <1>11, <1>12,
     <1>13, <1>14, <1>15, Zenon DEF Next, Switch, Kernel, User

\* A step that puts nobody to sleep in wait(), and no child out of its parent's reach.
LEMMA WaitersKept ==
  ASSUME WaitersHaveReason, parent' = parent,
         \A p \in Slots : state'[p] = "SLEEPING" /\ chan'[p] = p =>
           state[p] = "SLEEPING" /\ chan[p] = p /\ killed'[p] = killed[p],
         \A p \in Slots : state'[p] = "ZOMBIE" => state[p] = "ZOMBIE"
  PROVE  WaitersHaveReason'
BY DEF WaitersHaveReason

\* No step leaves a parent asleep that has nothing to wait for, or has been told.
LEMMA WaitersStep ==
  ASSUME IInv, IInv', Families, WaitersHaveReason, [Next]_vars
  PROVE  WaitersHaveReason'
<1>0. /\ Shape /\ Shape' /\ parent \in [Slots -> Slots \cup {NoProc}]
      /\ killed \in [Slots -> BOOLEAN] /\ chan \in [Slots -> 0 .. TicksChan]
      /\ Running /\ Stopped /\ Children
  BY Shaped, Zenon DEF IInv, TypeOK
<1> USE Basics DEF table, threads, clock, cpus
<1>1. ASSUME NEW c \in CPUs, Scheduler(c)
      PROVE  WaitersHaveReason'
  <2>1. \A p \in Slots : state'[p] = state[p] \/ state'[p] = "RUNNING"
    BY <1>0, <1>1, SchedulerFinds DEF SchedulerEffect, Shape
  <2>2. UNCHANGED <<parent, chan, killed>>
    BY <1>1, Zenon DEF Scheduler
  <2> QED
    BY <2>1, <2>2, WaitersKept, Zenon
<1>2. ASSUME NEW c \in CPUs,
             \/ Sched(c) \/ Resume(c) \/ Forkret(c) \/ Exit(c) \/ TickAgain(c)
             \/ AllocStack(c) \/ \E n \in SleepTimes : SysSleep(c, n)
      PROVE  WaitersHaveReason'
  <2>1. UNCHANGED <<state, parent, chan, killed>>
    BY <1>2, Zenon DEF Sched, Resume, Forkret, Exit, TickAgain, AllocStack, SysSleep
  <2> QED
    BY <2>1, WaitersKept, Zenon
<1>3. ASSUME ClockTick \/ ClockWakeup
      PROVE  WaitersHaveReason'
  <2>1. UNCHANGED <<parent, chan, killed>>
    BY <1>3, Zenon DEF ClockTick, ClockWakeup
  <2>2. \A p \in Slots : state'[p] = state[p] \/ state'[p] = "RUNNABLE"
    BY <1>3, Zenon DEF ClockTick, ClockWakeup, Wakeup1
  <2> QED
    BY <2>1, <2>2, WaitersKept, Zenon
<1>4. ASSUME NEW c \in CPUs, Yield(c)
      PROVE  WaitersHaveReason'
  <2>1. UNCHANGED <<parent, chan, killed>>
    BY <1>4, Zenon DEF Yield
  <2>2. \A p \in Slots : state'[p] = state[p] \/ state'[p] = "RUNNABLE"
    BY <1>0, <1>4, Zenon DEF Yield, Shape
  <2> QED
    BY <2>1, <2>2, WaitersKept, Zenon
<1>5. ASSUME NEW c \in CPUs, AllocProc(c) \/ ForkFail(c) \/ ForkReady(c)
      PROVE  WaitersHaveReason'
  <2>1. UNCHANGED <<parent, chan, killed>>
    BY <1>5, Zenon DEF AllocProc, ForkFail, ForkReady
  <2>2. \A p \in Slots :
          state'[p] = state[p] \/ state'[p] \in {"UNUSED", "EMBRYO", "RUNNABLE"}
    BY <1>0, <1>5, AllocProcFinds DEF AllocProcEffect, ForkFail, ForkReady, Shape
  <2> QED
    BY <2>1, <2>2, WaitersKept, Zenon
<1>6. ASSUME NEW c \in CPUs, TickSleep(c)
      PROVE  WaitersHaveReason'
  <2>1. /\ UNCHANGED <<parent, killed>> /\ on[c] \in Slots
        /\ state' = [state EXCEPT ![on[c]] = "SLEEPING"]
        /\ chan' = [chan EXCEPT ![on[c]] = TicksChan]
    BY <1>0, <1>6, Zenon DEF TickSleep, At, Shape
  <2>2. TicksChan \notin Slots
    BY ProcConstants DEF TicksChan, Slots
  <2>3. /\ \A p \in Slots \ {on[c]} : state'[p] = state[p] /\ chan'[p] = chan[p]
        /\ state'[on[c]] = "SLEEPING" /\ chan'[on[c]] # on[c]
    BY <1>0, <2>1, <2>2, Zenon DEF Shape
  <2> QED
    BY <2>1, <2>3, WaitersKept, Zenon
<1>7. ASSUME NEW c \in CPUs, TickWoken(c)
      PROVE  WaitersHaveReason'
  <2>1. /\ UNCHANGED <<state, parent, killed>> /\ chan' = [chan EXCEPT ![on[c]] = 0]
        /\ on[c] \in Slots /\ state[on[c]] = "RUNNING"
    BY <1>0, <1>7, Zenon DEF TickWoken, At, Shape
  <2>2. \A p \in Slots \ {on[c]} : chan'[p] = chan[p]
    BY <1>0, <2>1, Zenon
  <2> QED
    BY <2>1, <2>2, WaitersKept, Zenon
<1>8. ASSUME NEW c \in CPUs, NEW i \in 0 .. MaxPid, Kill(c, i)
      PROVE  WaitersHaveReason'
  <2>1. UNCHANGED <<parent, chan>>
    BY <1>8, Zenon DEF Kill
  <2>2. PICK p \in Slots : /\ killed' = [killed EXCEPT ![p] = TRUE]
                           /\ state' = [state EXCEPT ![p] = Unsleep(@)]
    BY <1>8, KillFinds, Zenon
  <2>3. /\ state'[p] # "SLEEPING" /\ (state'[p] = "ZOMBIE" => state[p] = "ZOMBIE")
        /\ \A q \in Slots \ {p} : state'[q] = state[q] /\ killed'[q] = killed[q]
    BY <1>0, <2>2, Zenon DEF Unsleep, Shape
  <2> QED
    BY <2>1, <2>3, WaitersKept, Zenon
<1>9. ASSUME NEW c \in CPUs, ForkCopy(c)
      PROVE  WaitersHaveReason'
  <2>1. /\ UNCHANGED <<state, chan, killed>>
        /\ on[c] \in Slots /\ pc[on[c]] = "copy" /\ state[on[c]] = "RUNNING"
        /\ parent' = [parent EXCEPT ![np[on[c]]] = on[c]]
    BY <1>0, <1>9, Zenon DEF ForkCopy, At, Shape
  <2> DEFINE q == np[on[c]]
  <2>2. q \in Slots /\ state[q] = "EMBRYO"
    BY <1>0, <2>1, Zenon DEF Children, Forking
  <2>3. parent[q] = NoProc
    <3>1. ASSUME parent[q] # NoProc
          PROVE  FALSE
      <4>1. parent[q] \in Slots /\ pc[parent[q]] = "ready" /\ np[parent[q]] = q
        BY <1>0, <2>2, <3>1 DEF Families
      <4>2. parent[q] = on[c]
        BY <1>0, <2>1, <4>1, Zenon DEF Children, Forking
      <4> QED
        BY <2>1, <4>1, <4>2, Zenon
    <3> QED
      BY <3>1, Zenon
  <2> HIDE DEF q
  <2>4. parent'[q] = on[c] /\ \A p \in Slots \ {q} : parent'[p] = parent[p]
    BY <1>0, <2>1, <2>2, Zenon DEF q
  <2>5. ASSUME NEW p \in Slots, state[p] = "SLEEPING", NEW r \in Slots
        PROVE  parent'[r] = p <=> parent[r] = p
    BY <2>1, <2>3, <2>4, <2>5, Zenon
  <2> QED
    BY <2>1, <2>5 DEF WaitersHaveReason
<1>10. ASSUME NEW c \in CPUs, ExitZombie(c)
       PROVE  WaitersHaveReason'
  <2> DEFINE x == on[c]
  <2>1. /\ ExitEffect(c) /\ x \in Slots /\ UNCHANGED <<chan, killed>>
        /\ state[x] = "RUNNING" /\ x # initproc
    <3>1. ExitEffect(c)
      BY <1>0, <1>10, ExitLeaves, Zenon
    <3>2. x \in Slots /\ pc[x] = "exit" /\ state[x] = "RUNNING"
      BY <1>0, <1>10, Zenon DEF ExitZombie, At, Shape
    <3>3. UNCHANGED <<chan, killed>>
      BY <1>10, Zenon DEF ExitZombie
    <3> QED
      BY <3>1, <3>2, <3>3, Zenon DEF Families
  <2>2. /\ state'[x] = "ZOMBIE"
        /\ \A q \in Slots \ {x} : /\ state'[q] = "ZOMBIE" => state[q] = "ZOMBIE"
                                  /\ state'[q] = "SLEEPING" => state[q] = "SLEEPING"
    BY <2>1, Zenon DEF ExitEffect
  <2>3. /\ \A q \in Slots : parent'[q] = IF parent[q] = x THEN initproc ELSE parent[q]
        /\ \A q \in Slots \ {x} : state'[q] = "SLEEPING" =>
             /\ chan[q] # parent[x]
             /\ chan[q] = initproc => ~\E r \in Slots : parent[r] = x /\ state[r] = "ZOMBIE"
    BY <1>0, <1>10, ExitTells, Zenon
  <2>4. parent[x] # x
    BY <2>1, Zenon DEF Families, Alive
  <2> HIDE DEF x
  <2>5. ASSUME NEW p \in Slots, state'[p] = "SLEEPING", chan'[p] = p
        PROVE  /\ \E q \in Slots : parent'[q] = p
               /\ ~\E q \in Slots : parent'[q] = p /\ state'[q] = "ZOMBIE"
               /\ ~killed'[p]
    <3>1. p # x /\ state[p] = "SLEEPING" /\ chan[p] = p
      BY <2>1, <2>2, <2>5, Zenon
    <3>2. /\ \E q \in Slots : parent[q] = p
          /\ ~\E q \in Slots : parent[q] = p /\ state[q] = "ZOMBIE"
          /\ ~killed[p]
      BY <3>1, Zenon DEF WaitersHaveReason
    <3>3. \E q \in Slots : parent'[q] = p
      BY <2>3, <3>1, <3>2, Zenon
    <3>4. ASSUME NEW q \in Slots, parent'[q] = p, state'[q] = "ZOMBIE"
          PROVE  FALSE
      <4>1. CASE q = x
        BY <2>3, <2>4, <2>5, <3>1, <3>4, <4>1, Zenon
      <4>2. CASE q # x
        BY <2>2, <2>3, <2>5, <3>1, <3>2, <3>4, <4>2, Zenon
      <4> QED
        BY <4>1, <4>2, Zenon
    <3> QED
      BY <2>1, <3>2, <3>3, <3>4, Zenon
  <2> QED
    BY <2>5, Zenon DEF WaitersHaveReason
<1>11. ASSUME NEW c \in CPUs, Wait(c)
       PROVE  WaitersHaveReason'
  <2>1. on[c] \in Slots /\ state[on[c]] = "RUNNING" /\ WaitFamily(c)
    BY <1>0, <1>11, WaitFound, Zenon DEF Wait, Syscall, At, Shape
  <2>2. \A p \in Slots \ {on[c]} : chan'[p] = chan[p]
    BY <1>0, <2>1, Zenon DEF WaitFamily
  <2>3. CASE \E q \in Slots :
               /\ state[q] = "ZOMBIE" /\ parent[q] = on[c]
               /\ parent' = [parent EXCEPT ![q] = NoProc]
               /\ killed' = [killed EXCEPT ![q] = FALSE]
               /\ state' = [state EXCEPT ![q] = "UNUSED"]
    <3>1. PICK q \in Slots :
               /\ state[q] = "ZOMBIE" /\ parent[q] = on[c]
               /\ parent' = [parent EXCEPT ![q] = NoProc]
               /\ killed' = [killed EXCEPT ![q] = FALSE]
               /\ state' = [state EXCEPT ![q] = "UNUSED"]
      BY <2>3, Zenon
    <3>2. /\ parent'[q] = NoProc /\ state'[q] = "UNUSED"
          /\ \A p \in Slots \ {q} :
               parent'[p] = parent[p] /\ state'[p] = state[p] /\ killed'[p] = killed[p]
      BY <1>0, <3>1, Zenon DEF Shape
    <3> QED
      BY <2>1, <2>2, <3>1, <3>2 DEF WaitersHaveReason
  <2>4. CASE UNCHANGED <<state, parent, killed>>
    BY <2>1, <2>2, <2>4, WaitersKept, Zenon
  <2>5. CASE /\ \E q \in Slots : parent[q] = on[c]
             /\ \A q \in Slots : parent[q] = on[c] => state[q] # "ZOMBIE"
             /\ ~killed[on[c]] /\ UNCHANGED <<parent, killed>>
             /\ state' = [state EXCEPT ![on[c]] = "SLEEPING"]
    <3>1. /\ state'[on[c]] = "SLEEPING" /\ \A p \in Slots \ {on[c]} : state'[p] = state[p]
      BY <1>0, <2>1, <2>5, Zenon DEF Shape
    <3> QED
      BY <2>2, <2>5, <3>1 DEF WaitersHaveReason
  <2> QED
    BY <2>1, <2>3, <2>4, <2>5, Zenon DEF WaitFamily
<1>12. CASE UNCHANGED vars
  BY <1>12, WaitersKept, Zenon DEF vars
<1> QED
  BY <1>1, <1>2, <1>3, <1>4, <1>5, <1>6, <1>7, <1>8, <1>9, <1>10, <1>11, <1>12, Zenon
  DEF Next, Switch, Kernel, User

-----------------------------------------------------------------------------
(* Sleeping for a number of ticks *)

\* The time a process sleeps for has not yet come.
Early(p) == (ticks - ticks0[p]) % Wrap < wait_n[p]

\* Between the test in sys_sleep() and sleep() a process holds tickslock, so the
\* test still holds when it is asleep; and the clock interrupt holds it from the
\* tick to the wakeup.
Ticking ==
  /\ \A p \in Slots : pc[p] = "tick_sleep" =>
       Early(p) /\ \E c \in CPUs : on[c] = p /\ tickslock = c
  /\ intr = "wakeup" => tickslock = 0
  /\ \A p \in Slots : state[p] = "SLEEPING" /\ chan[p] = TicksChan /\ intr # "wakeup" =>
       Early(p)

\* A step in which the clock stands still and nobody goes to sleep on it.
LEMMA TickingKept ==
  ASSUME Ticking, UNCHANGED <<tickslock, ticks, ticks0, wait_n>>,
         intr' = "wakeup" <=> intr = "wakeup",
         \A p \in Slots : pc'[p] = "tick_sleep" =>
           pc[p] = "tick_sleep" /\ \A c \in CPUs : on[c] = p => on'[c] = p,
         \A p \in Slots : state'[p] = "SLEEPING" /\ chan'[p] = TicksChan =>
           state[p] = "SLEEPING" /\ chan[p] = TicksChan
  PROVE  Ticking'
<1>1. \A p \in Slots : Early(p)' <=> Early(p)
  BY Zenon DEF Early
<1> QED
  BY <1>1 DEF Ticking

\* Whoever is about to sleep for a tick runs, and no clock interrupt is on its way.
LEMMA TickSleeperRuns ==
  ASSUME Shape, Running, Stopped, Clock, Ticking, NEW p \in Slots, pc[p] = "tick_sleep"
  PROVE  /\ state[p] = "RUNNING" /\ intr # "wakeup" /\ tickslock # None
         /\ \A q \in Slots : pc[q] = "tick_sleep" => q = p
<1>1. state[p] = "RUNNING"
  BY Zenon DEF Shape, States, Stopped, Releases, Interruptible
<1>2. PICK c \in CPUs : on[c] = p /\ tickslock = c
  BY Zenon DEF Ticking
<1>3. intr # "wakeup"
  BY <1>2, Nulls, Zenon DEF Ticking, Clock, Executes, Interruptible
<1> QED
  BY <1>1, <1>2, <1>3, Nulls, Zenon DEF Ticking

\* The test in sys_sleep(), with tickslock just taken.
LEMMA TickLoopStep ==
  ASSUME Shape, Running, Stopped, Clock, Ticking, ticks0 \in [Slots -> 0 .. (Wrap - 1)],
         wait_n \in [Slots -> 0 .. (Wrap - 1)],
         NEW c \in CPUs, NEW t0, NEW n, on[c] \in Slots, state[on[c]] = "RUNNING",
         tickslock = None, TickLoop(c, t0, n),
         UNCHANGED <<state, chan, ticks, intr, on>>
  PROVE  Ticking'
<1>0. PICK x \in Slots : x = on[c]
  BY Zenon
<1>1. \A p \in Slots : pc[p] # "tick_sleep"
  BY TickSleeperRuns, Zenon
<1>2. intr # "wakeup"
  BY Nulls, Zenon DEF Ticking
<1>3. \A p \in Slots \ {x} : /\ pc'[p] = pc[p]
                             /\ ticks0'[p] = ticks0[p] /\ wait_n'[p] = wait_n[p]
  BY <1>0, Zenon DEF TickLoop, Goto, Shape
<1>4. \A p \in Slots \ {x} : Early(p)' <=> Early(p)
  BY <1>3, Zenon DEF Early
<1>5. pc'[x] = "tick_sleep" => Early(x)' /\ tickslock' = c
  <2>1. CASE (ticks - t0) % Wrap < n /\ ~killed[x]
    <3>1. ticks0'[x] = t0 /\ wait_n'[x] = n /\ tickslock' = c
      BY <1>0, <2>1, Zenon DEF TickLoop
    <3> QED
      BY <2>1, <3>1, Zenon DEF Early
  <2>2. CASE ~((ticks - t0) % Wrap < n /\ ~killed[x])
    <3>1. pc' = [pc EXCEPT ![x] = "user"]
      BY <1>0, <2>2, Zenon DEF TickLoop, Goto
    <3> QED
      BY <3>1, Zenon DEF Shape
  <2> QED
    BY <2>1, <2>2, Zenon
<1>6. on'[c] = x /\ state'[x] # "SLEEPING"
  BY <1>0, Zenon
<1>7. \A p \in Slots : pc'[p] = "tick_sleep" =>
        Early(p)' /\ \E d \in CPUs : on'[d] = p /\ tickslock' = d
  BY <1>1, <1>3, <1>5, <1>6, Zenon
<1>8. \A p \in Slots : state'[p] = "SLEEPING" /\ chan'[p] = TicksChan => Early(p)'
  BY <1>2, <1>4, <1>6, Zenon DEF Ticking
<1>9. intr' # "wakeup"
  BY <1>2, Zenon
<1> QED
  BY <1>7, <1>8, <1>9, Zenon DEF Ticking

\* No step loses a tick.
LEMMA TickingStep ==
  ASSUME IInv, IInv', Ticking, [Next]_vars
  PROVE  Ticking'
<1>0. /\ Shape /\ Shape' /\ chan \in [Slots -> 0 .. TicksChan]
      /\ ticks0 \in [Slots -> 0 .. (Wrap - 1)] /\ wait_n \in [Slots -> 0 .. (Wrap - 1)]
      /\ Running /\ Stopped /\ Children /\ Clock
  BY Shaped, Zenon DEF IInv, TypeOK
<1> USE Basics DEF table, threads, clock, cpus
<1>1. ASSUME NEW c \in CPUs, Scheduler(c)
      PROVE  Ticking'
  <2>1. \A p \in Slots : state'[p] = state[p] \/ state'[p] = "RUNNING"
    BY <1>0, <1>1, SchedulerFinds DEF SchedulerEffect, Shape
  <2>2. /\ UNCHANGED <<chan, threads, clock>> /\ on[c] = NoProc
        /\ \A d \in CPUs \ {c} : on'[d] = on[d]
    BY <1>0, <1>1, SchedulerFinds DEF Scheduler, SchedulerEffect, Shape
  <2> QED
    BY <2>1, <2>2, TickingKept, Zenon
<1>2. ASSUME NEW c \in CPUs, Sched(c)
      PROVE  Ticking'
  <2>1. /\ UNCHANGED <<table, threads, clock>> /\ on[c] \in Slots /\ state[on[c]] # "RUNNING"
        /\ \A d \in CPUs \ {c} : on'[d] = on[d]
    BY <1>0, <1>2, Zenon DEF Sched, Shape
  <2>2. pc[on[c]] # "tick_sleep"
    BY <1>0, <2>1, TickSleeperRuns, Zenon
  <2> QED
    BY <2>1, <2>2, TickingKept, Zenon
<1>3. ASSUME NEW c \in CPUs,
             \/ Resume(c) \/ Forkret(c) \/ Exit(c) \/ AllocStack(c) \/ ForkCopy(c)
      PROVE  Ticking'
  <2>1. UNCHANGED <<state, chan, ticks0, wait_n, clock, on>>
    BY <1>3, Zenon DEF Resume, Forkret, Exit, AllocStack, ForkCopy
  <2>2. \A p \in Slots : pc'[p] = "tick_sleep" => pc[p] = "tick_sleep"
    BY <1>0, <1>3, Zenon DEF Resume, Forkret, Exit, AllocStack, ForkCopy, Goto, Shape
  <2> QED
    BY <2>1, <2>2, TickingKept, Zenon
<1>4. ASSUME NEW c \in CPUs, AllocProc(c) \/ ForkFail(c) \/ ForkReady(c)
      PROVE  Ticking'
  <2>1. UNCHANGED <<chan, ticks0, wait_n, clock, on>>
    BY <1>4, Zenon DEF AllocProc, ForkFail, ForkReady
  <2>2. \A p \in Slots : pc'[p] = "tick_sleep" => pc[p] = "tick_sleep"
    BY <1>0, <1>4, Zenon DEF AllocProc, ForkFail, ForkReady, Goto, Shape
  <2>3. \A p \in Slots :
          state'[p] = state[p] \/ state'[p] \in {"UNUSED", "EMBRYO", "RUNNABLE"}
    BY <1>0, <1>4, AllocProcFinds DEF AllocProcEffect, ForkFail, ForkReady, Shape
  <2> QED
    BY <2>1, <2>2, <2>3, TickingKept, Zenon
<1>5. ASSUME NEW c \in CPUs, Yield(c)
      PROVE  Ticking'
  <2>1. /\ UNCHANGED <<chan, ticks0, wait_n, tickslock, ticks, on>>
        /\ intr' = "wakeup" <=> intr = "wakeup"
    BY <1>5, Zenon DEF Yield
  <2>2. \A p \in Slots : /\ pc'[p] = "tick_sleep" => pc[p] = "tick_sleep"
                         /\ state'[p] = state[p] \/ state'[p] = "RUNNABLE"
    BY <1>0, <1>5, Zenon DEF Yield, Goto, Shape
  <2> QED
    BY <2>1, <2>2, TickingKept, Zenon
<1>6. ASSUME NEW c \in CPUs, ExitZombie(c)
      PROVE  Ticking'
  <2>1. /\ UNCHANGED <<chan, ticks0, wait_n, clock, on>> /\ ExitEffect(c)
    BY <1>0, <1>6, ExitLeaves, Zenon DEF ExitZombie
  <2>2. \A p \in Slots : /\ pc'[p] = "tick_sleep" => pc[p] = "tick_sleep"
                         /\ state'[p] = "SLEEPING" => state[p] = "SLEEPING"
    BY <1>0, <2>1, Zenon DEF ExitEffect, Shape
  <2> QED
    BY <2>1, <2>2, TickingKept, Zenon
<1>7. ASSUME NEW c \in CPUs, Wait(c)
      PROVE  Ticking'
  <2>1. /\ on[c] \in Slots /\ UNCHANGED <<ticks0, wait_n, clock, on>>
    BY <1>0, <1>7, Zenon DEF Wait, Syscall, At, Shape
  <2>2. WaitFamily(c) /\ TicksChan \notin Slots
    BY <1>7, WaitFound, ProcConstants DEF TicksChan, Slots
  <2>3. \A p \in Slots : pc'[p] = "tick_sleep" => pc[p] = "tick_sleep"
    BY <1>0, <2>2, Zenon DEF WaitFamily, Shape
  <2>4. \A p \in Slots : state'[p] = "SLEEPING" /\ chan'[p] = TicksChan =>
          state[p] = "SLEEPING" /\ chan[p] = TicksChan
    <3>1. chan'[on[c]] # TicksChan /\ \A p \in Slots \ {on[c]} : chan'[p] = chan[p]
      BY <1>0, <2>1, <2>2, ProcConstants DEF WaitFamily, TicksChan
    <3>2. \A p \in Slots \ {on[c]} : state'[p] = "SLEEPING" => state[p] = "SLEEPING"
      BY <1>0, <2>2, Zenon DEF WaitFamily, Shape
    <3> QED
      BY <3>1, <3>2, Zenon
  <2> QED
    BY <2>1, <2>3, <2>4, TickingKept, Zenon
<1>8. ASSUME NEW c \in CPUs, NEW i \in 0 .. MaxPid, Kill(c, i)
      PROVE  Ticking'
  <2>1. UNCHANGED <<chan, threads, clock, on>>
    BY <1>8, Zenon DEF Kill
  <2>2. \A p \in Slots : state'[p] = "SLEEPING" => state[p] = "SLEEPING"
    BY <1>0, <1>8, KillFinds, Zenon DEF Unsleep, Shape
  <2> QED
    BY <2>1, <2>2, TickingKept, Zenon
<1>9. ASSUME ClockTick
      PROVE  Ticking'
  <2>1. /\ tickslock = None /\ tickslock' = 0 /\ intr' = "wakeup"
        /\ UNCHANGED <<table, threads, cpus>>
    BY <1>9, Zenon DEF ClockTick, TickPossible
  <2>2. \A p \in Slots : pc[p] # "tick_sleep"
    BY <1>0, <2>1, TickSleeperRuns, Zenon
  <2> QED
    BY <2>1, <2>2, Zenon DEF Ticking
<1>10. ASSUME ClockWakeup
       PROVE  Ticking'
  <2>1. /\ intr = "wakeup" /\ intr' # "wakeup" /\ pc' = pc /\ chan' = chan
        /\ state' = Wakeup1(state, TicksChan)
    BY <1>10, Zenon DEF ClockWakeup
  <2>2. \A p \in Slots : pc[p] # "tick_sleep"
    BY <1>0, <2>1, TickSleeperRuns, Zenon
  <2>3. \A p \in Slots : ~(state'[p] = "SLEEPING" /\ chan[p] = TicksChan)
    BY <2>1, Zenon DEF Wakeup1
  <2> QED
    BY <2>1, <2>2, <2>3, Zenon DEF Ticking
<1>11. ASSUME NEW c \in CPUs, NEW n \in SleepTimes, SysSleep(c, n)
       PROVE  Ticking'
  <2>1. /\ on[c] \in Slots /\ state[on[c]] = "RUNNING" /\ tickslock = None
        /\ TickLoop(c, ticks, n) /\ UNCHANGED <<state, chan, ticks, intr, on>>
    BY <1>0, <1>11, Zenon DEF SysSleep, Syscall, At, Shape
  <2> QED
    BY <1>0, <2>1, TickLoopStep, Zenon
<1>12. ASSUME NEW c \in CPUs, TickAgain(c)
       PROVE  Ticking'
  <2>1. /\ on[c] \in Slots /\ state[on[c]] = "RUNNING" /\ tickslock = None
        /\ TickLoop(c, ticks0[on[c]], wait_n[on[c]])
        /\ UNCHANGED <<state, chan, ticks, intr, on>>
    BY <1>0, <1>12, Zenon DEF TickAgain, At, Shape
  <2> QED
    BY <1>0, <2>1, TickLoopStep, Zenon
<1>13. ASSUME NEW c \in CPUs, TickSleep(c)
       PROVE  Ticking'
  <2> DEFINE x == on[c]
  <2>1. /\ x \in Slots /\ pc[x] = "tick_sleep" /\ UNCHANGED <<ticks, ticks0, wait_n, intr>>
        /\ pc' = [pc EXCEPT ![x] = "tick_wait"]
        /\ state' = [state EXCEPT ![x] = "SLEEPING"]
        /\ chan' = [chan EXCEPT ![x] = TicksChan]
    BY <1>0, <1>13, Zenon DEF TickSleep, At, Goto, Shape
  <2> HIDE DEF x
  <2>2. intr # "wakeup" /\ \A q \in Slots : pc[q] = "tick_sleep" => q = x
    BY <1>0, <2>1, TickSleeperRuns, Zenon
  <2>3. \A p \in Slots : pc'[p] # "tick_sleep"
    BY <1>0, <2>1, <2>2, Zenon DEF Shape
  <2>4. \A p \in Slots : Early(p)' <=> Early(p)
    BY <2>1, Zenon DEF Early
  <2>5. \A p \in Slots \ {x} : state'[p] = state[p] /\ chan'[p] = chan[p]
    BY <1>0, <2>1, Zenon DEF Shape
  <2>6. Early(x)
    BY <2>1, Zenon DEF Ticking
  <2> QED
    BY <2>1, <2>2, <2>3, <2>4, <2>5, <2>6, Zenon DEF Ticking
<1>14. ASSUME NEW c \in CPUs, TickWoken(c)
       PROVE  Ticking'
  <2>1. /\ UNCHANGED <<state, ticks0, wait_n, clock, on>>
        /\ on[c] \in Slots /\ state[on[c]] = "RUNNING"
        /\ chan' = [chan EXCEPT ![on[c]] = 0]
    BY <1>0, <1>14, Zenon DEF TickWoken, At, Shape
  <2>2. \A p \in Slots : /\ pc'[p] = "tick_sleep" => pc[p] = "tick_sleep"
                         /\ p # on[c] => chan'[p] = chan[p]
    BY <1>0, <1>14, <2>1, Zenon DEF TickWoken, Goto, Shape
  <2> QED
    BY <2>1, <2>2, TickingKept, Zenon
<1>15. CASE UNCHANGED vars
  BY <1>15, TickingKept, Zenon DEF vars
<1> QED
  BY <1>1, <1>2, <1>3, <1>4, <1>5, <1>6, <1>7, <1>8, <1>9, <1>10, <1>11, <1>12, <1>13,
       <1>14, <1>15
  DEF Next, Switch, Kernel, User

\* Families and clock in every reachable state.
LEMMA LifeInvariance == Spec => [](Families /\ WaitersHaveReason /\ Ticking)
<1>1. Init => Families /\ WaitersHaveReason /\ Ticking
  <2> SUFFICES ASSUME Init
               PROVE  Families /\ WaitersHaveReason /\ Ticking
    BY Zenon
  <2>1. Families
    BY Basics, Zenon DEF Init, Families, Alive
  <2>2. WaitersHaveReason
    BY Zenon DEF Init, WaitersHaveReason
  <2>3. Ticking
    BY Zenon DEF Init, Ticking
  <2> QED
    BY <2>1, <2>2, <2>3, Zenon
<1>2. IInv /\ IInv' /\ Families /\ WaitersHaveReason /\ Ticking /\ [Next]_vars =>
        Families' /\ WaitersHaveReason' /\ Ticking'
  BY FamiliesStep, WaitersStep, TickingStep, Zenon
<1> QED
  BY <1>1, <1>2, Invariance, PTL DEF Spec

\* Every process has a living parent: exit() hands its children to initproc, which
\* lives for ever, under the lock that fork() and wait() take.
THEOREM NobodyIsOrphaned == Spec => []NoOrphans
<1>1. Families => NoOrphans
  BY Basics DEF Families, NoOrphans, Alive
<1> QED
  BY <1>1, LifeInvariance, PTL

\* wait() loses no wakeup: whatever exit(), fork() and kill() do on other CPUs, no
\* process sleeps in it that has a zombie child, or no child, or has been killed.
THEOREM NoLostExit == Spec => []WaitersHaveReason
BY LifeInvariance, PTL

\* sys_sleep() loses no tick: tickslock is held from its test to sleep(), and from
\* the tick to the wakeup in trap().
THEOREM NoLostTick == Spec => []TickSleepersHaveReason
<1>1. Ticking => TickSleepersHaveReason
  BY Zenon DEF Ticking, TickSleepersHaveReason, Early
<1> QED
  BY <1>1, LifeInvariance, PTL
=============================================================================
