-------------------------------- MODULE Env --------------------------------
(***************************************************************************)
(* Environments of JOS (lab/kern/env.c), the scheduler (sched.c), the      *)
(* entry to the kernel (trap.c, init.c) and the system calls on            *)
(* environments (syscall.c), on several CPUs.                              *)
(*                                                                         *)
(* What runs under the big kernel lock is one step.  Outside it is only    *)
(* the user's code and the end of env_run(): env_pop_tf() notes the CPU in *)
(* the environment after unlock_kernel().                                  *)
(*                                                                         *)
(* Environments make any calls, in any order.                              *)
(***************************************************************************)
EXTENDS Integers, Sequences, Functions, FiniteSetsExt

CONSTANTS
  NENV, NCPU,
  NInit,        \* environments that i386_init() creates
  MaxGen        \* the last generation of an env_id, 2^19 - 1

ASSUME EnvConstants ==
  /\ NENV \in Nat \ {0} /\ NCPU \in Nat \ {0}
  /\ NInit \in 1 .. NENV
  /\ MaxGen \in Nat \ {0}

VARIABLES
  envs,           \* env_id, env_parent_id, env_status and env_cpunum
  env_free_list,
  curenv,         \* cpu_env of each CPU
  cpu,            \* where a CPU is
  lapses          \* history: what callers have done to an environment that runs

vars == <<envs, env_free_list, curenv, cpu, lapses>>

Slots == 0 .. (NENV - 1)
Cpus == 0 .. (NCPU - 1)
NULL == NENV

\* An env_id is a generation and a slot.
NoId == [gen |-> 0, slot |-> 0]

\* "undercut": an environment has been freed while another CPU used its page
\* directory. "forced": ENV_RUNNING has been given to sys_env_set_status().
Lapses == {"undercut", "forced"}

\* env_init(), and i386_init() up to sched_yield().
Init ==
  /\ envs = [s \in Slots |->
       [id |-> [gen |-> IF s < NInit THEN 1 ELSE 0, slot |-> s], parent |-> NoId,
        status |-> IF s < NInit THEN "runnable" ELSE "free", cpunum |-> 0]]
  /\ env_free_list = [i \in 1 .. (NENV - NInit) |-> NInit + i - 1]
  /\ curenv = [c \in Cpus |-> NULL]
  /\ cpu = [c \in Cpus |-> "boot"]
  /\ lapses = {}

-----------------------------------------------------------------------------
(* env_run(), sched_yield() and sched_halt(): the end of every way through  *)
(* the kernel.  "es" is what the way has made of envs, "cur" of curenv.     *)

Left(es, cur) ==
  [s \in Slots |->
     IF s = cur /\ es[s].status = "running"
     THEN [es[s] EXCEPT !.status = "runnable"] ELSE es[s]]

EnvRun(c, es, cur, e) ==
  /\ envs' = [Left(es, cur) EXCEPT ![e].status = "running"]
  /\ curenv' = [curenv EXCEPT ![c] = e]
  /\ cpu' = [cpu EXCEPT ![c] = "pop"]

Live(es) == {s \in Slots : es[s].status \in {"runnable", "running", "dying"}}

\* With nothing left to run the monitor takes the CPU, and keeps the lock.
SchedHalt(c, es, cur) ==
  /\ envs' = es
  /\ curenv' = [curenv EXCEPT ![c] = IF Live(es) = {} THEN cur ELSE NULL]
  /\ cpu' = [cpu EXCEPT ![c] = IF Live(es) = {} THEN "stopped" ELSE "halted"]

StartId(cur) == IF cur = NULL THEN 0 ELSE cur

\* Faulty: all but the last slot.
ReadyButLast(es, s) == es[s].status = "runnable" /\ s < NENV - 1

Ready(es, s) == es[s].status = "runnable"

SchedYield(c, es, cur) ==
  LET start == StartId(cur)
      Nth(i) == (start + i) % NENV
      ready == {i \in Slots : Ready(es, Nth(i))}
  IN IF ready # {} THEN EnvRun(c, es, cur, Nth(Min(ready)))
     ELSE IF es[start].status = "running" /\ es[start].cpunum = c
     THEN EnvRun(c, es, cur, start)
     ELSE SchedHalt(c, es, cur)

\* The end of trap().
Resume(c, es) ==
  IF es[curenv[c]].status = "running"
  THEN EnvRun(c, es, curenv[c], curenv[c])
  ELSE SchedYield(c, es, curenv[c])

-----------------------------------------------------------------------------
(* Into the kernel *)

\* No CPU holds the lock.
Unlocked == \A c \in Cpus : cpu[c] # "stopped"

\* i386_init() holds the lock while it boots the others, which wait for it
\* in mp_main().
Boot(c) ==
  /\ cpu[c] = "boot" /\ Unlocked
  /\ c = 0 \/ cpu[0] # "boot"
  /\ SchedYield(c, envs, NULL)
  /\ UNCHANGED <<env_free_list, lapses>>

\* env_pop_tf(), after unlock_kernel().
EnvPopTf(c) ==
  /\ cpu[c] = "pop"
  /\ envs' = [envs EXCEPT ![curenv[c]].cpunum = c]
  /\ cpu' = [cpu EXCEPT ![c] = "user"]
  /\ UNCHANGED <<env_free_list, curenv, lapses>>

\* trap() from user mode; a zombie gets no further.
Trapped(c) ==
  /\ cpu[c] = "user" /\ Unlocked
  /\ envs[curenv[c]].status # "dying"

(* env_free() *)

Freed(e) == [envs EXCEPT ![e].status = "free"]

UsedElsewhere(c, e) == \E d \in Cpus \ {c} : curenv[d] = e

ToFreeList(c, e) ==
  /\ env_free_list' = <<e>> \o env_free_list
  /\ lapses' = lapses \cup {l \in {"undercut"} : UsedElsewhere(c, e)}

FreeCurenv(c) == SchedYield(c, Freed(curenv[c]), NULL) /\ ToFreeList(c, curenv[c])

\* Faulty: the zombie is forgotten.
TrapZombieKept(c) ==
  /\ cpu[c] = "user" /\ Unlocked
  /\ envs[curenv[c]].status = "dying"
  /\ SchedYield(c, envs, NULL)
  /\ UNCHANGED <<env_free_list, lapses>>

TrapZombie(c) ==
  /\ cpu[c] = "user" /\ Unlocked
  /\ envs[curenv[c]].status = "dying"
  /\ FreeCurenv(c)

-----------------------------------------------------------------------------
(* System calls and faults of the current environment *)

\* Calls that leave the environments alone, or fail.
OtherCall(c) ==
  /\ Trapped(c)
  /\ Resume(c, envs)
  /\ UNCHANGED <<env_free_list, lapses>>

SysYield(c) ==
  /\ Trapped(c)
  /\ SchedYield(c, envs, curenv[c])
  /\ UNCHANGED <<env_free_list, lapses>>

\* With an upcall, page_fault_handler() goes back to the environment whatever
\* its status.
PageFaultUpcall(c) ==
  /\ Trapped(c)
  /\ EnvRun(c, envs, curenv[c], curenv[c])
  /\ UNCHANGED <<env_free_list, lapses>>

NextGen(g) == IF g = MaxGen THEN 1 ELSE g + 1

EnvAlloc(e, parent) ==
  [envs EXCEPT ![e].id.gen = NextGen(@), ![e].parent = parent, ![e].status = "runnable"]

SysExofork(c) ==
  /\ Trapped(c)
  /\ env_free_list # <<>>
  /\ LET e == Head(env_free_list) IN
     Resume(c, [EnvAlloc(e, envs[curenv[c]].id) EXCEPT ![e].status = "not_runnable"])
  /\ env_free_list' = Tail(env_free_list)
  /\ UNCHANGED lapses

\* Faulty: no check that the environment of the id still exists.
Envid2envStale(c) == {curenv[c]} \cup {e \in Slots : envs[e].parent = envs[curenv[c]].id}

\* The environments that envid2env() finds, with permission, for id 0 and for
\* the ids of environments.
Envid2env(c) ==
  {curenv[c]} \cup
  {e \in Slots : envs[e].status # "free" /\ envs[e].parent = envs[curenv[c]].id}

SettableStatus == {"runnable", "running"}

SysEnvSetStatus(c, e, status) ==
  /\ Trapped(c)
  /\ e \in Envid2env(c) /\ status \in SettableStatus
  /\ Resume(c, [envs EXCEPT ![e].status = status])
  /\ lapses' = lapses \cup {l \in {"forced"} : status = "running"}
  /\ UNCHANGED env_free_list

RunsElsewhere(c, e) == envs[e].status = "running" /\ curenv[c] # e

EnvDestroy(c, e) ==
  \/ /\ RunsElsewhere(c, e)
     /\ Resume(c, [envs EXCEPT ![e].status = "dying"])
     /\ UNCHANGED <<env_free_list, lapses>>
  \/ /\ ~RunsElsewhere(c, e) /\ e # curenv[c]
     /\ Resume(c, Freed(e))
     /\ ToFreeList(c, e)
  \/ e = curenv[c] /\ FreeCurenv(c)

\* A fault destroys the environment that it happens in, too.
SysEnvDestroy(c, e) ==
  /\ Trapped(c)
  /\ e \in Envid2env(c)
  /\ EnvDestroy(c, e)

-----------------------------------------------------------------------------

Trap(c) ==
  \/ TrapZombie(c) \/ OtherCall(c) \/ SysYield(c) \/ PageFaultUpcall(c) \/ SysExofork(c)
  \/ \E e \in Slots :
       SysEnvDestroy(c, e) \/ \E s \in {"runnable", "running"} : SysEnvSetStatus(c, e, s)

\* What happens on page tables that have been freed is not defined: nothing is
\* said of it.
Next ==
  /\ "undercut" \notin lapses
  /\ \E c \in Cpus : Boot(c) \/ EnvPopTf(c) \/ Trap(c)

Spec == Init /\ [][Next]_vars

-----------------------------------------------------------------------------
(* Properties *)

\* "Never choose an environment that's currently running on another CPU":
\* sched_yield() puts no environment on two CPUs.
OneCPU ==
  \A c, d \in Cpus : curenv[c] = curenv[d] /\ curenv[c] # NULL => c = d

\* env_alloc(), env_free() and sys_env_set_status() keep the free list: it has each
\* free slot, once, and no other, whatever callers do to their living and their dead
\* children, until env_destroy() frees an environment under a CPU that runs it (a
\* zombie that is destroyed again, or one set ENV_RUNNABLE while it ran).
FreeListExact ==
  /\ IsInjective(env_free_list)
  /\ Range(env_free_list) = {s \in Slots : envs[s].status = "free"}

\* What is running, or a zombie, is what some CPU has: sched_yield(), sched_halt()
\* and env_destroy() lose none on the way, so a zombie is freed when that CPU traps.
\* Only a caller can make one that runs nowhere, with ENV_RUNNING, which the comment
\* of sys_env_set_status() excludes and its code allows.
NoneAbandoned ==
  "forced" \notin lapses =>
    \A s \in Slots :
      envs[s].status \in {"running", "dying"} => \E c \in Cpus : curenv[c] = s

\* As a halted CPU does not wake up, somebody must stay awake as long as there is
\* an environment to run. sched_halt() leaves a runnable one to nobody, and one that
\* is running or dying to a CPU that has it, unless a caller has used ENV_RUNNING.
SomebodyAwake ==
  \/ \E s \in Slots : Ready(envs, s)
  \/ "forced" \notin lapses /\ Live(envs) # {}
  => \E c \in Cpus : cpu[c] # "halted"
=============================================================================
