------------------------------ MODULE EnvProofs ------------------------------
(***************************************************************************)
(* Theorems about Env, for any numbers of environments and CPUs and any    *)
(* calls of the environments.                                              *)
(***************************************************************************)
EXTENDS Env, WellFoundedInduction, TLAPS

EnvIds == [gen : Nat, slot : Slots]

Statuses == {"free", "dying", "runnable", "running", "not_runnable"}

EnvTable ==
  [Slots -> [id : EnvIds, parent : EnvIds, status : Statuses, cpunum : Cpus]]

CpuTypes ==
  /\ curenv \in [Cpus -> Slots \cup {NULL}]
  /\ cpu \in [Cpus -> {"boot", "pop", "user", "halted", "stopped"}]

\* The types of the variables.
TypeOK ==
  envs \in EnvTable /\ env_free_list \in Seq(Slots) /\ CpuTypes /\ lapses \subseteq Lapses

Running(es, s) == es[s].status \in {"running", "dying"}

\* A CPU has an environment from env_run() on until it enters the kernel again.
CpusExact ==
  \A c \in Cpus :
    /\ cpu[c] \in {"pop", "user"} => curenv[c] # NULL
    /\ cpu[c] \in {"boot", "halted"} => curenv[c] = NULL

\* Unless one has been freed under a CPU, no CPU has a free environment.
NoneFree ==
  "undercut" \notin lapses =>
    \A c \in Cpus : curenv[c] # NULL => envs[curenv[c]].status # "free"

\* What is running, or dying, is on the way to a CPU or on the CPU that it names:
\* sched_yield() gives it up on any other.
Held ==
  "forced" \notin lapses =>
    \A s \in Slots : Running(envs, s) =>
      \/ \E c \in Cpus : cpu[c] = "pop" /\ curenv[c] = s
      \/ curenv[envs[s].cpunum] = s

Scheduling == CpusExact /\ NoneFree /\ Held /\ SomebodyAwake

IInv == TypeOK /\ FreeListExact /\ Scheduling

-----------------------------------------------------------------------------
(* The way out of the kernel *)

\* Another CPU than c has s, and will not give it up.
HeldBesides(c, es, s) ==
  \/ \E d \in Cpus \ {c} : cpu[d] = "pop" /\ curenv[d] = s
  \/ es[s].cpunum # c /\ curenv[es[s].cpunum] = s

\* What CPU c has made of the environments, es, while it has environment cur or none.
Leaving(c, es, cur) ==
  /\ es \in EnvTable
  /\ cur \in Slots \cup {NULL}
  /\ cur # NULL => es[cur].status \notin {"free", "dying"}
  /\ "forced" \notin lapses' =>
       \A s \in Slots : Running(es, s) =>
         (s = cur /\ es[s].cpunum = c) \/ HeldBesides(c, es, s)
  /\ "undercut" \notin lapses' =>
       \A d \in Cpus \ {c} : curenv[d] # NULL => es[curenv[d]].status # "free"

\* The slots that are free in es are free after the step.
SameFree(es) ==
  \A s \in Slots : envs'[s].status = "free" <=> es[s].status = "free"

\* The slots are not NULL.
LEMMA NullIsNoSlot == NULL \notin Slots /\ 0 \in Slots /\ NENV \in Nat \ {0}
BY EnvConstants DEF NULL, Slots

\* The slot that sched_yield() runs is one that it has found.
LEMMA MinIsIn ==
  ASSUME NEW S, S \subseteq Slots, S # {}
  PROVE  Min(S) \in S
<1> DEFINE Less == OpToRel(<, Nat)
<1>1. S \subseteq Nat
  BY EnvConstants DEF Slots
<1>2. \A i, j \in Nat : i < j => <<i, j>> \in Less
  BY DEF OpToRel
<1>3. IsWellFoundedOn(Less, Nat)
  BY NatLessThanWellFounded
<1> HIDE DEF Less
<1>4. PICK i \in S : \A j \in S : ~ (<<j, i>> \in Less)
  BY <1>1, <1>3, WFMin, Zenon
<1>5. \A j \in S : ~ (j < i)
  BY <1>1, <1>2, <1>4, Zenon
<1>6. \A j \in S : i =< j
  BY <1>1, <1>5
<1> QED
  BY <1>6 DEF Min

\* env_run() of the environment that the CPU has, or of one that is runnable or, on
\* another CPU, running.
LEMMA EnvRunStep ==
  ASSUME TypeOK, CpusExact, NEW c \in Cpus, NEW es, NEW cur, Leaving(c, es, cur),
         NEW e \in Slots, es[e].status # "free",
         EnvRun(c, es, cur, e)
  PROVE  envs' \in EnvTable /\ CpuTypes' /\ Scheduling' /\ SameFree(es)
<1> USE NullIsNoSlot
<1>1. /\ envs' \in EnvTable
      /\ \A s \in Slots :
           /\ envs'[s].cpunum = es[s].cpunum
           /\ s = e => envs'[s].status = "running"
           /\ s # e /\ s = cur => envs'[s].status \in {"runnable", "not_runnable"}
           /\ s # e /\ s # cur => envs'[s].status = es[s].status
  BY DEF EnvRun, Left, Leaving, EnvTable, Statuses
<1>2. /\ curenv' \in [Cpus -> Slots \cup {NULL}]
      /\ cpu' \in [Cpus -> {"boot", "pop", "user", "halted", "stopped"}]
      /\ curenv'[c] = e /\ cpu'[c] = "pop"
      /\ \A d \in Cpus \ {c} : curenv'[d] = curenv[d] /\ cpu'[d] = cpu[d]
  BY DEF EnvRun, TypeOK, CpuTypes
<1>3. SameFree(es)
  BY <1>1 DEF SameFree, Leaving
<1>4. CpusExact'
  BY <1>2 DEF CpusExact
<1>5. NoneFree'
  <2> SUFFICES ASSUME "undercut" \notin lapses', NEW d \in Cpus, curenv'[d] # NULL
               PROVE  envs'[curenv'[d]].status # "free"
    BY DEF NoneFree
  <2>1. CASE d = c
    BY <1>1, <1>2, <2>1
  <2>2. CASE d # c
    BY <1>2, <1>3, <2>2 DEF Leaving, SameFree
  <2> QED
    BY <2>1, <2>2
<1>6. Held'
  <2> SUFFICES ASSUME "forced" \notin lapses', NEW s \in Slots, Running(envs, s)'
               PROVE  \/ \E d \in Cpus : cpu'[d] = "pop" /\ curenv'[d] = s
                      \/ curenv'[envs'[s].cpunum] = s
    BY DEF Held
  <2>1. CASE s = e
    BY <1>2, <2>1
  <2>2. CASE s # e
    <3>1. s # cur /\ Running(es, s)
      BY <1>1, <2>2 DEF Running
    <3>2. HeldBesides(c, es, s)
      BY <3>1 DEF Leaving
    <3>3. es[s].cpunum \in Cpus
      BY DEF Leaving, EnvTable
    <3> QED
      BY <1>1, <1>2, <3>2, <3>3 DEF HeldBesides
  <2> QED
    BY <2>1, <2>2
<1>7. SomebodyAwake'
  BY <1>2 DEF SomebodyAwake
<1> QED
  BY <1>1, <1>2, <1>3, <1>4, <1>5, <1>6, <1>7 DEF Scheduling, CpuTypes

\* sched_halt() gives up no environment but one that another CPU has, too.
LEMMA SchedHaltStep ==
  ASSUME TypeOK, CpusExact, NEW c \in Cpus, NEW es, NEW cur, Leaving(c, es, cur),
         \A s \in Slots : es[s].status # "runnable",
         cur # NULL => ~(es[cur].status = "running" /\ es[cur].cpunum = c),
         SchedHalt(c, es, cur)
  PROVE  envs' \in EnvTable /\ CpuTypes' /\ Scheduling' /\ SameFree(es)
<1> USE NullIsNoSlot
<1>1. /\ envs' = es /\ envs' \in EnvTable
      /\ curenv' \in [Cpus -> Slots \cup {NULL}]
      /\ cpu' \in [Cpus -> {"boot", "pop", "user", "halted", "stopped"}]
      /\ \/ Live(es) = {} /\ curenv'[c] = cur /\ cpu'[c] = "stopped"
         \/ Live(es) # {} /\ curenv'[c] = NULL /\ cpu'[c] = "halted"
      /\ \A d \in Cpus \ {c} : curenv'[d] = curenv[d] /\ cpu'[d] = cpu[d]
  BY DEF SchedHalt, TypeOK, CpuTypes, Leaving
<1>2. ASSUME "forced" \notin lapses', NEW s \in Slots, Running(es, s)
      PROVE  HeldBesides(c, es, s)
  BY <1>2 DEF Leaving, Running
<1>3. CpusExact'
  BY <1>1 DEF CpusExact
<1>4. NoneFree'
  <2> SUFFICES ASSUME "undercut" \notin lapses', NEW d \in Cpus, curenv'[d] # NULL
               PROVE  envs'[curenv'[d]].status # "free"
    BY DEF NoneFree
  <2>1. CASE d = c
    BY <1>1, <2>1 DEF Leaving
  <2>2. CASE d # c
    BY <1>1, <2>2 DEF Leaving
  <2> QED
    BY <2>1, <2>2
<1>5. Held'
  <2> SUFFICES ASSUME "forced" \notin lapses', NEW s \in Slots, Running(envs, s)'
               PROVE  \/ \E d \in Cpus : cpu'[d] = "pop" /\ curenv'[d] = s
                      \/ curenv'[envs'[s].cpunum] = s
    BY DEF Held
  <2>1. HeldBesides(c, es, s)
    BY <1>1, <1>2 DEF Running
  <2>2. es[s].cpunum \in Cpus
    BY DEF Leaving, EnvTable
  <2> QED
    BY <1>1, <2>1, <2>2 DEF HeldBesides
<1>6. SomebodyAwake'
  <2>1. ~ \E s \in Slots : Ready(envs, s)'
    BY <1>1 DEF Ready
  <2>2. CASE Live(es) = {}
    BY <1>1, <2>2 DEF SomebodyAwake
  <2>3. CASE Live(es) # {} /\ "forced" \notin lapses'
    <3>1. PICK s \in Slots : Running(es, s)
      BY <2>3 DEF Live, Running
    <3>2. PICK d \in Cpus \ {c} : curenv[d] = s
      <4>1. es[s].cpunum \in Cpus
        BY DEF Leaving, EnvTable
      <4> QED
        BY <1>2, <2>3, <3>1, <4>1 DEF HeldBesides
    <3>3. cpu'[d] # "halted"
      BY <1>1, <3>2 DEF CpusExact
    <3> QED
      BY <3>3 DEF SomebodyAwake
  <2>4. CASE "forced" \in lapses'
    BY <2>1, <2>4 DEF SomebodyAwake, Ready
  <2> QED
    BY <2>2, <2>3, <2>4
<1>7. SameFree(es)
  BY <1>1 DEF SameFree
<1> QED
  BY <1>1, <1>3, <1>4, <1>5, <1>6, <1>7 DEF Scheduling, CpuTypes

\* sched_yield() runs an environment that is runnable, or the one at which it starts
\* to search, if that one names the CPU, or halts the CPU.
LEMMA SchedYieldStep ==
  ASSUME TypeOK, CpusExact, NEW c \in Cpus, NEW es, NEW cur, Leaving(c, es, cur),
         SchedYield(c, es, cur)
  PROVE  envs' \in EnvTable /\ CpuTypes' /\ Scheduling' /\ SameFree(es)
<1> USE NullIsNoSlot
<1> DEFINE start == StartId(cur)
           Nth(i) == (start + i) % NENV
           ready == {i \in Slots : Ready(es, Nth(i))}
<1>1. start \in Slots
  BY DEF StartId, Leaving
<1>2. \A i \in Slots : Nth(i) \in Slots
  BY <1>1 DEF Slots
<1>3. CASE ready # {}
  <2>1. Min(ready) \in ready
    BY <1>3, MinIsIn, Zenon
  <2>2. EnvRun(c, es, cur, Nth(Min(ready)))
    BY <1>3 DEF SchedYield
  <2>3. Nth(Min(ready)) \in Slots /\ es[Nth(Min(ready))].status = "runnable"
    BY <1>2, <2>1, Zenon DEF Ready
  <2> HIDE DEF Nth, ready
  <2> QED
    BY <2>2, <2>3, EnvRunStep
<1>4. CASE ready = {} /\ es[start].status = "running" /\ es[start].cpunum = c
  <2>1. EnvRun(c, es, cur, start)
    BY <1>4 DEF SchedYield
  <2> HIDE DEF start
  <2> QED
    BY <1>1, <1>4, <2>1, EnvRunStep
<1>5. CASE ready = {} /\ ~(es[start].status = "running" /\ es[start].cpunum = c)
  <2>1. SchedHalt(c, es, cur)
    BY <1>5 DEF SchedYield
  <2>2. ASSUME NEW s \in Slots
        PROVE  es[s].status # "runnable"
    <3>1. PICK i \in Slots : Nth(i) = s
      <4>1. CASE start <= s
        <5>1. s - start \in Slots /\ Nth(s - start) = s
          BY <1>1, <4>1 DEF Slots
        <5> QED
          BY <5>1, Zenon
      <4>2. CASE s < start
        <5>1. s - start + NENV \in Slots /\ Nth(s - start + NENV) = s
          <6>1. start + (s - start + NENV) = s + NENV
            BY <1>1 DEF Slots
          <6>2. (s + NENV) % NENV = s
            BY DEF Slots
          <6> QED
            BY <1>1, <4>2, <6>1, <6>2 DEF Slots
        <5> QED
          BY <5>1, Zenon
      <4> QED
        BY <1>1, <4>1, <4>2 DEF Slots
    <3> QED
      BY <1>5, <3>1 DEF Ready
  <2>3. cur # NULL => ~(es[cur].status = "running" /\ es[cur].cpunum = c)
    BY <1>5 DEF StartId
  <2> QED
    BY <2>1, <2>2, <2>3, SchedHaltStep
<1> QED
  BY <1>3, <1>4, <1>5

\* The end of trap().
LEMMA ResumeStep ==
  ASSUME TypeOK, CpusExact, NEW c \in Cpus, NEW es, curenv[c] # NULL,
         Leaving(c, es, curenv[c]), Resume(c, es)
  PROVE  envs' \in EnvTable /\ CpuTypes' /\ Scheduling' /\ SameFree(es)
<1>1. curenv[c] \in Slots /\ es[curenv[c]].status # "free"
  BY DEF Leaving
<1>2. CASE EnvRun(c, es, curenv[c], curenv[c])
  BY <1>1, <1>2, EnvRunStep
<1>3. CASE SchedYield(c, es, curenv[c])
  BY <1>3, SchedYieldStep
<1> QED
  BY <1>2, <1>3 DEF Resume

-----------------------------------------------------------------------------
(* The free list *)

\* env_alloc() takes the first slot of the list.
LEMMA Popped ==
  ASSUME NEW l \in Seq(Slots), l # <<>>, IsInjective(l)
  PROVE  /\ Head(l) \in Range(l) /\ Head(l) \in Slots
         /\ Tail(l) \in Seq(Slots) /\ IsInjective(Tail(l))
         /\ Range(Tail(l)) = Range(l) \ {Head(l)}
<1>1. /\ Len(l) \in Nat \ {0} /\ DOMAIN l = 1 .. Len(l) /\ Head(l) = l[1]
      /\ Tail(l) \in Seq(Slots) /\ DOMAIN Tail(l) = 1 .. (Len(l) - 1)
      /\ \A i \in 1 .. (Len(l) - 1) : Tail(l)[i] = l[i + 1]
  OBVIOUS
<1>2. Head(l) \in Range(l) /\ Head(l) \in Slots
  BY <1>1 DEF Range
<1>3. IsInjective(Tail(l))
  BY <1>1 DEF IsInjective
<1>4. ASSUME NEW x \in Range(Tail(l))
      PROVE  x \in Range(l) \ {Head(l)}
  <2>1. PICK i \in 1 .. (Len(l) - 1) : x = l[i + 1]
    BY <1>1, <1>4 DEF Range
  <2> QED
    BY <1>1, <2>1 DEF Range, IsInjective
<1>5. ASSUME NEW x \in Range(l) \ {Head(l)}
      PROVE  x \in Range(Tail(l))
  <2>1. PICK i \in 2 .. Len(l) : x = l[i]
    BY <1>1, <1>5 DEF Range
  <2>2. i - 1 \in DOMAIN Tail(l) /\ Tail(l)[i - 1] = x
    BY <1>1, <2>1
  <2> QED
    BY <2>2 DEF Range
<1> QED
  BY <1>1, <1>2, <1>3, <1>4, <1>5

\* env_free() puts a slot in front of the list.
LEMMA Pushed ==
  ASSUME NEW l \in Seq(Slots), IsInjective(l), NEW e \in Slots, e \notin Range(l)
  PROVE  /\ <<e>> \o l \in Seq(Slots) /\ IsInjective(<<e>> \o l)
         /\ Range(<<e>> \o l) = Range(l) \cup {e}
<1> DEFINE m == <<e>> \o l
<1>1. /\ Len(l) \in Nat /\ DOMAIN l = 1 .. Len(l)
      /\ m \in Seq(Slots) /\ DOMAIN m = 1 .. (Len(l) + 1)
      /\ m[1] = e /\ \A i \in 2 .. (Len(l) + 1) : m[i] = l[i - 1]
  OBVIOUS
<1> HIDE DEF m
<1>2. \A i \in 2 .. (Len(l) + 1) : m[i] # e
  BY <1>1 DEF Range
<1>3. IsInjective(m)
  <2>1. SUFFICES ASSUME NEW i \in 1 .. (Len(l) + 1), NEW j \in 1 .. (Len(l) + 1), m[i] = m[j]
                 PROVE  i = j
    BY <1>1 DEF IsInjective
  <2>2. CASE i = 1 \/ j = 1
    BY <1>1, <1>2, <2>1, <2>2
  <2>3. CASE i # 1 /\ j # 1
    <3>1. /\ i - 1 \in DOMAIN l /\ j - 1 \in DOMAIN l
          /\ l[i - 1] = l[j - 1]
      BY <1>1, <2>1, <2>3
    <3>2. i - 1 = j - 1
      BY <3>1 DEF IsInjective
    <3> QED
      BY <3>2
  <2> QED
    BY <2>2, <2>3
<1>4. \A x \in Range(m) : x \in Range(l) \cup {e}
  BY <1>1 DEF Range
<1>5. ASSUME NEW x \in Range(l)
      PROVE  x \in Range(m)
  <2>1. PICK i \in 1 .. Len(l) : x = l[i]
    BY <1>1, <1>5 DEF Range
  <2>2. i + 1 \in DOMAIN m /\ m[i + 1] = x
    BY <1>1, <2>1
  <2> QED
    BY <2>2 DEF Range
<1>6. e \in Range(m)
  BY <1>1 DEF Range
<1> QED
  BY <1>1, <1>3, <1>4, <1>5, <1>6 DEF m

-----------------------------------------------------------------------------
(* Invariance *)

\* The initial state satisfies the inductive invariant.
LEMMA InitInv == Init => IInv
<1> SUFFICES ASSUME Init PROVE IInv
  OBVIOUS
<1> USE EnvConstants, NullIsNoSlot DEF Init
<1>1. TypeOK
  <2>1. envs \in EnvTable
    BY DEF EnvTable, EnvIds, NoId, Statuses, Slots, Cpus
  <2>2. env_free_list \in Seq(Slots)
    BY DEF Slots
  <2> QED
    BY <2>1, <2>2 DEF TypeOK, CpuTypes
<1>2. FreeListExact
  <2>1. /\ DOMAIN env_free_list = 1 .. (NENV - NInit)
        /\ \A i \in 1 .. (NENV - NInit) : env_free_list[i] = NInit + i - 1
    OBVIOUS
  <2>2. IsInjective(env_free_list)
    BY <2>1 DEF IsInjective
  <2>3. \A s \in Range(env_free_list) : s \in Slots /\ envs[s].status = "free"
    BY <2>1 DEF Range, Slots
  <2>4. ASSUME NEW s \in Slots, envs[s].status = "free"
        PROVE  s \in Range(env_free_list)
    <3>1. ~(s < NInit)
      BY <2>4
    <3>2. s - NInit + 1 \in DOMAIN env_free_list /\ env_free_list[s - NInit + 1] = s
      BY <2>1, <3>1 DEF Slots
    <3> QED
      BY <3>2, Zenon DEF Range
  <2> QED
    BY <2>2, <2>3, <2>4, Zenon DEF FreeListExact
<1>3. Scheduling
  <2>1. CpusExact /\ NoneFree
    BY DEF CpusExact, NoneFree
  <2>2. Held
    BY DEF Held, Running
  <2>3. SomebodyAwake
    <3>1. 0 \in Cpus
      BY DEF Cpus
    <3> QED
      BY <3>1 DEF SomebodyAwake
  <2> QED
    BY <2>1, <2>2, <2>3 DEF Scheduling
<1> QED
  BY <1>1, <1>2, <1>3 DEF IInv

\* CPU c, in the kernel for its environment, may change any environment but make none
\* running or dying that was not, and frees its own only when it leaves it.
LEMMA MayLeave ==
  ASSUME IInv, lapses \subseteq lapses', NEW c \in Cpus, cpu[c] = "user",
         NEW cur \in {curenv[c], NULL}, NEW es \in EnvTable,
         \A s \in Slots : es[s].cpunum = envs[s].cpunum,
         \A s \in Slots : Running(es, s) => Running(envs, s) \/ "forced" \in lapses',
         cur = NULL => ~Running(es, curenv[c]),
         cur # NULL => es[cur].status \notin {"free", "dying"},
         "undercut" \notin lapses' =>
           \A d \in Cpus \ {c} : curenv[d] # NULL => es[curenv[d]].status # "free"
  PROVE  Leaving(c, es, cur)
<1> USE NullIsNoSlot
<1>1. cur \in Slots \cup {NULL}
  BY DEF IInv, TypeOK, CpuTypes
<1>2. ASSUME "forced" \notin lapses', NEW s \in Slots, Running(es, s)
      PROVE  (s = cur /\ es[s].cpunum = c) \/ HeldBesides(c, es, s)
  <2>1. \/ \E d \in Cpus : cpu[d] = "pop" /\ curenv[d] = s
        \/ curenv[envs[s].cpunum] = s
    BY <1>2 DEF IInv, Scheduling, Held
  <2>2. CASE \E d \in Cpus : cpu[d] = "pop" /\ curenv[d] = s
    BY <2>2 DEF HeldBesides
  <2>3. CASE curenv[envs[s].cpunum] = s
    BY <1>2, <2>3 DEF HeldBesides
  <2> QED
    BY <2>1, <2>2, <2>3
<1> QED
  BY <1>1, <1>2 DEF Leaving

\* What is left to show of a step that comes out of the kernel with es: that the free
\* list is exact for es.
LEMMA StepEnds ==
  ASSUME NEW es, envs' \in EnvTable, CpuTypes', Scheduling', SameFree(es),
         lapses' \subseteq Lapses,
         env_free_list' \in Seq(Slots), IsInjective(env_free_list'),
         Range(env_free_list') = {s \in Slots : es[s].status = "free"}
  PROVE  IInv'
<1>1. TypeOK'
  BY DEF TypeOK
<1>2. FreeListExact'
  BY DEF FreeListExact, SameFree
<1> QED
  BY <1>1, <1>2 DEF IInv

\* The same for a step that leaves the free list alone.
LEMMA StepEndsSameList ==
  ASSUME IInv, NEW es, envs' \in EnvTable, CpuTypes', Scheduling', SameFree(es),
         lapses' \subseteq Lapses, env_free_list' = env_free_list,
         \A s \in Slots : es[s].status = "free" <=> envs[s].status = "free"
  PROVE  IInv'
<1>1. Range(env_free_list) = {s \in Slots : es[s].status = "free"}
  BY DEF IInv, FreeListExact
<1> QED
  BY <1>1, StepEnds DEF IInv, TypeOK, FreeListExact

\* The same for a step that frees environment e.
LEMMA StepEndsFreed ==
  ASSUME IInv, NEW c \in Cpus, NEW e \in Slots, envs[e].status # "free",
         envs' \in EnvTable, CpuTypes', Scheduling', SameFree(Freed(e)), ToFreeList(c, e)
  PROVE  IInv'
<1> DEFINE es == Freed(e)
<1>1. \A s \in Slots : es[s].status = "free" <=> envs[s].status = "free" \/ s = e
  BY DEF Freed, IInv, TypeOK, EnvTable, Statuses
<1> HIDE DEF es
<1>2. /\ env_free_list' \in Seq(Slots) /\ IsInjective(env_free_list')
      /\ Range(env_free_list') = Range(env_free_list) \cup {e}
  BY Pushed DEF ToFreeList, IInv, TypeOK, FreeListExact
<1>3. Range(env_free_list') = {s \in Slots : es[s].status = "free"}
  BY <1>1, <1>2 DEF IInv, FreeListExact
<1>4. lapses' \subseteq Lapses
  BY DEF ToFreeList, IInv, TypeOK, Lapses
<1> QED
  BY <1>2, <1>3, <1>4, StepEnds DEF es

\* What CPU c sees of the environment that has called the kernel.
Caller(c) ==
  /\ TypeOK /\ CpusExact
  /\ cpu[c] = "user" /\ curenv[c] \in Slots /\ curenv[c] # NULL
  /\ envs[curenv[c]].status # "free"
  /\ \A d \in Cpus : curenv[d] # NULL => envs[curenv[d]].status # "free"

\* An environment that traps exists.
LEMMA CallerExists ==
  ASSUME IInv, "undercut" \notin lapses, NEW c \in Cpus, cpu[c] = "user"
  PROVE  Caller(c)
BY NullIsNoSlot DEF Caller, IInv, TypeOK, CpuTypes, Scheduling, CpusExact, NoneFree

\* An environment that makes a call may return from it.
LEMMA MayReturn ==
  ASSUME IInv, "undercut" \notin lapses, NEW c \in Cpus, Trapped(c), lapses' = lapses
  PROVE  Caller(c) /\ Leaving(c, envs, curenv[c])
<1>1. Caller(c)
  BY CallerExists DEF Trapped
<1>2. Leaving(c, envs, curenv[c])
  BY <1>1, MayLeave DEF Caller, Trapped, IInv, TypeOK
<1> QED
  BY <1>1, <1>2

-----------------------------------------------------------------------------
(* The steps *)

\* The first sched_yield() of a CPU.
LEMMA BootStep ==
  ASSUME IInv, NEW c \in Cpus, Boot(c)
  PROVE  IInv'
<1> USE NullIsNoSlot
<1>1. curenv[c] = NULL /\ lapses' = lapses /\ env_free_list' = env_free_list
  BY DEF Boot, IInv, Scheduling, CpusExact
<1>2. Leaving(c, envs, NULL)
  <2>1. ASSUME "forced" \notin lapses', NEW s \in Slots, Running(envs, s)
        PROVE  HeldBesides(c, envs, s)
    <3>1. \/ \E d \in Cpus : cpu[d] = "pop" /\ curenv[d] = s
          \/ curenv[envs[s].cpunum] = s
      BY <1>1, <2>1 DEF IInv, Scheduling, Held
    <3> QED
      BY <1>1, <3>1 DEF HeldBesides
  <2>2. "undercut" \notin lapses' =>
          \A d \in Cpus \ {c} : curenv[d] # NULL => envs[curenv[d]].status # "free"
    BY <1>1 DEF IInv, Scheduling, NoneFree
  <2> QED
    BY <2>1, <2>2 DEF Leaving, IInv, TypeOK
<1>3. envs' \in EnvTable /\ CpuTypes' /\ Scheduling' /\ SameFree(envs)
  BY <1>2, SchedYieldStep DEF Boot, IInv, Scheduling
<1> QED
  BY <1>1, <1>3, StepEndsSameList DEF IInv, TypeOK

\* The end of env_run(): the environment names its CPU.
LEMMA EnvPopTfStep ==
  ASSUME IInv, NEW c \in Cpus, EnvPopTf(c)
  PROVE  IInv'
<1> USE NullIsNoSlot
<1>1. curenv[c] \in Slots /\ curenv[c] # NULL
  BY DEF EnvPopTf, IInv, TypeOK, CpuTypes, Scheduling, CpusExact
<1>2. /\ envs' \in EnvTable
      /\ \A s \in Slots : /\ envs'[s].status = envs[s].status
                          /\ s # curenv[c] => envs'[s].cpunum = envs[s].cpunum
      /\ envs'[curenv[c]].cpunum = c
  BY <1>1 DEF EnvPopTf, IInv, TypeOK, EnvTable
<1>3. /\ curenv' = curenv /\ cpu'[c] = "user" /\ env_free_list' = env_free_list
      /\ lapses' = lapses
      /\ cpu' \in [Cpus -> {"boot", "pop", "user", "halted", "stopped"}]
      /\ \A d \in Cpus \ {c} : cpu'[d] = cpu[d]
  BY DEF EnvPopTf, IInv, TypeOK, CpuTypes
<1>4. CpuTypes'
  BY <1>3 DEF IInv, TypeOK, CpuTypes
<1>5. CpusExact'
  BY <1>1, <1>3 DEF IInv, Scheduling, CpusExact
<1>6. NoneFree'
  BY <1>2, <1>3 DEF IInv, TypeOK, CpuTypes, Scheduling, NoneFree
<1>7. Held'
  <2> SUFFICES ASSUME "forced" \notin lapses', NEW s \in Slots, Running(envs, s)'
               PROVE  \/ \E d \in Cpus : cpu'[d] = "pop" /\ curenv'[d] = s
                      \/ curenv'[envs'[s].cpunum] = s
    BY DEF Held
  <2>1. CASE s = curenv[c]
    BY <1>2, <1>3, <2>1
  <2>2. CASE s # curenv[c]
    <3>1. \/ \E d \in Cpus : cpu[d] = "pop" /\ curenv[d] = s
          \/ curenv[envs[s].cpunum] = s
      BY <1>2, <1>3 DEF IInv, Scheduling, Held, Running
    <3> QED
      BY <1>2, <1>3, <2>2, <3>1
  <2> QED
    BY <2>1, <2>2
<1>8. SomebodyAwake'
  BY <1>3 DEF SomebodyAwake
<1>9. SameFree(envs) /\ Scheduling'
  BY <1>2, <1>5, <1>6, <1>7, <1>8 DEF SameFree, Scheduling
<1> QED
  BY <1>2, <1>3, <1>4, <1>9, StepEndsSameList DEF IInv, TypeOK

\* env_free() of the CPU's own environment, a zombie or not.
LEMMA FreeCurenvStep ==
  ASSUME IInv, "undercut" \notin lapses, NEW c \in Cpus, cpu[c] = "user", FreeCurenv(c)
  PROVE  IInv'
<1> USE NullIsNoSlot
<1> DEFINE e == curenv[c]
           es == Freed(e)
<1>1. Caller(c)
  BY CallerExists
<1>2. /\ es \in EnvTable
      /\ \A s \in Slots : /\ es[s].cpunum = envs[s].cpunum
                          /\ s = e => es[s].status = "free"
                          /\ s # e => es[s].status = envs[s].status
  BY <1>1 DEF Caller, Freed, TypeOK, EnvTable, Statuses
<1>3. /\ lapses \subseteq lapses'
      /\ "undercut" \notin lapses' => \A d \in Cpus \ {c} : curenv[d] # e
  BY DEF FreeCurenv, ToFreeList, UsedElsewhere
<1>4. "undercut" \notin lapses' =>
        \A d \in Cpus \ {c} : curenv[d] # NULL => es[curenv[d]].status # "free"
  BY <1>1, <1>2, <1>3 DEF Caller, TypeOK, CpuTypes
<1>5. SchedYield(c, es, NULL) /\ ToFreeList(c, e)
  BY DEF FreeCurenv
<1> HIDE DEF es
<1>6. /\ \A s \in Slots : Running(es, s) => Running(envs, s)
      /\ ~Running(es, curenv[c])
  BY <1>1, <1>2 DEF Running, Caller
<1>7. Leaving(c, es, NULL)
  BY <1>2, <1>3, <1>4, <1>6, MayLeave
<1>8. envs' \in EnvTable /\ CpuTypes' /\ Scheduling' /\ SameFree(es)
  BY <1>1, <1>5, <1>7, SchedYieldStep DEF Caller
<1> QED
  BY <1>1, <1>5, <1>8, StepEndsFreed DEF Caller, es

\* Calls without effect on the environments.
LEMMA OtherCallStep ==
  ASSUME IInv, "undercut" \notin lapses, NEW c \in Cpus, OtherCall(c)
  PROVE  IInv'
<1>1. Caller(c) /\ Leaving(c, envs, curenv[c])
  BY MayReturn DEF OtherCall
<1>2. envs' \in EnvTable /\ CpuTypes' /\ Scheduling' /\ SameFree(envs)
  BY <1>1, ResumeStep DEF OtherCall, Caller
<1> QED
  BY <1>2, StepEndsSameList DEF OtherCall, IInv, TypeOK

\* sys_yield().
LEMMA SysYieldStep ==
  ASSUME IInv, "undercut" \notin lapses, NEW c \in Cpus, SysYield(c)
  PROVE  IInv'
<1>1. Caller(c) /\ Leaving(c, envs, curenv[c])
  BY MayReturn DEF SysYield
<1>2. envs' \in EnvTable /\ CpuTypes' /\ Scheduling' /\ SameFree(envs)
  BY <1>1, SchedYieldStep DEF SysYield, Caller
<1> QED
  BY <1>2, StepEndsSameList DEF SysYield, IInv, TypeOK

\* The upcall of a page fault.
LEMMA PageFaultUpcallStep ==
  ASSUME IInv, "undercut" \notin lapses, NEW c \in Cpus, PageFaultUpcall(c)
  PROVE  IInv'
<1>1. Caller(c) /\ Leaving(c, envs, curenv[c])
  BY MayReturn DEF PageFaultUpcall
<1>2. envs' \in EnvTable /\ CpuTypes' /\ Scheduling' /\ SameFree(envs)
  BY <1>1, EnvRunStep DEF PageFaultUpcall, Caller
<1> QED
  BY <1>2, StepEndsSameList DEF PageFaultUpcall, IInv, TypeOK

\* sys_exofork() takes the first free slot.
LEMMA SysExoforkStep ==
  ASSUME IInv, "undercut" \notin lapses, NEW c \in Cpus, SysExofork(c)
  PROVE  IInv'
<1> USE NullIsNoSlot
<1>0. Caller(c) /\ envs[curenv[c]].status # "dying" /\ lapses' = lapses
  BY CallerExists DEF SysExofork, Trapped
<1> DEFINE e == Head(env_free_list)
           es == [EnvAlloc(e, envs[curenv[c]].id) EXCEPT ![e].status = "not_runnable"]
<1>1. /\ e \in Slots /\ envs[e].status = "free"
      /\ Tail(env_free_list) \in Seq(Slots) /\ IsInjective(Tail(env_free_list))
      /\ Range(Tail(env_free_list)) = {s \in Slots : envs[s].status = "free"} \ {e}
  BY Popped DEF SysExofork, IInv, TypeOK, FreeListExact
<1>2. /\ es \in EnvTable
      /\ \A s \in Slots \ {e} : es[s] = envs[s]
      /\ es[e].cpunum = envs[e].cpunum /\ es[e].status = "not_runnable"
  <2>1. /\ envs \in EnvTable /\ envs[e].id \in EnvIds /\ envs[e].id.gen \in Nat
        /\ envs[curenv[c]].id \in EnvIds /\ envs[e].cpunum \in Cpus
    BY <1>0, <1>1 DEF Caller, TypeOK, EnvTable, EnvIds
  <2>2. NextGen(envs[e].id.gen) \in Nat
    BY <2>1 DEF NextGen
  <2> DEFINE new == [id |-> [gen |-> NextGen(envs[e].id.gen), slot |-> envs[e].id.slot],
                     parent |-> envs[curenv[c]].id, status |-> "not_runnable",
                     cpunum |-> envs[e].cpunum]
  <2>3. new \in [id : EnvIds, parent : EnvIds, status : Statuses, cpunum : Cpus]
    BY <2>1, <2>2 DEF EnvIds, Statuses
  <2>4. es = [envs EXCEPT ![e] = new]
    BY <1>1, <2>1 DEF EnvAlloc, EnvTable, EnvIds
  <2> HIDE DEF es
  <2> QED
    BY <1>1, <2>1, <2>3, <2>4 DEF EnvTable
<1>3. Resume(c, es) /\ env_free_list' = Tail(env_free_list)
  BY DEF SysExofork
<1> HIDE DEF e, es
<1>4. /\ \A s \in Slots : Running(es, s) => Running(envs, s)
      /\ es[curenv[c]].status \notin {"free", "dying"}
      /\ \A d \in Cpus \ {c} : curenv[d] # NULL => es[curenv[d]].status # "free"
      /\ \A s \in Slots : es[s].cpunum = envs[s].cpunum
  BY <1>0, <1>1, <1>2 DEF Running, Caller, TypeOK, CpuTypes
<1>5. Leaving(c, es, curenv[c])
  BY <1>0, <1>2, <1>4, MayLeave DEF Caller
<1>6. envs' \in EnvTable /\ CpuTypes' /\ Scheduling' /\ SameFree(es)
  BY <1>0, <1>3, <1>5, ResumeStep DEF Caller
<1>7. Range(Tail(env_free_list)) = {s \in Slots : es[s].status = "free"}
  BY <1>1, <1>2
<1> QED
  BY <1>0, <1>1, <1>3, <1>6, <1>7, StepEnds DEF Caller, TypeOK

\* sys_env_set_status() of an environment that exists, whatever it is doing.
LEMMA SysEnvSetStatusStep ==
  ASSUME IInv, "undercut" \notin lapses, NEW c \in Cpus, NEW e \in Slots,
         NEW status \in {"runnable", "running"}, SysEnvSetStatus(c, e, status)
  PROVE  IInv'
<1> USE NullIsNoSlot
<1>0. /\ Caller(c) /\ envs[curenv[c]].status # "dying"
      /\ lapses' = lapses \cup {l \in {"forced"} : status = "running"}
      /\ envs[e].status # "free"
  BY CallerExists DEF SysEnvSetStatus, Trapped, Envid2env, Caller
<1> DEFINE es == [envs EXCEPT ![e].status = status]
<1>1. /\ es \in EnvTable
      /\ \A s \in Slots \ {e} : es[s] = envs[s]
      /\ es[e].cpunum = envs[e].cpunum /\ es[e].status = status
  BY DEF IInv, TypeOK, EnvTable, Statuses
<1>2. Resume(c, es) /\ env_free_list' = env_free_list
  BY DEF SysEnvSetStatus
<1> HIDE DEF es
<1>3. /\ \A s \in Slots : Running(es, s) => Running(envs, s) \/ "forced" \in lapses'
      /\ es[curenv[c]].status \notin {"free", "dying"}
      /\ \A d \in Cpus \ {c} : curenv[d] # NULL => es[curenv[d]].status # "free"
      /\ \A s \in Slots : es[s].cpunum = envs[s].cpunum
  BY <1>0, <1>1 DEF Running, Caller, TypeOK, CpuTypes
<1>4. Leaving(c, es, curenv[c])
  BY <1>0, <1>1, <1>3, MayLeave DEF Caller
<1>5. envs' \in EnvTable /\ CpuTypes' /\ Scheduling' /\ SameFree(es)
  BY <1>0, <1>2, <1>4, ResumeStep DEF Caller
<1>6. \A s \in Slots : es[s].status = "free" <=> envs[s].status = "free"
  BY <1>0, <1>1
<1>7. lapses' \subseteq Lapses
  BY <1>0 DEF Caller, TypeOK, Lapses
<1> QED
  BY <1>2, <1>5, <1>6, <1>7, StepEndsSameList

\* sys_env_destroy() of a child that runs elsewhere, of another one, and of the caller.
LEMMA SysEnvDestroyStep ==
  ASSUME IInv, "undercut" \notin lapses, NEW c \in Cpus, NEW e \in Slots,
         SysEnvDestroy(c, e)
  PROVE  IInv'
<1> USE NullIsNoSlot
<1>0. /\ Caller(c) /\ envs[curenv[c]].status # "dying" /\ envs[e].status # "free"
      /\ EnvDestroy(c, e)
  BY CallerExists DEF SysEnvDestroy, Trapped, Envid2env, Caller
<1>1. CASE RunsElsewhere(c, e) /\ Resume(c, [envs EXCEPT ![e].status = "dying"])
            /\ UNCHANGED <<env_free_list, lapses>>
  <2> DEFINE es == [envs EXCEPT ![e].status = "dying"]
  <2>1. /\ es \in EnvTable
        /\ \A s \in Slots \ {e} : es[s] = envs[s]
        /\ es[e].cpunum = envs[e].cpunum /\ es[e].status = "dying"
        /\ Resume(c, es)
    BY <1>1 DEF IInv, TypeOK, EnvTable, Statuses
  <2>2. e # curenv[c] /\ envs[e].status = "running"
    BY <1>1 DEF RunsElsewhere
  <2> HIDE DEF es
  <2>3. /\ \A s \in Slots : Running(es, s) => Running(envs, s)
        /\ es[curenv[c]].status \notin {"free", "dying"}
        /\ \A d \in Cpus \ {c} : curenv[d] # NULL => es[curenv[d]].status # "free"
        /\ \A s \in Slots : es[s].cpunum = envs[s].cpunum
    BY <1>0, <2>1, <2>2 DEF Running, Caller, TypeOK, CpuTypes
  <2>4. Leaving(c, es, curenv[c])
    BY <1>0, <1>1, <2>1, <2>3, MayLeave DEF Caller
  <2>5. envs' \in EnvTable /\ CpuTypes' /\ Scheduling' /\ SameFree(es)
    BY <1>0, <2>1, <2>4, ResumeStep DEF Caller
  <2>6. \A s \in Slots : es[s].status = "free" <=> envs[s].status = "free"
    BY <2>1, <2>2
  <2> QED
    BY <1>1, <2>5, <2>6, StepEndsSameList DEF IInv, TypeOK
<1>2. CASE e # curenv[c] /\ Resume(c, Freed(e)) /\ ToFreeList(c, e)
  <2> DEFINE es == Freed(e)
  <2>1. /\ es \in EnvTable
        /\ \A s \in Slots \ {e} : es[s] = envs[s]
        /\ es[e].cpunum = envs[e].cpunum /\ es[e].status = "free"
    BY DEF Freed, IInv, TypeOK, EnvTable, Statuses
  <2>2. /\ lapses \subseteq lapses'
        /\ "undercut" \notin lapses' => \A d \in Cpus \ {c} : curenv[d] # e
    BY <1>2 DEF ToFreeList, UsedElsewhere
  <2>3. Resume(c, es)
    BY <1>2
  <2> HIDE DEF es
  <2>4. /\ \A s \in Slots : Running(es, s) => Running(envs, s)
        /\ es[curenv[c]].status \notin {"free", "dying"}
        /\ \A s \in Slots : es[s].cpunum = envs[s].cpunum
    BY <1>0, <1>2, <2>1 DEF Running, Caller, TypeOK, CpuTypes
  <2>5. "undercut" \notin lapses' =>
          \A d \in Cpus \ {c} : curenv[d] # NULL => es[curenv[d]].status # "free"
    BY <1>0, <2>1, <2>2 DEF Caller, TypeOK, CpuTypes
  <2>6. Leaving(c, es, curenv[c])
    BY <1>0, <2>1, <2>2, <2>4, <2>5, MayLeave DEF Caller
  <2>7. envs' \in EnvTable /\ CpuTypes' /\ Scheduling' /\ SameFree(es)
    BY <1>0, <2>3, <2>6, ResumeStep DEF Caller
  <2> QED
    BY <1>0, <1>2, <2>7, StepEndsFreed DEF es
<1>3. CASE FreeCurenv(c)
  BY <1>0, <1>3, FreeCurenvStep DEF Caller
<1> QED
  BY <1>0, <1>1, <1>2, <1>3 DEF EnvDestroy

\* Every step preserves the invariant.
LEMMA StepInv ==
  ASSUME IInv, [Next]_vars
  PROVE  IInv'
<1>1. ASSUME "undercut" \notin lapses, NEW c \in Cpus, Trap(c)
      PROVE  IInv'
  <2>1. ASSUME TrapZombie(c)
        PROVE  IInv'
    BY <1>1, <2>1, FreeCurenvStep DEF TrapZombie
  <2> QED
    BY <1>1, <2>1, OtherCallStep, SysYieldStep, PageFaultUpcallStep, SysExoforkStep,
       SysEnvSetStatusStep, SysEnvDestroyStep
    DEF Trap
<1>2. CASE UNCHANGED vars
  BY <1>2
  DEF vars, IInv, TypeOK, CpuTypes, FreeListExact, Scheduling, CpusExact, NoneFree, Held,
      Running, SomebodyAwake, Ready, Live
<1> QED
  BY <1>1, <1>2, BootStep, EnvPopTfStep DEF Next

-----------------------------------------------------------------------------
(* The theorems *)

\* env.c, sched.c and syscall.c keep the environments, the free list and what each CPU
\* runs well formed, and consistent with each other.
THEOREM Invariance == Spec => []IInv
BY InitInv, StepInv, PTL DEF Spec

\* No slot of an environment is lost, or twice in the free list, whatever calls the
\* environments make, until one is freed under a CPU that runs it.
THEOREM FreeListCorrect == Spec => []FreeListExact
<1>1. IInv => FreeListExact
  BY DEF IInv
<1> QED
  BY <1>1, Invariance, PTL

\* No environment is left running, or dying, on no CPU, unless a caller makes it so with
\* ENV_RUNNING: not when env_pop_tf() is overtaken, nor when callers start and destroy
\* environments that run.
THEOREM RunsSomewhere == Spec => []NoneAbandoned
<1>1. IInv => NoneAbandoned
  <2> SUFFICES ASSUME IInv, "forced" \notin lapses, NEW s \in Slots, Running(envs, s)
               PROVE  \E c \in Cpus : curenv[c] = s
    BY DEF NoneAbandoned, Running
  <2>1. envs[s].cpunum \in Cpus
    BY DEF IInv, TypeOK, EnvTable
  <2> QED
    BY <2>1 DEF IInv, Scheduling, Held
<1> QED
  BY <1>1, Invariance, PTL

\* sched_halt() halts no CPU that is the last one awake while an environment is runnable,
\* nor, unless a caller has used ENV_RUNNING, while one is running or dying.
THEOREM Wakefulness == Spec => []SomebodyAwake
<1>1. IInv => SomebodyAwake
  BY DEF IInv, Scheduling
<1> QED
  BY <1>1, Invariance, PTL
=============================================================================
