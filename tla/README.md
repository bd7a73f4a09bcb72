# TLA+ models of xv6 and JOS

## 1. The system

The repository holds two teaching kernels for 32-bit x86 and an exercise.

* `my-xv6-public/` is xv6: a Unix-like kernel for several CPUs, with one spin lock per data structure, sleep
  locks on buffers and inodes, and a file system over a redo log.
* `lab/` is JOS, labs 1 to 4: an exokernel with environments, reference-counted pages and one big kernel lock.
* `lab2_shell/` is a small user-level shell.

### Inventory

| part | state | operations | what makes it hard |
|---|---|---|---|
| xv6 redo log (`log.c`) | header in memory and on disk, log blocks, `outstanding`, `committing` | `begin_op`, `log_write`, `end_op`, `commit`, recovery | crashes between any two disk writes, group commit, space reserved before it is used |
| xv6 process table (`proc.c`, `trap.c`, `sysproc.c`) | `ptable`, the stack each CPU runs on, `ticks` | `fork`, `exit`, `wait`, `kill`, `sleep`, `wakeup`, `yield`, `scheduler`, `sys_sleep` | `ptable.lock` is taken on one stack and released on another; preemption; lost wakeups |
| xv6 pipes (`pipe.c`) | ring, `nread`, `nwrite`, open ends | `piperead`, `pipewrite`, `pipeclose` | two sleep channels, counters that wrap, `kill` and the last close |
| xv6 buffer cache, disk (`bio.c`, `ide.c`, `sleeplock.c`) | buffers, LRU list, `idequeue` | `bget`, `bread`, `bwrite`, `brelse`, `iderw`, `ideintr` | the spin lock is dropped before the sleep lock is taken; interrupts; recycling of pinned buffers |
| xv6 inodes, names (`fs.c`, `sysfile.c`) | inodes on disk and in memory, directory entries | `namex`, `create`, `open`, `link`, `unlink`, `mkdir`, `close` | names and inodes change between two locks; lock order; freeing on the last reference |
| xv6 file blocks, file table (`fs.c`, `file.c`, `sysfile.c`), image (`mkfs.c`) | free map, direct and indirect blocks, `ftable`, descriptors | `readi`, `writei`, `itrunc`, `open`, `dup2`, `pipe`, `link`, `unlink`, ... | every call has its own error paths; shared offsets; unlinked open files |
| xv6 memory (`kalloc.c`, `vm.c`, `exec.c`) | free pages, page directories and tables | `fork`, `exec`, `sbrk`, page faults | memory that runs out in the middle; pages that come when they are touched |
| xv6 console (`console.c`) | ring of keys with three indices | `consoleintr`, `consoleread`, `consolewrite` | editing against reading, end of file, wrap-around |
| xv6 shell, tests (`sh.c`, `usertests.c`, ...) | | the programs | pipelines that wait for each other; all of the above at once |
| JOS environments (`env.c`, `sched.c`, `trap.c`, `syscall.c`) | `envs`, free list, `curenv` of each CPU | `env_alloc`, `env_run`, `env_destroy`, `sched_yield`, `sys_exofork`, `sys_env_set_status` | what a CPU does after `unlock_kernel()`; zombies that run elsewhere |
| JOS pages (`pmap.c`, `syscall.c`) | `pp_ref`, free list, page directories and tables | `page_alloc`, `page_insert`, `page_remove`, `sys_page_*`, `env_free` | allocations that fail half way, a page that replaces itself |
| JOS console, monitor, page-fault upcalls; shell exercise | | | not modelled (section 8) |

How the parts interact: system calls of xv6 bracket their disk writes with `begin_op`/`end_op`; inodes are read
and written through buffers; `log_write` pins buffers in the cache; every sleep and wakeup goes through
`proc.c`.  Each model takes from its neighbours what it needs: `Log` has a cache of blocks whose buffers are
locked one by one, `Pipe` and `Bcache` have processes that sleep and are woken, `Fs` has inodes with sleep locks.
`System` composes the rest: a kernel whose calls are single steps, the disk that `mkfs` makes, `init`, and the
programs of the repository on top.

`PROJECT.json` lists every part (`components`), the source lines behind every definition (`map`), the hazards
at the lines where they bite (`hazards`), the runs, the faulty variants (`mutants`) and the theorems.

## 2. Modules

| module | models | promises (abstract specification) | theorems |
|---|---|---|---|
| `Log` | redo log | `AtomicDisk`: transactions survive a crash completely or not at all | `LogProofs` |
| `Proc` | process table and scheduler | | `ProcProofs` |
| `Pipe` | pipes | `Fifo`: a bounded queue of bytes | `PipeProofs` |
| `Bcache` | buffer cache, sleep locks, IDE driver | `BlockStore`: one content per block, one user at a time | `BcacheProofs` |
| `Fs` | inodes, directories, system calls on names | | |
| `Env` | JOS environments, scheduler, big kernel lock | | `EnvProofs` |
| `Pmap` | JOS pages and address spaces | | `PmapProofs` |
| `Inodes` | blocks, inodes, directories, paths; `mkfs` | `Consistent`: what a file system checker would accept | |
| `Vm` | page allocator, address spaces, page faults | | |
| `Console` | line editor and screen | | |
| `Files` | open files and all system calls on files, `exec`, `fork`, `exit`, `wait`, `sbrk`, on top of the three | | |
| `Program`, `UserTests` | programs as sequences of calls; `usertests`, `stressfs`, `zombie` | what each test requires of its calls | |
| `Shell` | the shell's parser and `runcmd`, and `echo`, `cat`, `rm`, `mkdir`, `ln` | `Meaning`: what a command does to files and output | |
| `System` | processes that run programs on the kernel of `Files`, and a user at the console | | |

`MCLog`, `MCProc`, `MCPipe`, `MCBcache`, `MCFs`, `MCEnv`, `MCPmap` and `MCSystem` instantiate them for TLC.  Definitions with
a comment "Faulty" are wrong on purpose: each replaces one definition of the model by a plausible mistake, under
which the property it belongs to is violated.

### How state and actions correspond to the code

A variable is named after the C variable or field it stands for.  A process's `pc` says where in the kernel it
is, and only distinguishes places between which other CPUs can act.

* **`Log`**.  One action per critical section of `log.lock` and one per disk write of `write_log`, `write_head`
  and `install_trans`.  `dhead`, `dlog` and `disk` survive `Crash`; everything else is lost.  `Modify` is
  `bread` plus the change to the buffer; `LogWriteCheck` is the test that `log_write` makes without the lock.
  `OpBlocks` is how many distinct blocks a call really writes; the code only promises at most `MAXOPBLOCKS`.
* **`Proc`**.  `on[c]` is the process on whose stack CPU `c` runs, `cproc[c]` the variable `proc` of the CPU.
  `Sched` is the `swtch` to the scheduler, which leaves `ptlock` held; `Forkret` and `Resume` are where the next
  process releases it.  The clock interrupt of CPU 0 is `ClockTick` (count, with `tickslock`), `ClockWakeup`
  (`wakeup(&ticks)`) and `Yield`; on the other CPUs it is only `Yield`.  `ticks` wraps modulo `Wrap`.
* **`Pipe`**.  `p->lock` is `plock`.  A byte is moved per step; `sleep` is two steps, as `sleep` takes
  `ptable.lock` before it releases `p->lock`.  `nread` and `nwrite` count modulo `Wrap`, the code's 2^32, of
  which `PIPESIZE` is a divisor.
* **`Bcache`**.  `bget`'s search, the wait for the sleep lock, `iderw`'s insertion and its sleep, and `ideintr`
  are separate steps.  The disk finishes the command it was given when it likes.  A member of `Procs` is one use of a
  buffer: a process that has two at once (`write_log`, `install_trans`, `bmap`) is two of them.
* **`Fs`**.  A system call is a sequence of small operations on inodes (`todo`), each of which holds one lock and may put
  others in front of the rest; `namex` becomes lock, look up, unlock, put, for every element of the path.  A process whose
  assertion fails stays at `panic`, one that finds no inode in the cache (`iget`) or on the disk (`ialloc`) at `exhausted`.
* **`Env`**.  Everything under the big kernel lock is one step.  `EnvPopTf` is the rest of `env_run` after
  `unlock_kernel()`, which other CPUs may overtake.  Environments make any calls in any order, with stale ids and with
  every status that the code accepts.  The history variable `lapses` notes two things that callers can bring about:
  `"undercut"`, an environment has been freed while another CPU used its page directory, after which nothing is defined
  and the model ends; and `"forced"`, `ENV_RUNNING` has been given to `sys_env_set_status`.
* **`Pmap`**.  The kernel lock makes each system call one step; the functions of `pmap.c` are operators on the
  record `pm` of the physical memory, and a call that fails half way returns the memory as it left it.  `env_free` is a step
  for each entry of its loops (`freeing`, `at`), with the lock held: no other call runs in between.
* **`Inodes`, `Vm`, `Console`, `Files`**.  The functions of `fs.c`, `kalloc.c`, `vm.c`, `console.c`, `file.c`,
  `sysfile.c`, `exec.c` and the parts of `proc.c` about files and memory are operators on one record `k`, the state
  of the kernel; each module lists the fields it is about.  They have the control of the code: the order of
  allocations, every early return and what it undoes, and every `panic` (the field `panic`).  A cell is a byte of a
  file or an entry of a directory; a page of memory has one value; the page table of the kernel half is one page.
  Inodes in memory and on disk are the same, as every change is followed by `iupdate`.
* **`Program`, `UserTests`, `Shell`**.  A program is a sequence of calls, with the variables their results go to and
  what the program requires of them: what makes the C program print "failed" is a requirement here.  Loops have
  fewer rounds, and sizes are in proportion to blocks and pages.  `Gettoken` to `Parsecmd` are the shell's parser,
  on sequences of characters, in which a word may be one character; `Runcmd` gives the calls a command makes.
* **`System`**.  A call is one step, `Call` and its siblings; a call that waits has a guard (`MayRead`, `MayWrite`,
  `MayWait`), and goes on in several steps where the code does: `write` of more than a transaction, pipes byte by
  byte, lines of the console.  Calls on names (`open`, `link`, `unlink`, `close`...) never wait here, while the code sleeps on
  inode locks in them.  Between any two steps other processes run.  What happens inside the steps is the
  subject of the other modules: `Fs` interleaves the locks of calls on names, `Pipe` the sleeps of pipes, `Proc`
  the switches, `Log` the writes to the disk.

## 3. Runs

| run | states | checks | shows |
|---|---|---|---|
| `log` | 334 k | `SleepersHaveReason`, `DurableWhenQuiet`, `NoPanic`, `AtomicSpec`, `SleeperWakes` | the log implements `AtomicDisk`, with crashes at any moment, during recovery too; who waits for space or for a commit is woken |
| `proc` | 1.70 M | `NoPanic`, `OneStackOneCPU`, `TickSleepersHaveReason`, `NoOrphans`, `WaitersHaveReason` | `ptable.lock` survives every switch; no stack is shared or freed in use; no tick or exit is missed |
| `proc_live` | | `Scheduled`, `KilledExits`, `InitReaps` | ready processes run, killed ones exit, zombies of `init` are freed |
| `pipe` | 55 k | `SleepersHaveReason`, `NotFreedInUse`, `IsFifo`, `CallsEnd` | bytes come out in order, nobody is left asleep, the page is freed once |
| `bcache` | 97 k | `NoPanic`, `RightBuffer`, `SleepersHaveReason`, `StoresBlocks` | a buffer is never recycled under its user, and blocks keep their contents |
| `fs` | 5.27 M | `NoPanic`, `RefsExact`, `LinkCountsExact`, `LookupsDoNotDeadlock` | calls on names that race keep counts and names right; the only assertion that can fail is that of `ilock` for `..` of a removed directory |
| `env` | 4.9 M | `FreeListExact`, `NoneAbandoned`, `SomebodyAwake` | no slot is lost or used twice, no running environment or zombie is left without a CPU, not all CPUs halt while there is work; each up to what callers may break (`lapses`) |
| `pmap` | 46 k | `RefsExact`, `TablesPrivate`, `ReadOnlyStays` | counts are exact and no page is lost on any path, with memory exhausted everywhere |
| `system` | 50 k | `DiskConsistent`, `RefsExact`, `PagesHaveOneOwner`, `TestsPass`, `CommandsDone`, `WritesStayInFile`, `JobsEnd` | the repository's own tests, but for `sbrktest`, pass in every order of the calls of their processes; commands at the shell do what they mean; no block, inode, file, page or pipe end is leaked or shared on any path; everything ends, but for the deadlocks of `fs_deadlock` |
| `fs_deadlock` | violation | `LocksAcyclic` | finding 1 |
| `fs_leak` | violation | `UnlinkedAreFreed` | finding 2 |
| `env_race` | violation | `OneCPU` | finding 3 |

### Bounds, and why they are enough

* `log`: three calls that write two blocks each, for a log that admits two; two values.  That is a call that waits
  for space, two that commit together, and a transaction that absorbs a second write of a block.  That the log
  cannot overflow for any number of blocks is a theorem (`PanicFree`, `TransactionFits`).
* `proc`: three slots, so that there is a parent, a child and a grandchild whose parent exits, on two CPUs;
  four process ids, so that a slot is used again; `Wrap` = 2, so that `ticks` wraps.  `proc_live` leaves out
  `sys_sleep`.
* `pipe`: two readers compete for the bytes of a writer; the write of two bytes fills the ring of two; counters
  wrap after two turns of the ring.
* `bcache`: four blocks for three buffers, two uses at a time and two pinned blocks: buffers are recycled, pinned, and
  run out (`nobufs`).  Reads of the disk succeed (`ReadStatus`).
* `fs`: two processes, four inodes, of which three fit into the cache, so that both can run out; `Workloads` are sets of calls
  that touch the same names: creations and links, directories, their removal, walks up and down, and walks up out of
  directories that are removed.
* `env`: three slots on two CPUs, two environments at boot.  There are two generations, so that ids come again.
  `env_race` has no free slot at boot, so that nobody has children: the race needs no help from callers.
* `pmap`: two environments of two page directory entries with two page table entries each; six pages are too
  few for two full address spaces, so every allocation fails somewhere.
* `system`: a block holds three cells, an inode has two direct and four indirect blocks, so that small files and
  directories use both; tests fill files to the last byte and directories beyond their direct blocks.  Eight open files, six
  descriptors, seven inodes in memory, five processes and 50 pages of two addresses are small enough for tests to
  exhaust them.  Two jobs are not from the repository: `shortage`, and `splitwrites`, in which two processes share an open
  file and write more than `filewrite` puts into one transaction.  `forktest` runs out of slots, `mem` out of memory, `descriptors` out of descriptors, `shortage` out
  of memory at each place in `fork`, `exec` and `pipe`; `iref` would run out of inodes if it lost one each round.  The ring of
  the console has eight places for lines of up to ten keys, and its indices wrap at 16.  Pipes hold two bytes, so
  that writers wait.  There are one to three processes besides `init`, the shell and the children of a pipeline
  included four.  A run that has no more calls to make has ended: no deadlock is checked, `JobsEnd` is.

Symmetry is used for processes, blocks or pages, and only in runs without liveness properties.  Deadlock is
checked in the runs of `Log` and `Proc`; in `Bcache` and `Fs` a process may panic, in `Pipe` all processes may have closed their ends, in `Fs` and `Pmap` all
workloads may be done or memory held, in `Env` the kernel monitor may have taken over.

### Fairness, and why the code justifies it

* `Log`: weak fairness for code that runs under a lock or waits for the disk; strong fairness for `end_op`, which
  every call reaches since no call of the kernel stays in a transaction for ever.
* `Proc`: clock interrupts keep coming.  Each CPU's scheduler, switches and preemptions, and each process's
  code inside the kernel, are strongly fair, since they wait for `ptable.lock`, which is free again and again but
  need not stay free (a spin lock with `xchg` gives no order: this is an assumption about the hardware).
  `init` calls `wait` for ever (`init.c`).
* `Pipe`: kernel code is strongly fair for `p->lock`; a killed process closes its ends, as `exit` does;
  readers keep reading, which is what a write that does not fit waits for.
* `Env` has no liveness property: JOS has no clock interrupt in this tree, so that a zombie need never trap, and the search of
  `sched_yield` starts again at slot 0 after every exit, so that a runnable environment need never run.
* `System`: weak fairness for each process that can go on (`Ready(p)` is written out for `ENABLED Step(p)`), which is
  what `Scheduled` of `proc_live` shows of the scheduler; and the user types everything, when there is room.

## 4. What is proved

TLAPS checks the following for every value of the constants that satisfies the modules' `ASSUME`s.

**`LogProofs`** assumes `OpsLeaveRoom`: a call writes fewer blocks than it reserves, enough for the blocks that
`mkfs` gives to the log, which holds a block less than `LOGSIZE` allows for.  For any number of processes, blocks and values:

* `TypeCorrect`, `PanicFree`, `TransactionFits`, `QuietCommit`, `NoLostWakeup`, `Durability`: the invariants;
* `CommitIsAtomic`: what a crash would recover changes only in `commit`'s `write_head`;
* `ImplementsAtomicDisk`: `Spec => AtomicSpec`.

None of the invariants is inductive.  `IInv` adds three things.  `Control`: `outstanding` is the number of processes inside a call, a commit
runs alone, buffers are locked one by one, the loops of a commit are within the log.  `Space`: the blocks logged
plus those reserved and not yet used fit; the reservations are pairs of a process and a number, so that their
cardinality is the sum that `begin_op` bounds.  `Data`: which copy of a block equals which at every place of commit and
recovery.  Refinement follows from `RecoveredStep`: every
step leaves what a crash would recover unchanged, but for `WriteHead`.

**`ProcProofs`**, for any number of slots and CPUs: `TypeCorrect`, `PanicFree` (`NoPanic`) and `StacksAreSafe`
(`OneStackOneCPU`).  `Running` says who holds `ptable.lock` across a switch: CPU `c` holds it exactly while its process has given
up its state, or has just been given the CPU and goes on at a place that releases the lock (`Releases`).  `Stopped` says
that a process that is not running goes on at such a place; `Children` that the slot a `fork` prepares is its own; `Clock`
what the clock interrupt interrupts and who holds `tickslock`.

With the same invariant it shows what a process may count on from others:

* `NobodyIsOrphaned` (`NoOrphans`): every process but `init` has a parent that has not exited.  `Families` adds that
  `init` never exits, and whose child a slot is that `fork` prepares or has given up.
* `NoLostExit` (`WaitersHaveReason`): a process that sleeps in `wait` has children, none of them a zombie, and has not been
  killed.  It follows from `Families`: `exit`, `wait` and `kill` look at the table and change it with `ptable.lock` held.
* `NoLostTick` (`TickSleepersHaveReason`): the time of whoever sleeps in `sys_sleep` has not come, or the interrupt that counted
  the last tick has yet to call `wakeup(&ticks)`.  `Ticking` adds that `tickslock` is held from the test to the sleep, and
  from the tick to the wakeup.

**`PipeProofs`**, for any sets of readers and writers, any size and any counter width that the size divides: `TypeCorrect`,
`FreedOnce` (`NotFreedInUse`), `NoLostWakeup` (`SleepersHaveReason`), and `ImplementsFifo` (`IsFifo`): the ring is a bounded queue.
The invariant adds why a process is about to sleep, and that a sleeper without a reason will be woken by the holder of `p->lock`
before it releases the lock.  The refinement needs that the counters never differ by more than the size (`Bounded`), and arithmetic: a
counter that wraps around stays at its place in the ring, because the size divides the modulus (`Places`), and the places
of the bytes held are distinct (`Apart`), so that `pipewrite` overwrites none of them.

**`BcacheProofs`**, for any number of processes, buffers and blocks:

* `BufferIsRight` (`RightBuffer`): a process that has a buffer has the only one of the block it asked for; `refcnt` is exact; no
  buffer drops out of the LRU list or is queued twice.
* `NoLostWakeup` (`SleepersHaveReason`): a buffer that is slept on has a holder or is in the driver's queue, and the disk
  works on the head of the queue.
* `NeverPanics` (`NoPanic`): `iderw` is called with the buffer's lock held and with something to read or to write.  Nothing is
  claimed of `bget`: `param.h` has 30 buffers for a log of 30 blocks and 64 processes, and relies on few processes being in the
  file system at once.
* `ImplementsBlockStore` (`StoresBlocks`), if the disk reports no error on reading (section 6 says what happens otherwise).

`IInv` relates the five places that know about a buffer: who uses it or waits for it and `refcnt` (`Refs`), its sleep
lock (`Locks`), its flags (`Flags`), the driver's queue (`Queued`) and the command the disk works on (`Commanded`).  The hard part is
`bget`, which drops `bcache.lock` before it takes the sleep lock: only the reference it has counted keeps the buffer from being
recycled.  `Clean` says that a valid buffer that is not dirty
equals the block on disk, for the refinement.

**`EnvProofs`**, for any numbers of environments and CPUs, any number of generations and any calls: `Invariance` (`IInv`, with
the types), `FreeListCorrect` (`FreeListExact`), `RunsSomewhere` (`NoneAbandoned`) and `Wakefulness` (`SomebodyAwake`).  Nothing is
assumed of callers, nor that `env_pop_tf` is not overtaken; that an environment is on one CPU only is not a theorem, as `env_race`
shows.  The properties are not inductive.  `Held` adds which CPU has an environment that is running or dying: one that is about to
enter it, or the one that its `env_cpunum` names, since `sched_yield` takes the environment of another CPU only if it is runnable or
names this CPU.  `NoneFree` adds that no CPU has a free environment, as long as none is freed under it.  `Leaving` states the
invariant for the environments that a call has changed but not yet left the kernel with.

**`PmapProofs`**, for any numbers of environments, pages, and entries of directories and tables:

* `RefsExactHolds` (`RefsExact`), `TablesPrivateHolds` (`TablesPrivate`) and `ReadOnlyStaysHolds` (`ReadOnlyStays`), for
  behaviours in which no page has `Wrap` - 1 mappings (`NoOverflow`).  The condition is real: `pp_ref` has 16 bits, and nothing in the
  code keeps an address space from mapping a page more often.

The invariant is `Good`, a predicate on a memory and the directories of the environments, so that it can be stated in the middle
of a call: the kernel may have one page in its hands that is on no list (`h`: `page_alloc` has returned it) and may have counted a
reference that it has not stored yet (`x`: `page_insert` counts first).  `Private` says that a page is the directory of one environment,
the table for one entry, or data: without it a write to a page table could change the mappings of another environment, and
counts would not follow (`WriteEntry`, `WriteTable`).  There is a lemma for each function of `pmap.c` and for each step of `env_free`; a
call is their composition.  `Emptied` says what `env_free` has done so far, so that a table is empty when it goes.

**Only model-checked**: liveness (`SleeperWakes`, `Scheduled`, `KilledExits`, `InitReaps`, `CallsEnd`,
`JobsEnd`), which is out of the prover's reach; `Fs`; and
`System`, whose path look-up and parser are recursive operators.

## 5. Findings

1. **`fs_deadlock`**: `create` releases the parent directory with the new inode locked, and `sys_unlink` likewise with the
   removed one; `iput` takes the directory's sleep lock again (`fs.c:334`).  An `unlink` of the new name in between waits for
   the inode while its holder waits for the directory.  A `link` to the new name does the same, as `dirlink` puts the inode that
   it finds there with the directory locked (`fs.c:560`); `link(f, "d/.")` waits there, alone, for a lock that it holds itself.  `LookupsDoNotDeadlock` excepts these cases.  `concreate` and `linkunlink` of
   `usertests` make such calls, and `JobsEnd` excepts them.
2. **`fs_leak`**: `iput` tests `nlink` and `ref` under the inode's lock but drops the reference after releasing it
   (`fs.c:347`).  Two processes can each decide that the other one frees the inode: nobody does.
3. **`env_race`**: `env_pop_tf` writes `env_cpunum` after `unlock_kernel()` (`env.c:574`).  A CPU that reads the old
   value in `sched_yield` runs an environment that another CPU is just starting.

## 6. Known limits of the code that the models show or assume away

* A call that writes exactly `MAXOPBLOCKS` blocks can fill the log beyond what is on disk (`log.c:218`, `LOGSIZE` against the
  header block); hence `OpsLeaveRoom`.
* `kill` between the test of `killed` and `sleep` in `piperead` or `pipewrite` is not noticed until something else happens on
  the pipe (`pipe.c:107`), and a writer killed on a full pipe returns without waking readers (`pipe.c:87`);
  `SleepersHaveReason` excepts it.
* `kill` of pid 0 marks an unused slot (`proc.c:545`); `allocproc` does not reset the mark.
* `kill(1)` is allowed (`proc.c:545`), and `init` then panics in `exit` (`proc.c:278`); `Kill` assumes that no program does it.
* A failed read leaves the buffer marked valid (`ide.c:122`); `ReadStatus` excludes it.
* `bget` panics when all buffers are in use or pinned (`bio.c:92`), `iget` and `ialloc` when there is no inode left (`fs.c:262`,
  `fs.c:213`).  The models of `Bcache` and `Fs` reach these panics; no property is about them.
* A directory that is removed while a file is created in it keeps the file's entry; `LinkCountsExact` excepts it.
* `sys_env_set_status` accepts `ENV_RUNNING` (`syscall.c:119`), which marks an environment running that no CPU has.
  `NoneAbandoned`, and `SomebodyAwake` for environments that are not runnable, except it (`"forced"`).
* `env_destroy` frees a zombie that is destroyed again, and an environment that was set `ENV_RUNNABLE` while it ran
  (`syscall.c:125`), under the CPU that runs it (`env.c:503`): `Env` ends there (`"undercut"`).
* Generations of environments wrap (`env.c:239`), so that an environment may have the id of an older one, and its permissions;
  `pp_ref` wraps (`memlayout.h:188`).
* `sbrk` with a negative argument only lowers `sz` (`sysproc.c:46`): the check "should be zero" of `sbrktest`
  (`usertests.c:1483`) finds the old byte, and the test fails there; `TestsPass` excepts this one check (`KnownFailures`).
* `fork` with memory that `sbrk` has granted and nobody has touched panics in `copyuvm` (`vm.c:345`).  A page fault that
  cannot be mapped loses its page (the field `lost`), one on a page without `PTE_U`, such as the guard page below the stack,
  panics with "remap", and one in the kernel without memory panics with "trap" (`trap.c:110`).
* `>>` of the shell does not append, and of two output redirections the one typed first gets the output (`sh.c:391`,
  `sh.c:82`); `Meaning` follows the code.
* `createdelete`'s clean-up removes only one name of each letter (`usertests.c:646`), so that its files stay.
* A key that is typed into a full ring is dropped (`console.c:217`); `MayType` excludes it.
* A path that goes through `..` of a directory that has been removed may reach `ilock`'s panic "no type" (`fs.c:310`) when the
  parent is gone, too.  The run `fs` reaches it, and `NoPanic` excepts it (`DotDotMayDangle`).
* Halted CPUs of JOS never wake up (`sched.c:93`), as there are no clock interrupts.

## 7. Plan

Done, in this order: `Log` with `AtomicDisk` and its proofs; `Proc`; `Pipe` with `Fifo`; `Bcache` with `BlockStore`; `Fs`; `Env`;
`Pmap`; `PipeProofs`; `Inodes`, `Files`, `Vm`, `Console`; `UserTests`, `Shell` and `System`; `EnvProofs`;
`BcacheProofs`, `ProcProofs`, the refinement of `Fifo`; `PmapProofs`.  Next:

| module | question |
|---|---|
| `pushcli`/`popcli`, alarms | nesting of interrupts, the equality test of the alarm |
| `umalloc.c` | the circular free list against a set of blocks |
| compositions: `Fs` over `Log` with crashes; `Env` with `Pmap` | open unlinked files after a crash; TLBs of other CPUs |

## 8. Not modelled, and why

* Boot code, interrupt controllers, multiprocessor tables, device detection: hardware set-up, once, on one CPU.
* Screen output, key maps, the JOS monitor and debug information: pure input and output.
* JOS `fork`, IPC and page-fault upcalls: stubs in this tree, or not reachable by a system call.
* User programs that only filter text (`grep`, `wc`, `ls`), the string functions, `printf` and `malloc`: sequential code without
  shared state.  `lab2_shell/sh.c` has the parser and the plumbing of xv6's shell on the calls of another system.  JOS's
  user programs: `Env` and `Pmap` let them call anything.
* Addresses that system calls get from user memory, and what `fstat` copies there: `System` passes values.
* The device behind the driver other than its order of events.
* Memory ordering: every access under a lock is taken to be sequentially consistent.
