------------------------------- MODULE System -------------------------------
(***************************************************************************)
(* The whole system: the kernel of Files, on a disk that mkfs has made,    *)
(* init, and the programs that it runs, the shell with a user at the       *)
(* console or a test. The processes run concurrently, and their calls come *)
(* in every order.                                                         *)
(***************************************************************************)
EXTENDS Shell, UserTests

CONSTANT Jobs  \* what to run: see Job

VARIABLES
  k,       \* the kernel: see Inodes, Vm, Console and Files
  prog,    \* what each process has yet to do
  vars,    \* its variables
  part,    \* what its read() or write() has read or written so far
  got,     \* what its loop has read so far
  keys,    \* what the user has yet to type
  failed,  \* the calls that did not do what their program requires
  job      \* the job

allvars == <<k, prog, vars, part, got, keys, failed, job>>

\* A program and its argument, with the files on the disk; for a shell, the commands
\* that are run, the keys the user types, and the text that cat reads from the
\* console. In a job with background commands the output comes in any order.
Job(program, arg, image) ==
  [program |-> program, arg |-> arg, image |-> image, cmds |-> <<>>, keys |-> <<>>,
   text |-> <<>>, ordered |-> TRUE]

-----------------------------------------------------------------------------
(* Programs *)

\* main() of init: the console, which it makes if it is not there, as descriptors 0,
\* 1 and 2; then a program, which is the shell in the code, and every process that is
\* left to init. The program is not started again.
initmain(argv) ==
  <<Open("fd", P("console"), RDWR, "fail"), Mknod(P("console")),
    Open("fd", P("console"), RDWR, "ok"), Dup("fd"), Dup("fd"),
    ForkTo("pid1", <<Run(P(argv[2]), Tail(argv))>>), Reap>>

Main(name, argv) ==
  CASE name = "init" -> initmain(argv)
    [] name = "sh" -> Shmain
    [] name = "usertests" -> usertests(argv[2])
    [] name = "stressfs" -> stressfs
    [] name = "zombie" -> zombie
    [] name = "forktest" -> forktest
    [] name = "echo" -> Echomain(argv)
    [] name = "cat" -> Catmain(argv)
    [] name = "rm" -> Rmmain(argv)
    [] name = "mkdir" -> Mkdirmain(argv)
    [] name = "ln" -> Lnmain(argv)

-----------------------------------------------------------------------------
(* Processes *)

Alive(p) == k.panic = "" /\ k.state[p] = "runnable"
At(p, ops) == Alive(p) /\ prog[p] # <<>> /\ Head(prog[p]).op \in ops

\* What process p calls next.
Now(p) == Head(prog[p])

\* The call s of process p returns c.r, having read cells; the program goes on with next.
Goto(p, s, c, cells, next) ==
  \E ok \in {Meets(s, c.r, cells, vars[p].brk)} :
    /\ k' = c.k
    /\ prog' = [prog EXCEPT ![p] = IF ~ok /\ s.want = "or else" THEN s.orelse ELSE next]
    /\ vars' = IF s.to \in Vars THEN [vars EXCEPT ![p][s.to] = c.r] ELSE vars
    /\ failed' = IF ok \/ s.want = "or else" THEN failed ELSE failed \cup {s.op}
    /\ part' = [part EXCEPT ![p] = <<>>]
    /\ got' = [got EXCEPT ![p] = <<>>]
    /\ UNCHANGED <<keys, job>>

Return(p, s, c, cells) == Goto(p, s, c, cells, Tail(prog[p]))

\* A call that does not wait.
Immediate(p, s) ==
  LET fd == vars[p][s.fd] IN
  CASE s.op = "open"   -> SysOpen(k, p, s.path, s.mode)
    [] s.op = "close"  -> SysClose(k, p, fd)
    [] s.op = "unlink" -> SysUnlink(k, p, s.path)
    [] s.op = "link"   -> SysLink(k, p, s.path, s.new)
    [] s.op \in {"mkdir", "mknod"} -> SysMake(k, p, s.path, IF s.op = "mkdir" THEN "dir" ELSE "dev")
    [] s.op = "chdir"  -> SysChdir(k, p, s.path)
    [] s.op = "dup"    -> SysDup(k, p, fd)
    [] s.op = "dup2"   -> SysDup2(k, p, fd, vars[p][s.to])
    [] s.op = "fstat"  -> SysFstat(k, p, fd)
    [] s.op = "sbrk"   -> SysSbrk(k, p, s.n)
    [] s.op = "kill"   -> Ret([k EXCEPT !.killed[fd] = TRUE], 0)

Calls == {"open", "close", "unlink", "link", "mkdir", "mknod", "chdir", "dup", "dup2",
          "fstat", "sbrk", "kill"}

Call(p) ==
  /\ At(p, Calls)
  /\ Return(p, Now(p), Immediate(p, Now(p)), <<>>)

CallOneOf(p) ==
  /\ At(p, {"oneof"})
  /\ \E i \in DOMAIN Now(p).child :
       prog' = [prog EXCEPT ![p] = Head(@).child[i] \o Tail(@)]
  /\ UNCHANGED <<k, vars, part, got, keys, failed, job>>

\* pipe(): the descriptors go to fd and fd1.
CallPipe(p) ==
  /\ At(p, {"pipe"})
  /\ \E s \in {Now(p)}, c \in {SysPipe(k, p)} :
       LET ok == Meets(s, c.r, <<>>, 0) IN
       /\ k' = c.k
       /\ vars' = IF c.r < 0 THEN vars ELSE [vars EXCEPT ![p] = [@ EXCEPT !.fd = c.r, !.fd1 = c.w]]
       /\ prog' = [prog EXCEPT ![p] = IF ~ok /\ s.want = "or else" THEN s.orelse ELSE Tail(@)]
       /\ failed' = IF ok \/ s.want = "or else" THEN failed ELSE failed \cup {"pipe"}
  /\ UNCHANGED <<part, got, keys, job>>

\* fork(): the child goes on with its own part of the program.
CallFork(p) ==
  /\ At(p, {"fork", "forkmany"})
  /\ \E s \in {Now(p)}, c \in {Fork(k, p)} :
       LET ok == Meets(s, c.r, <<>>, 0)
           again == IF s.op = "forkmany" /\ c.r > 0 THEN <<s, WaitFor("ok")>> ELSE <<>>
       IN  /\ k' = c.k
           /\ prog' = [q \in Procs |->
                         IF q = p THEN IF ok \/ s.want # "or else" THEN again \o Tail(prog[p]) ELSE s.orelse
                         ELSE IF q = c.r THEN s.child ELSE prog[q]]
           /\ vars' = [q \in Procs |->
                         IF q = p /\ s.to \in Vars THEN [vars[p] EXCEPT ![s.to] = c.r]
                         ELSE IF q = c.r THEN vars[p] ELSE vars[q]]
           /\ failed' = IF ok \/ s.want = "or else" THEN failed ELSE failed \cup {"fork"}
  /\ UNCHANGED <<part, got, keys, job>>

\* exec(): a process that has loaded a program runs it.
CallExec(p) ==
  /\ At(p, {"exec"})
  /\ \E s \in {Now(p)} : \E c \in {Exec(k, p, s.path, s.args)} :
       IF c.r < 0 THEN Return(p, s, c, <<>>)
       ELSE /\ k' = c.k
            /\ prog' = [prog EXCEPT ![p] = Main(Loaded(c.k, p), s.args)]
            /\ vars' = [vars EXCEPT ![p] = NewVars]
            /\ UNCHANGED <<part, got, keys, failed, job>>

\* wait() waits while no child has exited.
MayWait(p) == Children(k, p) = {} \/ Zombies(k, p) # {}

CallWait(p) ==
  /\ At(p, {"wait", "reap"})
  /\ MayWait(p)
  /\ \E s \in {Now(p)}, c \in {Wait(k, p)} :
       Goto(p, s, c, <<>>, IF s.op = "reap" /\ c.r >= 0 THEN prog[p] ELSE Tail(prog[p]))

-----------------------------------------------------------------------------
(* read() *)

\* What the loop around a read() does with what it has got: drain reads on, each time
\* twice as much; cat writes it; the shell runs a line when it is complete, and ends
\* with the input.
AfterRead(p, s, c) ==
  LET all == got[p] \o c.cells
      on(next, kept) == /\ k' = c.k
                        /\ prog' = [prog EXCEPT ![p] = next]
                        /\ part' = [part EXCEPT ![p] = <<>>]
                        /\ got' = [got EXCEPT ![p] = kept]
                        /\ UNCHANGED <<vars, keys, failed, job>>
  IN  CASE s.op = "read" -> Return(p, s, c, c.cells)
        [] s.op = "drain" /\ c.r > 0 ->
             on(<<[s EXCEPT !.n = Min({2 * @, MAXFILE})]>> \o Tail(prog[p]), all)
        [] s.op = "drain" /\ c.r <= 0 -> Return(p, s, c, all)
        [] s.op = "cat" /\ c.r # 0 ->
             on(Catround(s, c.r, c.cells) \o (IF c.r < 0 THEN <<>> ELSE Tail(prog[p])), <<>>)
        [] s.op = "cat" /\ c.r = 0 -> Return(p, s, c, <<>>)
        [] s.op = "getcmd" /\ c.r > 0 /\ Last(c.cells) # Byte("\n") -> on(prog[p], all)
        [] s.op = "getcmd" /\ ~(c.r > 0 /\ Last(c.cells) # Byte("\n")) ->
             on(IF all = <<>> THEN <<>> ELSE Shline([j \in DOMAIN all |-> NameOf(all[j])]), <<>>)

Reads == {"read", "drain", "cat", "getcmd"}

\* The file that process p is about to read, 0 when sys_read() refuses.
ToRead(p) ==
  LET f == Argfd(k, p, vars[p][Now(p).fd])
  IN  IF f = 0 \/ Now(p).n < 0 \/ ~k.file[f].readable THEN 0 ELSE f

IsConsole(f) == k.file[f].type = "inode" /\ k.type[k.file[f].ip] = "dev"

\* A pipe that is empty is waited for while it may be written to, and the console until
\* a line is complete.
MayRead(p) ==
  \A f \in {ToRead(p)} \ {0} :
    /\ k.file[f].type = "pipe" =>
         LET q == k.pipe[k.file[f].ip] IN q.buf # <<>> \/ ~q.writeopen \/ k.killed[p]
    /\ IsConsole(f) => k.input.r # k.input.w \/ k.killed[p]

\* A read() that fails.
NotRead == [k |-> k, r |-> -1, cells |-> <<>>]

\* piperead() of pipe q; a process that was killed does not wait.
Piperead(q, n) ==
  LET pipe == k.pipe[q]
      m == Min({n, Len(pipe.buf)})
  IN  IF pipe.buf = <<>> /\ pipe.writeopen THEN NotRead
      ELSE [k |-> [k EXCEPT !.pipe[q].buf = SubSeq(@, m + 1, Len(@))], r |-> m,
            cells |-> SubSeq(pipe.buf, 1, m)]

\* sys_read() of a file or of a pipe.
CallRead(p) ==
  /\ At(p, Reads)
  /\ MayRead(p)
  /\ \E f \in {ToRead(p)} :
       /\ f # 0 => ~IsConsole(f)
       /\ AfterRead(p, Now(p), IF f = 0 THEN NotRead
                              ELSE IF k.file[f].type = "pipe" THEN Piperead(k.file[f].ip, Now(p).n)
                              ELSE FileReadInode(k, f, Now(p).n))

\* sys_read() of the console, until it sleeps again or returns.
CallConsoleread(p) ==
  /\ At(p, Reads)
  /\ MayRead(p)
  /\ \E f \in {ToRead(p)} \ {0}, c \in {Consoleread(k, part[p], Now(p).n)} :
       LET killed == k.input.r = k.input.w
           done == [k |-> [c.k EXCEPT !.file[f].off = @ + Len(c.got)], r |-> Len(c.got),
                    cells |-> [j \in DOMAIN c.got |-> Byte(c.got[j])]]
       IN  /\ IsConsole(f)
           /\ IF killed \/ c.end THEN AfterRead(p, Now(p), IF killed THEN NotRead ELSE done)
              ELSE /\ k' = c.k
                   /\ part' = [part EXCEPT ![p] = c.got]
                   /\ UNCHANGED <<prog, vars, got, keys, failed, job>>

-----------------------------------------------------------------------------
(* write() *)

\* A pipe that is full is waited for, unless nobody can read it.
MayWrite(p) ==
  LET f == Argfd(k, p, vars[p][Now(p).fd])
      q == k.pipe[k.file[f].ip]
  IN  f # 0 /\ k.file[f].type = "pipe" /\ k.file[f].writable =>
        Len(q.buf) < PIPESIZE \/ ~q.readopen \/ k.killed[p]

\* A round of the loop in pipewrite(), which takes the bytes one by one.
Pipewrite(q, left) ==
  IF Len(k.pipe[q].buf) < PIPESIZE
  THEN Ret([k EXCEPT !.pipe[q].buf = Append(@, Head(left))], 1) ELSE Ret(k, -1)

\* A round of the loop in filewrite() or in pipewrite().
CallWrite(p) ==
  /\ At(p, {"write"})
  /\ MayWrite(p)
  /\ \E s \in {Now(p)} :
     \E f \in {Argfd(k, p, vars[p][s.fd])},
        left \in {SubSeq(s.cells, Len(part[p]) + 1, Len(s.cells))} :
     \E c \in {IF f = 0 \/ ~k.file[f].writable THEN Ret(k, -1)
              ELSE IF k.file[f].type = "pipe" THEN Pipewrite(k.file[f].ip, left)
              ELSE FileWriteInode(k, f, SubSeq(left, 1, Min({MaxWrite, Len(left)})))} :
       IF c.r < 0 \/ c.r = Len(left)
       THEN Return(p, s, Ret(c.k, IF c.r < 0 THEN -1 ELSE Len(s.cells)), <<>>)
       ELSE /\ k' = c.k
            /\ part' = [part EXCEPT ![p] = @ \o SubSeq(left, 1, c.r)]
            /\ UNCHANGED <<prog, vars, got, keys, failed, job>>

-----------------------------------------------------------------------------
(* Memory, traps and exit() *)

\* Process p accesses its memory. When the page is not there it tries again once the
\* kernel has put one there, or exits.
CallAccess(p) ==
  /\ At(p, {"store", "load"})
  /\ \E s \in {Now(p)} : \E a \in {vars[p][s.fd] + s.n} : \E c \in {Access(k, p, a)} :
       IF c.ok
       THEN Return(p, s, Ret(IF s.op = "store" THEN StoreTo(k, p, a, NameOf(s.cells[1])) ELSE k, 0),
                   <<Byte(c.value)>>)
       ELSE /\ k' = c.k
            /\ prog' = IF c.k.killed[p] THEN [prog EXCEPT ![p] = <<>>] ELSE prog
            /\ UNCHANGED <<vars, part, got, keys, failed, job>>

\* A trap that the kernel does not expect.
CallTrap(p) ==
  /\ At(p, {"privileged"})
  /\ k' = [k EXCEPT !.killed[p] = TRUE]
  /\ prog' = [prog EXCEPT ![p] = <<>>]
  /\ UNCHANGED <<vars, part, got, keys, failed, job>>

\* exit() at the end of a program, or of a process that was killed, between its calls.
MayExit(p) == Alive(p) /\ p # 1 /\ part[p] = <<>> /\ (prog[p] = <<>> \/ k.killed[p])

CallExit(p) ==
  /\ MayExit(p)
  /\ k' = Exit(k, p)
  /\ prog' = [prog EXCEPT ![p] = <<>>]
  /\ vars' = [vars EXCEPT ![p] = NewVars]
  /\ got' = [got EXCEPT ![p] = <<>>]
  /\ UNCHANGED <<part, keys, failed, job>>

Step(p) ==
  \/ Call(p) \/ CallOneOf(p) \/ CallPipe(p) \/ CallFork(p) \/ CallExec(p) \/ CallWait(p)
  \/ CallRead(p) \/ CallConsoleread(p) \/ CallWrite(p) \/ CallAccess(p) \/ CallTrap(p)
  \/ CallExit(p)

\* ENABLED Step(p)
Ready(p) ==
  \/ MayExit(p)
  \/ At(p, Calls \cup {"oneof", "pipe", "fork", "forkmany", "exec", "store", "load", "privileged"})
  \/ At(p, {"wait", "reap"}) /\ MayWait(p)
  \/ At(p, Reads) /\ MayRead(p)
  \/ At(p, {"write"}) /\ MayWrite(p)

\* The user types the next key, when there is room for it.
MayType ==
  /\ k.panic = "" /\ keys # <<>>
  /\ (k.input.e - k.input.r) % IndexWrap < INPUT_BUF

Type ==
  /\ MayType
  /\ k' = Consoleintr(k, Head(keys))
  /\ keys' = Tail(keys)
  /\ UNCHANGED <<prog, vars, part, got, failed, job>>

-----------------------------------------------------------------------------
(* The system *)

\* The kernel before the first page is allocated; p = 1 is init.
Started(fs) ==
  fs @@
  [file |-> [f \in FileIds |-> NoFile], pipe |-> <<>>,
   ofile |-> [p \in Procs |-> [fd \in Fds |-> 0]],
   cwd |-> [p \in Procs |-> IF p = 1 THEN ROOTINO ELSE 0],
   state |-> [p \in Procs |-> IF p = 1 THEN "runnable" ELSE "unused"],
   parent |-> [p \in Procs |-> 0], killed |-> [p \in Procs |-> FALSE],
   sz |-> [p \in Procs |-> IF p = 1 THEN PGSIZE ELSE 0],
   kstack |-> [p \in Procs |-> 0], pgdir |-> [p \in Procs |-> NoSpace],
   freelist |-> <<>>, mem |-> [f \in Pages |-> "junk"], lost |-> {},
   input |-> NoInput, screen |-> <<>>, pos |-> 0]

\* kinit1() and kinit2(), and userinit(): init's first page, from which it calls exec().
InitUser(page, stack) == [page.k EXCEPT !.kstack[1] = stack, !.pgdir[1] = page.d]
InitSpace(vm, stack) == InitUser(NewPage(vm.k, vm.d, 0, "initcode", TRUE), stack)
Userinit(stack) == InitSpace(Setupkvm(stack.k), stack.r)
Booted(image) == Userinit(Kalloc(Kinit(Started(Iget(Mkfs(image), ROOTINO)))))

Init ==
  /\ job \in Jobs
  /\ k = Booted(job.image)
  /\ prog = [p \in Procs |-> IF p = 1 THEN <<Run(Abs(<<"init">>), <<"init", job.program, job.arg>>)>>
                             ELSE <<>>]
  /\ vars = [p \in Procs |-> NewVars]
  /\ part = [p \in Procs |-> <<>>]
  /\ got = [p \in Procs |-> <<>>]
  /\ keys = job.keys
  /\ failed = {}

Finished == prog[1] = <<>>

Next == Type \/ \E p \in Procs : Step(p)

\* Every process that can go on does so in the end, and the user types everything:
\* weak fairness, with Ready(p) for ENABLED Step(p) and MayType for ENABLED Type.
Fairness ==
  /\ \A p \in Procs : []<>(~Ready(p)) \/ []<><<Step(p)>>_allvars
  /\ []<>(~MayType) \/ []<><<Type>>_allvars

Spec == Init /\ [][Next]_allvars /\ Fairness

-----------------------------------------------------------------------------
(* Properties *)

\* The disk is what fsck would call clean after every call, error paths included:
\* no block is lost, shared or used after it is freed, and link counts are exact.
DiskConsistent == k.panic = "" => Consistent(k)

\* Every reference that a call takes to an inode or to an open file it gives back,
\* whichever way it returns: what is left is one per open file and directory of a
\* process, and one per descriptor; and a pipe end is open while a file refers to it.
RefsExact ==
  /\ \A i \in Inums : k.ref[i] =
       Cardinality({f \in FileIds : k.file[f].type = "inode" /\ k.file[f].ip = i})
         + Cardinality({p \in Procs : k.cwd[p] = i})
  /\ \A f \in FileIds : k.file[f].ref =
       Cardinality({d \in Procs \X Fds : k.ofile[d[1]][d[2]] = f})
  /\ \A q \in DOMAIN k.pipe, w \in BOOLEAN :
       (IF w THEN k.pipe[q].writeopen ELSE k.pipe[q].readopen) =
         \E f \in FileIds : k.file[f].type = "pipe" /\ k.file[f].ip = q /\ k.file[f].writable = w

\* Every call of every test returns what the test requires, in every order in which
\* the processes of the test make their calls, and the kernel does not panic. The one
\* exception is sbrktest(), which finds in memory that it has given back and taken again
\* what it had stored there (usertests.c:1483): this sbrk() frees nothing.
KnownFailures == IF job.arg = "sbrktest" THEN {"load"} ELSE {}

TestsPass == failed \subseteq KnownFailures /\ k.panic = ""

\* What a file holds changes by a write through an open file that refers to it and
\* may be written, or because the file is freed.
WritesStayInFile ==
  [][\A i \in Inums : k.type[i] = "file" =>
       LET content(q) == [o \in 0 .. (q.size[i] - 1) |-> Cell(q, i, o)] IN
       \/ content(k)' = content(k)
       \/ k.type'[i] = "free"
       \/ \E p \in Procs : prog[p] # <<>> /\ Now(p).op = "write" /\
            LET f == k.ofile[p][vars[p][Now(p).fd]] IN
            f # 0 /\ k.file[f].writable /\ k.file[f].type = "inode" /\ k.file[f].ip = i]_allvars

\* A page of memory has one owner: it is free, or it is a kernel stack, a pipe, a page
\* directory, a page table or a user page of one process; however a fork(), an exec() or
\* a pipe() that runs out of memory undoes what it has done. The one exception is the
\* page of a page fault for which there is no page table.
PagesHaveOneOwner ==
  LET values(f) == InOrder(f, DOMAIN f)
      space(d) == IF d.dir = 0 THEN <<>> ELSE <<d.dir>> \o values(d.tab) \o values(d.pte)
      used == FlattenSeq([p \in 1 .. NPROC |-> space(k.pgdir[p])])
                \o SelectSeq(k.kstack, LAMBDA f : f # 0)
                \o Ascending(DOMAIN k.pipe \cup k.lost) \o k.freelist
  IN  k.panic = "" => Len(used) = NPAGES /\ ToSet(used) = Pages

\* Every job comes to its end: no process waits for ever for another to write, to close
\* a pipe end or to exit. Two jobs are excepted: concreate() and linkunlink() create, link
\* and unlink the same name in several processes, and these calls, which are single steps
\* here, may wait for each other's inodes for ever (LocksAcyclic in Fs).
SameName == {"concreate", "linkunlink"}

JobsEnd == job.arg \in SameName \/ <>Finished

-----------------------------------------------------------------------------
(* The shell *)

\* What a file in the root directory holds.
Content(name) ==
  LET i == Dirlookup(k, ROOTINO, name).r
  IN  [o \in 1 .. k.size[i] |-> NameOf(Cell(k, i, o - 1))]

\* What the commands of the job do, one after the other, to the files of the image.
Meant ==
  LET image == job.image
      files == [name \in {image[j].name : j \in DOMAIN image} |->
                  LET j == CHOOSE j \in DOMAIN image : image[j].name = name
                  IN  [o \in DOMAIN image[j].cells |-> NameOf(image[j].cells[o])]]
      add(m, n) == [out |-> m.out \o n.out, errors |-> m.errors + n.errors, files |-> n.files]
      step(m, cmd) == add(m, Meaning(cmd, job.text, m.files))
  IN  FoldLeft(step, [out |-> <<>>, errors |-> 0, files |-> files], job.cmds)

Messages == {"exec failed", "open failed", "failed", "syntax", "cannot cd"}

\* From the keys to the processes and the files: when the user has typed commands,
\* with corrections, and everything has ended, the output on the console and the files
\* are what the commands mean, however the line editor, the shell, the processes of
\* pipelines and the pipes between them have interleaved.
CommandsDone ==
  Finished /\ job.program = "sh" =>
    \E m \in {Meant}, out \in {SelectSeq(k.screen, LAMBDA c : c \notin Messages \cup {"$"})} :
    LET count(s, c) == Len(SelectSeq(s, LAMBDA x : x = c))
    IN  /\ IF job.ordered THEN out = m.out
           ELSE \A c \in ToSet(out) \cup ToSet(m.out) : count(out, c) = count(m.out, c)
        /\ Len(SelectSeq(k.screen, LAMBDA c : c \in Messages)) = m.errors
        /\ \A name \in DOMAIN m.files : Content(name) = m.files[name]

=============================================================================
