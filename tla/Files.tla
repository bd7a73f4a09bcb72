------------------------------- MODULE Files -------------------------------
(***************************************************************************)
(* The open files of file.c, the system calls of sysfile.c, exec.c, and    *)
(* fork(), exit(), wait() and sbrk() as far as they concern files and      *)
(* memory, on top of Inodes, Vm and Console. To the fields of k that those *)
(* modules describe this one adds                                          *)
(*   file         ftable: struct file                                      *)
(*   pipe         pipes, as bounded queues (module Pipe has the details),  *)
(*                by the pages they are in                                 *)
(*   ofile, cwd   the open files and the directory of each process         *)
(*   pgdir, sz, kstack                                                     *)
(*                its memory                                               *)
(*   state, parent, killed                                                 *)
(*                the process table as far as wait() looks at it           *)
(* A system call is one step, but for the calls that wait, and for write() *)
(* of more than fits into a transaction; module Fs interleaves the steps   *)
(* inside the calls.                                                       *)
(***************************************************************************)
EXTENDS Inodes, Vm, Console

CONSTANTS
  NFILE,     \* open files in the system
  NOFILE,    \* open files of a process
  NPROC,     \* processes
  PIPESIZE,  \* bytes a pipe holds
  MaxWrite,  \* bytes that one transaction of filewrite() writes
  ARGWORDS   \* arguments of a program that fit on its stack

ASSUME FilesConstants == NFILE \in Nat /\ NOFILE \in Nat /\ NPROC \in Nat \ {0}
                          /\ PIPESIZE \in Nat \ {0} /\ MaxWrite \in Nat \ {0} /\ ARGWORDS \in Nat

FileIds == 1 .. NFILE
Fds == 0 .. (NOFILE - 1)
Procs == 1 .. NPROC

NoFile == [ref |-> 0, type |-> "none", ip |-> 0, off |-> 0, readable |-> FALSE,
           writable |-> FALSE]
NewPipe == [buf |-> <<>>, readopen |-> TRUE, writeopen |-> TRUE]


-----------------------------------------------------------------------------
(* file.c *)

\* filealloc(): the first file nobody uses, or 0.
UseFile(k, f) == Ret([k EXCEPT !.file[f].ref = 1], f)
Filealloc(k) ==
  IF \A f \in FileIds : k.file[f].ref # 0 THEN Ret(k, 0)
  ELSE UseFile(k, Min({f \in FileIds : k.file[f].ref = 0}))

Filedup(k, f) ==
  IF k.file[f].ref < 1 THEN Panic(k, "filedup") ELSE [k EXCEPT !.file[f].ref = @ + 1]

\* pipeclose(): a pipe is freed when both its ends are closed.
PipeLeft(k, q, pipe) ==
  IF pipe.readopen \/ pipe.writeopen THEN [k EXCEPT !.pipe[q] = pipe]
  ELSE Kfree([k EXCEPT !.pipe = Restrict(@, DOMAIN @ \ {q})], q)
Pipeclose(k, q, writable) ==
  PipeLeft(k, q, IF writable THEN [k.pipe[q] EXCEPT !.writeopen = FALSE]
                 ELSE [k.pipe[q] EXCEPT !.readopen = FALSE])

\* fileclose()
CloseLast(k, ff) ==
  CASE ff.type = "none" -> k
    [] ff.type = "pipe" -> Pipeclose(k, ff.ip, ff.writable)
    [] ff.type = "inode" -> Iput(k, ff.ip)
Fileclose(k, f) ==
  IF k.file[f].ref < 1 THEN Panic(k, "fileclose")
  ELSE IF k.file[f].ref > 1 THEN [k EXCEPT !.file[f].ref = @ - 1]
  ELSE CloseLast([k EXCEPT !.file[f] = NoFile], k.file[f])

\* fileread() of a file: what is there from the offset on, which moves with it.
Moved(c, f) == [c EXCEPT !.k.file[f].off = IF c.r > 0 THEN @ + c.r ELSE @]
FileReadInode(k, f, n) == Moved(Readi(k, k.file[f].ip, k.file[f].off, n), f)

\* One round of the loop in filewrite(): the next part of the cells. A device takes
\* everything.
FileWriteInode(k, f, cells) ==
  Moved(IF k.type[k.file[f].ip] = "dev"
        THEN Ret(Consolewrite(k, [j \in DOMAIN cells |-> NameOf(cells[j])]), Len(cells))
        ELSE Writei(k, k.file[f].ip, k.file[f].off, cells), f)

-----------------------------------------------------------------------------
(* sysfile.c *)

\* The file behind a descriptor, or 0: argfd().
Argfd(k, p, fd) == IF fd \in Fds THEN k.ofile[p][fd] ELSE 0

\* fdalloc(): the lowest descriptor that is free, or -1.
SetFd(k, p, fd, f) == Ret([k EXCEPT !.ofile[p][fd] = f], fd)
Fdalloc(k, p, f) ==
  IF \A fd \in Fds : k.ofile[p][fd] # 0 THEN Ret(k, -1)
  ELSE SetFd(k, p, Min({fd \in Fds : k.ofile[p][fd] = 0}), f)

DupTo(new, f) == IF new.r < 0 THEN new ELSE [new EXCEPT !.k = Filedup(@, f)]
SysDup(k, p, fd) ==
  IF Argfd(k, p, fd) = 0 THEN Ret(k, -1)
  ELSE DupTo(Fdalloc(k, p, Argfd(k, p, fd)), Argfd(k, p, fd))

\* Faulty variant: the file that the descriptor stood for is not closed.
Dup2Forgets(k, p, old, new) ==
  IF Argfd(k, p, old) = 0 \/ new \notin Fds THEN Ret(k, -1)
  ELSE IF new = old THEN Ret(k, new)
  ELSE Ret(Filedup([k EXCEPT !.ofile[p][new] = k.ofile[p][old]], k.ofile[p][old]), new)

CloseOld(k, f) == IF f = 0 THEN k ELSE Fileclose(k, f)
SysDup2(k, p, old, new) ==
  IF Argfd(k, p, old) = 0 \/ new \notin Fds THEN Ret(k, -1)
  ELSE IF new = old THEN Ret(k, new)
  ELSE Ret(Filedup([CloseOld(k, k.ofile[p][new]) EXCEPT !.ofile[p][new] = k.ofile[p][old]],
                   k.ofile[p][old]), new)

SysClose(k, p, fd) ==
  IF Argfd(k, p, fd) = 0 THEN Ret(k, -1)
  ELSE Ret(Fileclose([k EXCEPT !.ofile[p][fd] = 0], k.ofile[p][fd]), 0)

\* sys_fstat(): 0 for a file that is an inode. What it copies is not kept.
IsInode(k, f) == f # 0 /\ k.file[f].type = "inode"
SysFstat(k, p, fd) == Ret(k, IF IsInode(k, Argfd(k, p, fd)) THEN 0 ELSE -1)

\* sys_link(): ip is what the old path names, dp the directory of the new one, l the
\* result of dirlink().
BadLink(k, i) == Ret(Iput([k EXCEPT !.nlink[i] = @ - 1], i), -1)
LinkDone(l, d, i) ==
  IF l.r < 0 THEN BadLink(Iput(l.k, d), i) ELSE Ret(Iput(Iput(l.k, d), i), 0)
LinkIn(dp, name, i) ==
  IF dp.r = 0 THEN BadLink(dp.k, i) ELSE LinkDone(Dirlink(dp.k, dp.r, name, i), dp.r, i)
LinkTo(ip, cwd, new) ==
  IF ip.r = 0 THEN Ret(ip.k, -1)
  ELSE IF ip.k.type[ip.r] = "dir" THEN Ret(Iput(ip.k, ip.r), -1)
  ELSE LinkIn(NameiParent([ip.k EXCEPT !.nlink[ip.r] = @ + 1], cwd, new), LastOf(new), ip.r)
SysLink(k, p, old, new) == LinkTo(Namei(k, k.cwd[p], old), k.cwd[p], new)

\* sys_unlink(): dp is the directory of the path, ip what the path names.
Unlinked(k, d, i) ==
  Ret(Iput([Iput([k EXCEPT !.nlink[d] = IF k.type[i] = "dir" THEN @ - 1 ELSE @], d)
              EXCEPT !.nlink[i] = @ - 1], i), 0)
RemoveEntry(k, d, i, off) ==
  IF k.nlink[i] < 1 THEN Ret(Panic(k, "unlink: nlink < 1"), -1)
  ELSE IF k.type[i] = "dir" /\ ~IsDirEmpty(k, i) THEN Ret(Iput(Iput(k, i), d), -1)
  ELSE Unlinked(Writei(k, d, off, <<Zero>>).k, d, i)
UnlinkFound(ip, d) ==
  IF ip.r = 0 THEN Ret(Iput(ip.k, d), -1) ELSE RemoveEntry(ip.k, d, ip.r, ip.off)
UnlinkIn(dp, name) ==
  IF dp.r = 0 THEN Ret(dp.k, -1)
  ELSE IF name \in {".", ".."} THEN Ret(Iput(dp.k, dp.r), -1)
  ELSE UnlinkFound(Dirlookup(dp.k, dp.r, name), dp.r)
SysUnlink(k, p, path) == UnlinkIn(NameiParent(k, k.cwd[p], path), LastOf(path))

\* create(): the inode that path names, with a reference, or 0. A directory gets "."
\* and "..".
Dots(k, d, i, type) ==
  IF type # "dir" THEN k
  ELSE FoldLeft(LAMBDA q, e : Dirlink(q, i, NameOf(e), InumOf(e)).k,
                [k EXCEPT !.nlink[d] = @ + 1], <<Entry(".", i), Entry("..", d)>>)
Created(l, d, i) == Ret(Iput(IF l.r < 0 THEN Panic(l.k, "create: dirlink") ELSE l.k, d), i)
CreateNew(ip, d, name, type) ==
  Created(Dirlink(Dots([ip.k EXCEPT !.nlink[ip.r] = 1], d, ip.r, type), d, name, ip.r), d, ip.r)
CreateOld(k, i, type) ==
  IF type = "file" /\ k.type[i] = "file" THEN Ret(k, i) ELSE Ret(Iput(k, i), 0)
CreateFound(ip, d, name, type) ==
  IF ip.r # 0 THEN CreateOld(Iput(ip.k, d), ip.r, type)
  ELSE CreateNew(Ialloc(ip.k, type), d, name, type)
CreateIn(dp, name, type) ==
  IF dp.r = 0 THEN Ret(dp.k, 0) ELSE CreateFound(Dirlookup(dp.k, dp.r, name), dp.r, name, type)
Create(k, p, path, type) == CreateIn(NameiParent(k, k.cwd[p], path), LastOf(path), type)

\* sys_open(), from filealloc() on, with a reference to the inode ip.
OpenAs(fd, f, ip, mode) ==
  IF fd.r < 0 THEN Ret(Iput(Fileclose(fd.k, f), ip), -1)
  ELSE [fd EXCEPT !.k.file[f] = [ref |-> 1, type |-> "inode", ip |-> ip, off |-> 0,
                                 readable |-> "WRONLY" \notin mode,
                                 writable |-> mode \cap {"WRONLY", "RDWR"} # {}]]
OpenFile(f, p, ip, mode) ==
  IF f.r = 0 THEN Ret(Iput(f.k, ip), -1) ELSE OpenAs(Fdalloc(f.k, p, f.r), f.r, ip, mode)
OpenInode(k, p, ip, mode) ==
  IF "CREATE" \notin mode /\ mode # {} /\ k.type[ip] = "dir" THEN Ret(Iput(k, ip), -1)
  ELSE OpenFile(Filealloc(k), p, ip, mode)
OpenFound(ip, p, mode) ==
  IF ip.r = 0 THEN Ret(ip.k, -1) ELSE OpenInode(Ilock(ip.k, ip.r), p, ip.r, mode)
SysOpen(k, p, path, mode) ==
  OpenFound(IF "CREATE" \in mode THEN Create(k, p, path, "file") ELSE Namei(k, k.cwd[p], path),
            p, mode)

\* sys_mkdir() and sys_mknod()
Made(ip) == IF ip.r = 0 THEN Ret(ip.k, -1) ELSE Ret(Iput(ip.k, ip.r), 0)
SysMake(k, p, path, type) == Made(Create(k, p, path, type))

ChangeDir(k, p, i) ==
  IF k.type[i] # "dir" THEN Ret(Iput(k, i), -1)
  ELSE Ret([Iput(k, k.cwd[p]) EXCEPT !.cwd[p] = i], 0)
ChdirFound(ip, p) == IF ip.r = 0 THEN Ret(ip.k, -1) ELSE ChangeDir(Ilock(ip.k, ip.r), p, ip.r)
SysChdir(k, p, path) == ChdirFound(Namei(k, k.cwd[p], path), p)

\* sys_pipe(), with pipealloc(): the descriptors of both ends, or nothing is left of it.
\* The files of the ends are r and w, the descriptors fd0 and fd1.
NoPipe(k) == [k |-> k, r |-> -1, w |-> -1]
End(q, w) == [ref |-> 1, type |-> "pipe", ip |-> q, off |-> 0, readable |-> ~w, writable |-> w]
PipeFds(fd1, fd0, p, r, w) ==
  IF fd0 < 0 \/ fd1.r < 0
  THEN NoPipe(Fileclose(Fileclose([fd1.k EXCEPT !.ofile[p] =
                                     [fd \in Fds |-> IF fd = fd0 THEN 0 ELSE @[fd]]], r), w))
  ELSE [k |-> fd1.k, r |-> fd0, w |-> fd1.r]
PipeFd(fd0, p, r, w) == PipeFds(Fdalloc(fd0.k, p, w), fd0.r, p, r, w)
PipePage(page, p, r, w) ==
  IF page.r = 0 THEN NoPipe(Fileclose(Fileclose(page.k, r), w))
  ELSE PipeFd(Fdalloc([page.k EXCEPT !.file[r] = End(page.r, FALSE), !.file[w] = End(page.r, TRUE),
                                     !.pipe = (page.r :> NewPipe) @@ @], p, r), p, r, w)
PipeFiles(f1, p, r) ==
  IF f1.r = 0 THEN NoPipe(Fileclose(f1.k, r)) ELSE PipePage(Kalloc(f1.k), p, r, f1.r)
PipeFile(f0, p) == IF f0.r = 0 THEN NoPipe(f0.k) ELSE PipeFiles(Filealloc(f0.k), p, f0.r)
SysPipe(k, p) == PipeFile(Filealloc(k), p)

-----------------------------------------------------------------------------
(* exec() *)

\* loaduvm() of the pages v, v + 1, ... from the cells of inode i from off on.
LoadPage(rd, f) ==
  IF rd.r # 1 THEN Ret(rd.k, -1) ELSE Ret([rd.k EXCEPT !.mem[f] = NameOf(rd.cells[1])], 0)
Loaduvm(k, d, i, off, n) ==
  FoldLeft(LAMBDA s, v :
             IF s.r < 0 THEN s
             ELSE IF PDX(v) \notin DOMAIN d.tab
             THEN Ret(Panic(s.k, "loaduvm: address should exist"), -1)
             ELSE LoadPage(Readi(s.k, i, off + v, 1), d.pte[v]),
           Ret(k, 0), PagesFrom(0, n))

\* exec(). The first cell of a program is the ELF header. It has one segment, which
\* begins at address 0: the other cells, one on each page, and a page of zeroes. Then
\* come a page that the user may not access, and the stack. The steps, from the last to
\* the first: the process gets the new address space d;
ExecCommit(argv, p, d, sz) ==
  IF ~argv.r THEN Ret(Freevm(argv.k, d), -1)
  ELSE Ret([Freevm(argv.k, argv.k.pgdir[p]) EXCEPT !.pgdir[p] = d, !.sz[p] = sz], 0)
\* the arguments are copied to the stack;
ExecArgs(k, p, args, d, sz) ==
  ExecCommit(Copyout(k, d, (sz \div PGSIZE) - (IF Len(args) <= ARGWORDS THEN 1 ELSE 2), "args"),
             p, d, sz)
\* the stack;
ExecStack(s, p, args) ==
  IF s.r = 0 THEN Ret(Freevm(s.k, s.d), -1)
  ELSE ExecArgs(s.k, p, args, Clearpteu(s.d, (s.r \div PGSIZE) - 2), s.r)
\* the segment of the program;
BadExec(k, i) == Ret(Iput(k, i), -1)
ExecLoaded(load, seg, p, args, i) ==
  IF load.r < 0 THEN BadExec(Freevm(load.k, seg.d), i)
  ELSE ExecStack(Allocuvm(Iput(load.k, i), seg.d, seg.r, seg.r + 2 * PGSIZE), p, args)
ExecSegment(seg, p, args, i) ==
  IF seg.r = 0 THEN BadExec(Freevm(seg.k, seg.d), i)
  ELSE ExecLoaded(Loaduvm(seg.k, seg.d, i, 1, seg.k.size[i] - 1), seg, p, args, i)
\* the kernel's half of the address space;
ExecSpace(new, p, args, i) ==
  IF ~new.r THEN BadExec(new.k, i)
  ELSE ExecSegment(Allocuvm(new.k, new.d, 0, PGSIZE * new.k.size[i]), p, args, i)
\* the header of the file;
ExecHeader(elf, p, args, i) ==
  IF elf.r # 1 \/ elf.cells # <<Byte("ELF")>> THEN BadExec(elf.k, i)
  ELSE ExecSpace(Setupkvm(elf.k), p, args, i)
ExecFile(ip, p, args) ==
  IF ip.r = 0 THEN Ret(ip.k, -1)
  ELSE ExecHeader(Readi(Ilock(ip.k, ip.r), ip.r, 0, 1), p, args, ip.r)
Exec(k, p, path, args) == ExecFile(Namei(k, k.cwd[p], path), p, args)

\* The program that process p has loaded.
Loaded(k, p) == k.mem[k.pgdir[p].pte[0]]

-----------------------------------------------------------------------------
(* fork(), exit(), wait() and sbrk() *)

\* allocproc() and fork(): the child has a copy of the memory, the same files and the
\* same directory; or there is no slot or no memory.
OpenFiles(k, p) == SelectSeq([n \in 1 .. NOFILE |-> k.ofile[p][n - 1]], LAMBDA f : f # 0)
ForkCopy(vm, p, q, stack) ==
  IF ~vm.r THEN Ret(Kfree(vm.k, stack), -1)
  ELSE Ret([FoldLeft(Filedup, vm.k, OpenFiles(vm.k, p)) EXCEPT
              !.state[q] = "runnable", !.parent[q] = p, !.killed[q] = FALSE,
              !.kstack[q] = stack, !.pgdir[q] = vm.d, !.sz[q] = vm.k.sz[p],
              !.ofile[q] = vm.k.ofile[p], !.cwd[q] = vm.k.cwd[p], !.ref[vm.k.cwd[p]] = @ + 1], q)
ForkStack(stack, p, q) ==
  IF stack.r = 0 THEN Ret(stack.k, -1)
  ELSE ForkCopy(Copyuvm(stack.k, stack.k.pgdir[p], stack.k.sz[p]), p, q, stack.r)
Fork(k, p) ==
  IF \A q \in Procs : k.state[q] # "unused" THEN Ret(k, -1)
  ELSE ForkStack(Kalloc(k), p, Min({q \in Procs : k.state[q] = "unused"}))

\* Faulty variant: exit() leaves the files open.
ExitLeavesFiles(k, p) ==
  [Iput(k, k.cwd[p]) EXCEPT !.cwd[p] = 0, !.state[p] = "zombie",
     !.ofile[p] = [fd \in Fds |-> 0],
     !.parent = [q \in Procs |-> IF k.parent[q] = p THEN 1 ELSE k.parent[q]]]

\* exit(): closes the files, gives back the directory, passes the children to init.
Exit(k, p) ==
  [Iput(FoldLeft(Fileclose, k, OpenFiles(k, p)), k.cwd[p]) EXCEPT
     !.ofile[p] = [fd \in Fds |-> 0], !.cwd[p] = 0, !.state[p] = "zombie",
     !.parent = [q \in Procs |-> IF k.parent[q] = p THEN 1 ELSE k.parent[q]]]

\* wait(): the slot of a child that has exited, which becomes free with its memory;
\* -1 without children.
Children(k, p) == {q \in Procs : k.state[q] # "unused" /\ k.parent[q] = p}
Zombies(k, p) == {q \in Children(k, p) : k.state[q] = "zombie"}
FreeProc(k, q) ==
  Ret([Freevm(Kfree(k, k.kstack[q]), k.pgdir[q]) EXCEPT
         !.state[q] = "unused", !.parent[q] = 0, !.kstack[q] = 0, !.pgdir[q] = NoSpace,
         !.killed[q] = FALSE], q)
Wait(k, p) == IF Children(k, p) = {} THEN Ret(k, -1) ELSE FreeProc(k, Min(Zombies(k, p)))

\* sys_sbrk(): only the size changes. Memory is allocated when it is used.
SysSbrk(k, p, n) == Ret([k EXCEPT !.sz[p] = @ + n], k.sz[p])

\* Process p accesses address a: the state, whether the access was made, and what was
\* there; without memory the process is killed.
Faulted(c, p) ==
  [k |-> [c.k EXCEPT !.pgdir[p] = c.d, !.killed[p] = @ \/ ~c.r], ok |-> FALSE, value |-> ""]
AccessPage(k, p, v) ==
  IF v \in DOMAIN k.pgdir[p].pte /\ v \in k.pgdir[p].u
  THEN [k |-> k, ok |-> TRUE, value |-> k.mem[k.pgdir[p].pte[v]]]
  ELSE Faulted(PageFault(k, k.pgdir[p], v), p)
Access(k, p, a) == AccessPage(k, p, a \div PGSIZE)

StoreTo(k, p, a, value) == [k EXCEPT !.mem[k.pgdir[p].pte[a \div PGSIZE]] = value]

=============================================================================
