--------------------------------- MODULE Fs ---------------------------------
(***************************************************************************)
(* Inodes, the inode cache, directories and path names (my-xv6-public/     *)
(* fs.c) under the system calls that make, link, open and remove files     *)
(* (sysfile.c), from several processes.                                    *)
(*                                                                         *)
(* A process in a call has a list of instructions to do, which are what    *)
(* the code does between two sleep locks; one that looks at an inode is    *)
(* reached with the inode's lock and releases it when the code does.       *)
(* iupdate() follows every change to an inode under the same lock, so the  *)
(* inode on disk and its cached copy are one.  A call is one transaction   *)
(* of the log, and nothing crashes here.                                   *)
(***************************************************************************)
EXTENDS Integers, Sequences, FiniteSets, FiniteSetsExt

CONSTANTS
  Procs,
  NInodes,    \* inodes 1 .. NInodes on the disk, of which 1 is the root
  NINODE,     \* entries of the inode cache
  Names,      \* file names, without "." and ".."
  Workloads   \* sets of calls, from one of which the processes take theirs

\* A path from the root or from the current directory, and the system calls.
Dots == {".", ".."}
Elements(path) == IF Head(path) = "/" THEN Tail(path) ELSE path
Paths ==
  {path \in Seq(Names \cup Dots \cup {"/"}) :
     path # <<>> /\ Elements(path) \in Seq(Names \cup Dots) \ {<<>>}}
Calls ==
  [call : {"open", "chdir", "create", "mkdir", "unlink"}, path : Paths]
    \cup [call : {"link"}, path : Paths, new : Paths]

Nobody == "nobody"

ASSUME FsConstants ==
  /\ IsFiniteSet(Procs) /\ Nobody \notin Procs
  /\ NInodes \in Nat \ {0}
  /\ NINODE \in Nat
  /\ IsFiniteSet(Names) /\ Names \cap {".", "..", "/"} = {}
  /\ \A W \in Workloads : W \subseteq Calls

VARIABLES
  dinode,         \* type, nlink and directory entries
  ref, valid,     \* the cached inode, if ref > 0
  lock,           \* its sleep lock
  todo,           \* what is left of a call
  req, rest,      \* the call, and the part of its path that is left
  open, cwd,      \* the file a process has open, and its directory
  workload

vars == <<dinode, ref, valid, lock, todo, req, rest, open, cwd, workload>>
files == <<open, cwd>>

Inums == 1 .. NInodes
ROOTINO == 1
NoCall == [call |-> "none"]

NoEntries == [n \in Names \cup Dots |-> 0]
Directory(ents, self, parent) == [ents EXCEPT !["."] = self, ![".."] = parent]
Free == [type |-> "none", nlink |-> 0, ents |-> NoEntries]

\* A file system that mkfs has made.
Init ==
  /\ dinode = [i \in Inums |->
       IF i = ROOTINO
       THEN [type |-> "dir", nlink |-> 1, ents |-> Directory(NoEntries, ROOTINO, ROOTINO)]
       ELSE Free]
  /\ ref = [i \in Inums |-> IF i = ROOTINO THEN Cardinality(Procs) ELSE 0]
  /\ valid = [i \in Inums |-> FALSE]
  /\ lock = [i \in Inums |-> Nobody]
  /\ todo = [p \in Procs |-> <<>>]
  /\ req = [p \in Procs |-> NoCall]
  /\ rest = [p \in Procs |-> <<>>]
  /\ open = [p \in Procs |-> 0]
  /\ cwd = [p \in Procs |-> ROOTINO]
  /\ workload \in Workloads

-----------------------------------------------------------------------------
(* Instructions *)

Instr(op, i) == [op |-> op, i |-> i, dp |-> 0]
InstrIn(op, i, dp) == [op |-> op, i |-> i, dp |-> dp]

At(p, op) == todo[p] # <<>> /\ Head(todo[p]).op = op
Arg(p) == Head(todo[p]).i
Dir(p) == Head(todo[p]).dp

\* What is left to do is t, and of the path; the call ends when nothing is.
Continue(p, t, path) ==
  /\ todo' = [todo EXCEPT ![p] = t]
  /\ rest' = [rest EXCEPT ![p] = IF t = <<>> THEN <<>> ELSE path]
  /\ req' = [req EXCEPT ![p] = IF t = <<>> THEN NoCall ELSE @]

\* The instruction is done, and these come next.
Then(p, instrs) == Continue(p, instrs \o Tail(todo[p]), rest[p])

\* The process goes no further: an assertion fails, or there is no inode left, in
\* the cache for iget() or on the disk for ialloc().
Panic(p) == Continue(p, <<Instr("panic", 0)>> \o todo[p], rest[p])
Exhausted(p) == Continue(p, <<Instr("exhausted", 0)>> \o todo[p], rest[p])

Unlocked(i) == lock' = [lock EXCEPT ![i] = Nobody]

\* iget() and idup().  A cached inode that nobody refers to is read anew.
Iget(i) ==
  /\ ref' = [ref EXCEPT ![i] = @ + 1]
  /\ valid' = IF ref[i] = 0 THEN [valid EXCEPT ![i] = FALSE] ELSE valid

IgetOK(i) == ref[i] > 0 \/ Cardinality({j \in Inums : ref[j] > 0}) < NINODE

FreeInodes == {i \in Inums : dinode[i].type = "none"}

Lookup(dp, n) == dinode[dp].ents[n]

\* ilock()
Ilock(p) ==
  /\ At(p, "lock")
  /\ lock[Arg(p)] = Nobody
  /\ lock' = [lock EXCEPT ![Arg(p)] = p]
  /\ valid' = [valid EXCEPT ![Arg(p)] = TRUE]
  /\ IF ref[Arg(p)] < 1 \/ (~valid[Arg(p)] /\ dinode[Arg(p)].type = "none")
     THEN Panic(p)
     ELSE Then(p, <<>>)
  /\ UNCHANGED <<dinode, ref, files>>

\* Faulty: other references are not looked at.
LastLink(i) == dinode[i].nlink = 0

\* Nothing refers to the inode any more but the caller.
LastUse(i) == dinode[i].nlink = 0 /\ ref[i] = 1

\* iput(): the inode is freed under its lock, and the reference dropped after.
Iput(p) ==
  /\ At(p, "put")
  /\ lock[Arg(p)] = Nobody
  /\ IF valid[Arg(p)] /\ LastUse(Arg(p))
     THEN /\ dinode' = [dinode EXCEPT ![Arg(p)] = Free]
          /\ valid' = [valid EXCEPT ![Arg(p)] = FALSE]
     ELSE UNCHANGED <<dinode, valid>>
  /\ Then(p, <<Instr("deref", Arg(p))>>)
  /\ UNCHANGED <<ref, lock, files>>

Deref(p) ==
  /\ At(p, "deref")
  /\ ref' = [ref EXCEPT ![Arg(p)] = @ - 1]
  /\ Then(p, <<>>)
  /\ UNCHANGED <<dinode, valid, lock, files>>

\* What a call does with the result r of its look-up, 0 if there is none.
Found(p, r) ==
  LET k == todo[p][2] IN
  CASE k.op = "use" /\ r # 0 -> <<Instr("lock", r), Instr(req[p].call, r)>>
    [] k.op = "use" /\ r = 0 -> <<>>
    [] k.op = "enter" /\ r # 0 -> <<Instr("lock", r), InstrIn("dirlink", k.i, r)>>
    [] k.op = "enter" /\ r = 0 -> <<Instr("lock", k.i), Instr("droplink", k.i)>>

\* namex(): one element of the path, with the directory locked.  nameiparent()
\* leaves the last one to its caller.
Namex(p, op) ==
  LET ip == Arg(p)  last == Len(rest[p]) = 1  next == Lookup(ip, Head(rest[p]))
      Return(instrs, r) ==
        Continue(p, instrs \o Found(p, r) \o SubSeq(todo[p], 3, Len(todo[p])), rest[p]) IN
  /\ At(p, op)
  /\ Unlocked(ip)
  /\ IF dinode[ip].type = "dir" /\ op = "nameiparent" /\ last THEN
       /\ Return(<<>>, ip)
       /\ UNCHANGED <<ref, valid>>
     ELSE IF dinode[ip].type # "dir" \/ next = 0 THEN
       /\ Return(<<Instr("put", ip)>>, 0)
       /\ UNCHANGED <<ref, valid>>
     ELSE IF ~IgetOK(next) THEN
       /\ Exhausted(p)
       /\ UNCHANGED <<ref, valid>>
     ELSE
       /\ Iget(next)
       /\ IF last
          THEN Return(<<Instr("put", ip)>>, next)
          ELSE Continue(p, <<Instr("put", ip), Instr("lock", next), Instr(op, next)>>
                             \o Tail(todo[p]), Tail(rest[p]))
  /\ UNCHANGED <<dinode, files>>

\* The inode that a path starts from, and the look-up from there.
Start(p, path) == IF Head(path) = "/" THEN ROOTINO ELSE cwd[p]

Walk(p, op, path) ==
  <<Instr("lock", Start(p, path)), Instr(op, Start(p, path))>>

-----------------------------------------------------------------------------
(* System calls *)

\* A process makes a call, and the look-up of its path starts.
Syscall(p, r) ==
  /\ todo[p] = <<>>
  /\ r.call \in {"open", "create"} => open[p] = 0
  /\ req' = [req EXCEPT ![p] = r]
  /\ rest' = [rest EXCEPT ![p] = Elements(r.path)]
  /\ IF IgetOK(Start(p, r.path))
     THEN /\ Iget(Start(p, r.path))
          /\ todo' = [todo EXCEPT ![p] =
               Walk(p, IF r.call \in {"open", "chdir", "link"} THEN "namei" ELSE "nameiparent",
                    r.path)
                 \o <<Instr("use", 0)>>]
     ELSE /\ todo' = [todo EXCEPT ![p] = <<Instr("exhausted", 0)>>]
          /\ UNCHANGED <<ref, valid>>
  /\ UNCHANGED <<dinode, lock, files>>

\* The end of sys_open(), with the inode locked: there may be no file structure
\* or descriptor left.
OpenFile(p, ip) ==
  /\ Unlocked(ip)
  /\ \/ /\ open' = [open EXCEPT ![p] = ip]
        /\ Then(p, <<>>)
     \/ /\ Then(p, <<Instr("put", ip)>>)
        /\ UNCHANGED open

Close(p) ==
  /\ todo[p] = <<>>
  /\ open[p] # 0
  /\ open' = [open EXCEPT ![p] = 0]
  /\ todo' = [todo EXCEPT ![p] = <<Instr("put", open[p])>>]
  /\ UNCHANGED <<dinode, ref, valid, lock, req, rest, cwd>>

SysOpen(p) ==
  /\ At(p, "open")
  /\ OpenFile(p, Arg(p))
  /\ UNCHANGED <<dinode, ref, valid, cwd>>

\* Faulty: the old directory is not put.
OldDirKept(p) == <<>>

OldDirPut(p) == <<Instr("put", cwd[p])>>

\* sys_chdir(): the reference to the old directory is dropped.
SysChdir(p) ==
  /\ At(p, "chdir")
  /\ Unlocked(Arg(p))
  /\ IF dinode[Arg(p)].type = "dir"
     THEN /\ Then(p, OldDirPut(p))
          /\ cwd' = [cwd EXCEPT ![p] = Arg(p)]
     ELSE /\ Then(p, <<Instr("put", Arg(p))>>)
          /\ UNCHANGED cwd
  /\ UNCHANGED <<dinode, ref, valid, open>>

\* iunlockput()
Iunlock(p) ==
  /\ At(p, "unlock")
  /\ Unlocked(Arg(p))
  /\ Then(p, <<Instr("put", Arg(p))>>)
  /\ UNCHANGED <<dinode, ref, valid, files>>

\* sys_unlink(), with the directory locked: find the file.
Name(p) == Head(rest[p])

SysUnlink(p) ==
  LET dp == Arg(p)  ip == Lookup(Arg(p), Name(p)) IN
  /\ At(p, "unlink")
  /\ IF Name(p) \in Dots \/ ip = 0 THEN
       /\ Unlocked(dp)
       /\ Then(p, <<Instr("put", dp)>>)
       /\ UNCHANGED <<ref, valid>>
     ELSE IF ~IgetOK(ip) THEN
       /\ Exhausted(p)
       /\ UNCHANGED <<ref, valid, lock>>
     ELSE
       /\ Iget(ip)
       /\ Then(p, <<Instr("lock", ip), InstrIn("unlink2", ip, dp)>>)
       /\ UNCHANGED lock
  /\ UNCHANGED <<dinode, files>>

IsDirEmpty(i) == \A n \in Names : Lookup(i, n) = 0

\* Faulty: the subdirectory's ".." is forgotten.
EntryClearedOnly(dp, n, type) == [dinode EXCEPT ![dp].ents[n] = 0]

\* The entry is cleared, and with a directory goes its "..".
EntryCleared(dp, n, type) ==
  [dinode EXCEPT ![dp].ents[n] = 0, ![dp].nlink = IF type = "dir" THEN @ - 1 ELSE @]

\* Both locked: remove the entry, unless it is a directory that has files.
UnlinkEntry(p) ==
  LET ip == Arg(p)  dp == Dir(p) IN
  /\ At(p, "unlink2")
  /\ IF dinode[ip].nlink < 1 THEN
       /\ Panic(p)
       /\ UNCHANGED <<dinode, lock>>
     ELSE IF dinode[ip].type = "dir" /\ ~IsDirEmpty(ip) THEN
       /\ Unlocked(ip)
       /\ Then(p, <<Instr("put", ip), Instr("unlock", dp)>>)
       /\ UNCHANGED dinode
     ELSE
       /\ dinode' = EntryCleared(dp, Name(p), dinode[ip].type)
       /\ Unlocked(dp)
       /\ Then(p, <<Instr("put", dp), Instr("droplink", ip)>>)
  /\ UNCHANGED <<ref, valid, files>>

\* The end of sys_unlink(), and of a sys_link() that fails.
DropLink(p) ==
  /\ At(p, "droplink")
  /\ dinode' = [dinode EXCEPT ![Arg(p)].nlink = @ - 1]
  /\ Unlocked(Arg(p))
  /\ Then(p, <<Instr("put", Arg(p))>>)
  /\ UNCHANGED <<ref, valid, files>>

-----------------------------------------------------------------------------
(* create() *)

TypeOf(r) == IF r.call = "mkdir" THEN "dir" ELSE "file"

\* Faulty: the directory stays locked while the file is locked.
UseExistingUnder(dp, ip) ==
  <<Instr("lock", ip), Instr("unlock", dp), Instr("exists", ip)>>

\* The directory is left before the file is locked.
UseExisting(dp, ip) ==
  <<Instr("unlock", dp), Instr("lock", ip), Instr("exists", ip)>>

\* With the directory locked: the name is there, or an inode is allocated.
Create(p) ==
  LET dp == Arg(p)  ip == Lookup(Arg(p), Name(p))  new == Min(FreeInodes) IN
  /\ At(p, "create") \/ At(p, "mkdir")
  /\ IF ip # 0 /\ IgetOK(ip) THEN
       /\ Iget(ip)
       /\ Then(p, UseExisting(dp, ip))
       /\ UNCHANGED dinode
     ELSE IF ip = 0 /\ FreeInodes # {} /\ IgetOK(new) THEN
       /\ dinode' = [dinode EXCEPT ![new] = [Free EXCEPT !.type = TypeOf(req[p])]]
       /\ Iget(new)
       /\ Then(p, <<Instr("lock", new), InstrIn("fill", new, dp)>>)
     ELSE
       /\ Exhausted(p)
       /\ UNCHANGED <<dinode, ref, valid>>
  /\ UNCHANGED <<lock, files>>

\* The file exists: that is fine for open() of a file.
Exists(p) ==
  LET ip == Arg(p) IN
  /\ At(p, "exists")
  /\ IF req[p].call = "create" /\ dinode[ip].type = "file"
     THEN OpenFile(p, ip)
     ELSE /\ Unlocked(ip)
          /\ Then(p, <<Instr("put", ip)>>)
          /\ UNCHANGED open
  /\ UNCHANGED <<dinode, ref, valid, cwd>>

\* Both locked: fill in the inode, and enter it into the directory.
Fill(p) ==
  LET ip == Arg(p)  dp == Dir(p)  isdir == req[p].call = "mkdir" IN
  /\ At(p, "fill")
  /\ IF Lookup(dp, Name(p)) # 0 THEN
       /\ Panic(p)
       /\ UNCHANGED <<dinode, lock>>
     ELSE
       /\ dinode' = [dinode EXCEPT
            ![ip].nlink = 1,
            ![ip].ents = IF isdir THEN Directory(@, ip, dp) ELSE @,
            ![dp].nlink = IF isdir THEN @ + 1 ELSE @,
            ![dp].ents[Name(p)] = ip]
       /\ Unlocked(dp)
       /\ Then(p, <<Instr("put", dp), Instr("made", ip)>>)
  /\ UNCHANGED <<ref, valid, files>>

\* sys_open() goes on with the file, sys_mkdir() is done with the directory.
Made(p) ==
  /\ At(p, "made")
  /\ IF req[p].call = "create"
     THEN OpenFile(p, Arg(p))
     ELSE /\ Unlocked(Arg(p))
          /\ Then(p, <<Instr("put", Arg(p))>>)
          /\ UNCHANGED open
  /\ UNCHANGED <<dinode, ref, valid, cwd>>

-----------------------------------------------------------------------------
(* sys_link() *)

LinkCounted(ip) == [dinode EXCEPT ![ip].nlink = @ + 1]

\* The old file is locked: count the link, and look for the new directory.
SysLink(p) ==
  LET ip == Arg(p)  new == req[p].new IN
  /\ At(p, "link")
  /\ Unlocked(ip)
  /\ IF dinode[ip].type = "dir" THEN
       /\ Then(p, <<Instr("put", ip)>>)
       /\ UNCHANGED <<dinode, ref, valid>>
     ELSE
       /\ dinode' = LinkCounted(ip)
       /\ IF IgetOK(Start(p, new))
          THEN /\ Iget(Start(p, new))
               /\ Continue(p, Walk(p, "nameiparent", new) \o <<Instr("enter", ip)>>, Elements(new))
          ELSE /\ Exhausted(p)
               /\ UNCHANGED <<ref, valid>>
  /\ UNCHANGED files

\* The name is taken: its inode is put while the directory is still locked.
NameTaken(dp, there, ip) ==
  <<Instr("put", there), Instr("unlock", dp), Instr("lock", ip), Instr("droplink", ip)>>

\* dirlink(), with the directory locked.
Dirlink(p) ==
  LET ip == Arg(p)  dp == Dir(p)  there == Lookup(Dir(p), Name(p)) IN
  /\ At(p, "dirlink")
  /\ IF there = 0 THEN
       /\ dinode' = [dinode EXCEPT ![dp].ents[Name(p)] = ip]
       /\ Unlocked(dp)
       /\ Then(p, <<Instr("put", dp), Instr("put", ip)>>)
       /\ UNCHANGED <<ref, valid>>
     ELSE IF ~IgetOK(there) THEN
       /\ Exhausted(p)
       /\ UNCHANGED <<dinode, lock, ref, valid>>
     ELSE
       /\ Iget(there)
       /\ Then(p, NameTaken(dp, there, ip))
       /\ UNCHANGED <<dinode, lock>>
  /\ UNCHANGED files

-----------------------------------------------------------------------------

Step(p) ==
  \/ Ilock(p) \/ Iunlock(p) \/ Iput(p) \/ Deref(p)
  \/ Namex(p, "namei") \/ Namex(p, "nameiparent")
  \/ SysOpen(p) \/ SysChdir(p)
  \/ SysUnlink(p) \/ UnlinkEntry(p) \/ DropLink(p)
  \/ Create(p) \/ Exists(p) \/ Fill(p) \/ Made(p)
  \/ SysLink(p) \/ Dirlink(p)

Next ==
  /\ \E p \in Procs :
       \/ Step(p)
       \/ \E r \in workload : Syscall(p, r)
       \/ Close(p)
  /\ UNCHANGED workload

Spec == Init /\ [][Next]_vars

-----------------------------------------------------------------------------
(* Properties *)

\* No assertion of fs.c or sysfile.c fails, with one exception: an entry's inode has
\* a link, a new name is still free, and ilock() finds an allocated inode, unless
\* directories are removed while paths go up: ".." of a removed directory may name an
\* inode that has been freed.  (That inodes do not run out is not claimed.)
GoesUp(path) == \E k \in 1 .. Len(path) : path[k] = ".."
DotDotMayDangle ==
  \E r, q \in workload :
    r.call = "unlink" /\ (GoesUp(q.path) \/ (q.call = "link" /\ GoesUp(q.new)))

NoPanic ==
  \A p \in Procs : At(p, "panic") => todo[p][2].op = "lock" /\ DotDotMayDangle

\* No process waits, directly or through others, for a lock that it holds itself.
\* (It does not hold of create() and unlink() together: run fs_deadlock.)
Waits(p) == (At(p, "lock") \/ At(p, "put")) /\ lock[Arg(p)] # Nobody

LocksAcyclic ==
  ~\E S \in (SUBSET Procs) \ {{}} :
     \A p \in S : Waits(p) /\ lock[Arg(p)] \in S

\* Paths that go up and down the tree, creations and links do not deadlock, unless a
\* link is to get the name of a file that is being made, or to replace "." or "..".
Last(path) == path[Len(path)]

LookupsDoNotDeadlock ==
  /\ \A r \in workload : r.call # "unlink"
  /\ \A r \in workload : r.call = "link" =>
       Last(r.new) \notin Dots \cup
         {Last(q.path) : q \in {s \in workload : s.call \in {"create", "mkdir"}}}
  => LocksAcyclic

Quiet == \A p \in Procs : todo[p] = <<>>

\* When no call is under way, the references that are counted are the open files
\* and the current directories: every path through the calls gives back what it
\* took. And at no time is something freed that a name, an open file or a current
\* directory refers to.
RefsExact ==
  \A i \in Inums :
    /\ Quiet => ref[i] = Cardinality({p \in Procs : open[p] = i})
                          + Cardinality({p \in Procs : cwd[p] = i})
    /\ dinode[i].type = "none" =>
         /\ \A d \in Inums, n \in Names : Lookup(d, n) # i
         /\ \A p \in Procs : open[p] # i /\ cwd[p] # i

\* "the number of links referring to it": when no call is under way, nlink counts
\* the entries for the inode, ".." of a subdirectory included; unless a directory
\* is removed in which files are made, as create() and sys_link() may then have
\* found the directory before it was removed.
Links(i) ==
  Cardinality({e \in Inums \X Names : Lookup(e[1], e[2]) = i})
    + Cardinality({d \in Inums : dinode[d].nlink > 0 /\ Lookup(d, "..") = i})

ParentName(path) == IF Len(path) > 1 THEN path[Len(path) - 1] ELSE "."

RemovesParents ==
  \E r, q \in workload :
    /\ r.call = "unlink"
    /\ q.call \in {"create", "mkdir", "link"}
    /\ ParentName(IF q.call = "link" THEN q.new ELSE q.path) \in Dots \cup {Last(r.path)}

LinkCountsExact == Quiet /\ ~RemovesParents => \A i \in Inums : dinode[i].nlink = Links(i)

\* "If that was the last reference and the inode has no links to it, free the
\* inode": when no call is under way, an inode with no link is free or in use.
UnlinkedAreFreed ==
  Quiet => \A i \in Inums :
    dinode[i].nlink = 0 /\ ref[i] = 0 => dinode[i].type = "none"
=============================================================================
