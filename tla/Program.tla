------------------------------ MODULE Program ------------------------------
(***************************************************************************)
(* Programs: sequences of system calls. A call has its arguments, the      *)
(* variable its result goes to, and what the program requires of it.       *)
(***************************************************************************)
EXTENDS Inodes

\* A process's variables: descriptors, process numbers and an address. The first
\* three stand for the numbers 0, 1 and 2.
Std == {"stdin", "stdout", "stderr"}
Vars == Std \cup {"fd", "fd1", "pid1", "pid2", "brk"}
NewVars == [v \in Vars |-> CASE v = "stdout" -> 1 [] v = "stderr" -> 2 [] OTHER -> 0]

Stmt(op) == [op |-> op, path |-> Rel(<<>>), new |-> Rel(<<>>), mode |-> {}, fd |-> "fd",
             cells |-> <<>>, n |-> 0, to |-> "none", want |-> "any", child |-> <<>>,
             args |-> <<>>, orelse |-> <<>>]

\* When the call s fails the program goes on with the statements given instead.
OrElse(s, statements) == [s EXCEPT !.want = "or else", !.orelse = statements]

P(name) == Rel(<<name>>)
Text(c, n) == [j \in 1 .. n |-> Byte(c)]
Repeat(n, Body(_)) == FlattenSeq([i \in 1 .. n |-> Body(i)])

Open(v, path, mode, want) ==
  [Stmt("open") EXCEPT !.path = path, !.mode = mode, !.to = v, !.want = want]
Close(v) == [Stmt("close") EXCEPT !.fd = v]
Write(v, cells) == [Stmt("write") EXCEPT !.fd = v, !.cells = cells, !.want = "all"]
WriteAny(v, cells) == [Write(v, cells) EXCEPT !.want = "any"]
WriteFails(v, cells) == [Write(v, cells) EXCEPT !.want = "fail"]
Read(v, n, cells) == [Stmt("read") EXCEPT !.fd = v, !.n = n, !.cells = cells, !.want = "data"]
ReadFails(v, n) == [Read(v, n, <<>>) EXCEPT !.want = "fail"]
\* The loop while(read() > 0), and what it has read in the end.
Drain(v, n, cells, want) ==
  [Stmt("drain") EXCEPT !.fd = v, !.n = n, !.cells = cells, !.want = want]
Unlink(path, want) == [Stmt("unlink") EXCEPT !.path = path, !.want = want]
Link(old, new, want) == [Stmt("link") EXCEPT !.path = old, !.new = new, !.want = want]
Mkdir(path, want) == [Stmt("mkdir") EXCEPT !.path = path, !.want = want]
Mknod(path) == [Stmt("mknod") EXCEPT !.path = path]
Chdir(path, want) == [Stmt("chdir") EXCEPT !.path = path, !.want = want]
PipeCall(want) == [Stmt("pipe") EXCEPT !.want = want]
Dup(v) == [Stmt("dup") EXCEPT !.fd = v]
Dup2(v, w) == [Stmt("dup2") EXCEPT !.fd = v, !.to = w, !.want = "ok"]
Fstat(v, want) == [Stmt("fstat") EXCEPT !.fd = v, !.want = want]
ForkTo(v, child) == [Stmt("fork") EXCEPT !.to = v, !.child = child, !.want = "ok"]
Forks(child) == ForkTo("none", child)
ForkMany == Stmt("forkmany")
WaitFor(want) == [Stmt("wait") EXCEPT !.want = want]
WaitAny == WaitFor("any")
\* wait() for as long as there are children.
Reap == Stmt("reap")
Kill(v) == [Stmt("kill") EXCEPT !.fd = v]
Run(path, args) == [Stmt("exec") EXCEPT !.path = path, !.args = args, !.want = "fail"]
\* The address that sbrk(0) returns is kept in "brk"; other addresses are relative to it.
SbrkMark == [Stmt("sbrk") EXCEPT !.to = "brk"]
Sbrk(n, at) == [Stmt("sbrk") EXCEPT !.n = n, !.cells = <<Entry("", at)>>, !.want = "address"]
Store(at, c) == [Stmt("store") EXCEPT !.n = at, !.cells = <<Byte(c)>>, !.fd = "brk"]
Load(at, c) == [Store(at, c) EXCEPT !.op = "load", !.want = "data"]
LoadOther(at, c) == [Load(at, c) EXCEPT !.want = "other data"]
\* The same for an address that is relative to 0.
LoadAt(a, c) == [Load(a, c) EXCEPT !.fd = "stdin"]
\* An instruction that only the kernel may execute.
Privileged == Stmt("privileged")
Spin == Stmt("spin")
\* One of several programs: linkunlink() takes them by a pseudo-random number.
OneOf(programs) == [Stmt("oneof") EXCEPT !.child = programs]
\* cat(): the loop that copies what it reads to descriptor 1.
Cat(v, n) == [Stmt("cat") EXCEPT !.fd = v, !.n = n]
\* The loop of the shell, which reads lines from descriptor 0 and runs them.
Getcmd == [Stmt("getcmd") EXCEPT !.fd = "stdin", !.n = 1]

\* What a call returns, and what it has read, is what the program requires; base is
\* the address that others are relative to.
Meets(s, r, cells, base) ==
  CASE s.want = "any"  -> TRUE
    [] s.want = "ok"   -> r >= 0
    [] s.want = "fail" -> r < 0
    [] s.want = "or else" -> r >= Len(s.cells)
    [] s.want = "all"  -> r = Len(s.cells)
    [] s.want = "address" -> r = base + InumOf(s.cells[1])
    [] s.want = "data" -> cells = s.cells
    [] s.want = "other data" -> cells # s.cells
    [] s.want = "bag"  -> \A c \in ToSet(cells) \cup ToSet(s.cells) :
          Len(SelectSeq(cells, LAMBDA x : x = c)) = Len(SelectSeq(s.cells, LAMBDA x : x = c))
    [] s.want = "names" -> \A name \in ToSet(s.cells) :
          Len(SelectSeq(cells, LAMBDA x : InumOf(x) # 0 /\ NameOf(x) = NameOf(name))) = 1

=============================================================================
