----------------------------- MODULE UserTests -----------------------------
(***************************************************************************)
(* The tests of usertests.c, stressfs.c, zombie.c and forktest.c as        *)
(* programs. The loops have fewer rounds and the buffers are smaller than  *)
(* in the code, in proportion to blocks and pages; what a call must return *)
(* is what the test checks.                                                *)
(***************************************************************************)
EXTENDS Program, Files

CONSTANT Rounds  \* the rounds of loops over files

RDWR == {"RDWR"}
CreateRDWR == {"CREATE", "RDWR"}
Digit(i) == <<"0", "1", "2", "3", "4", "5", "6", "7", "8", "9">>[i + 1]

-----------------------------------------------------------------------------
(* Inodes and directories *)

iputtest ==
  <<Mkdir(P("iputdir"), "ok"), Chdir(P("iputdir"), "ok"),
    Unlink(Rel(<<"..", "iputdir">>), "ok"), Chdir(Abs(<<>>), "ok")>>

exitiputtest ==
  <<Forks(<<Mkdir(P("iputdir"), "ok"), Chdir(P("iputdir"), "ok"),
            Unlink(Rel(<<"..", "iputdir">>), "ok")>>), WaitAny>>

openiputtest ==
  <<Mkdir(P("oidir"), "ok"), Forks(<<Open("fd", P("oidir"), RDWR, "fail")>>),
    Unlink(P("oidir"), "ok"), WaitAny>>

opentest ==
  <<Open("fd", P("echo"), {}, "ok"), Close("fd"),
    Open("fd", P("doesnotexist"), {}, "fail")>>

createtest ==
  LET name(i) == P("a" \o Digit(i)) IN
  Repeat(Rounds, LAMBDA i : <<Open("fd", name(i), CreateRDWR, "any"), Close("fd")>>)
    \o Repeat(Rounds, LAMBDA i : <<Unlink(name(i), "any")>>)

dirtest ==
  <<Mkdir(P("dir0"), "ok"), Chdir(P("dir0"), "ok"), Chdir(P(".."), "ok"),
    Unlink(P("dir0"), "ok")>>

rmdot ==
  <<Mkdir(P("dots"), "ok"), Chdir(P("dots"), "ok"), Unlink(P("."), "fail"),
    Unlink(P(".."), "fail"), Chdir(Abs(<<>>), "ok"),
    Unlink(Rel(<<"dots", ".">>), "fail"), Unlink(Rel(<<"dots", "..">>), "fail"),
    Unlink(P("dots"), "ok")>>

dirfile ==
  LET xx == Rel(<<"dirfile", "xx">>) IN
  <<Open("fd", P("dirfile"), {"CREATE"}, "ok"), Close("fd"), Chdir(P("dirfile"), "fail"),
    Open("fd", xx, {}, "fail"), Open("fd", xx, {"CREATE"}, "fail"), Mkdir(xx, "fail"),
    Unlink(xx, "fail"), Link(P("README"), xx, "fail"), Unlink(P("dirfile"), "ok"),
    Open("fd", P("."), RDWR, "fail"), Open("fd", P("."), {}, "any"),
    WriteFails("fd", Text("x", 1)), Close("fd")>>

\* One round more than the inode cache has entries.
iref ==
  Repeat(NINODE + 1, LAMBDA i :
    <<Mkdir(P("irefd"), "ok"), Chdir(P("irefd"), "ok"), Mkdir(Rel(<<>>), "any"),
      Link(P("README"), Rel(<<>>), "any"), Open("fd", Rel(<<>>), {"CREATE"}, "any"),
      Close("fd"), Open("fd", P("xx"), {"CREATE"}, "any"), Close("fd"), Unlink(P("xx"), "any")>>)
  \o <<Chdir(Abs(<<>>), "any")>>

\* Names of DIRSIZ characters and of one more.
fourteen ==
  LET a == "12345678901234"
      b == "123456789012345"
  IN  <<Mkdir(P(a), "ok"), Mkdir(Rel(<<a, b>>), "ok"),
        Open("fd", Rel(<<b, b, b>>), {"CREATE"}, "ok"), Close("fd"),
        Open("fd", Rel(<<a, a, a>>), {}, "ok"), Close("fd"),
        Mkdir(Rel(<<a, a>>), "fail"), Mkdir(Rel(<<b, a>>), "fail")>>

bigdir ==
  LET name(i) == P("x" \o Digit(i))
      n == NDIRECT * BSIZE
  IN  <<Unlink(P("bd"), "any"), Open("fd", P("bd"), {"CREATE"}, "ok"), Close("fd")>>
        \o Repeat(n, LAMBDA i : <<Link(P("bd"), name(i), "ok")>>)
        \o <<Unlink(P("bd"), "any")>>
        \o Repeat(n, LAMBDA i : <<Unlink(name(i), "ok")>>)

linktest ==
  LET lf1 == P("lf1")
      lf2 == P("lf2")
  IN  <<Unlink(lf1, "any"), Unlink(lf2, "any"), Open("fd", lf1, CreateRDWR, "ok"),
        Write("fd", Text("h", 5)), Close("fd"), Link(lf1, lf2, "ok"), Unlink(lf1, "any"),
        Open("fd", lf1, {}, "fail"), Open("fd", lf2, {}, "ok"),
        Read("fd", MAXFILE, Text("h", 5)), Close("fd"), Link(lf2, lf2, "fail"),
        Unlink(lf2, "any"), Link(lf2, lf1, "fail"), Link(P("."), lf1, "fail")>>

\* subdir(), until the file dd/dd/ff has become dd/dd/ffff.
subdir1 ==
  <<Unlink(P("ff"), "any"), Mkdir(P("dd"), "ok"),
    Open("fd", Rel(<<"dd", "ff">>), CreateRDWR, "ok"), WriteAny("fd", Text("f", 2)),
    Close("fd"), Unlink(P("dd"), "fail"), Mkdir(Abs(<<"dd", "dd">>), "ok"),
    Open("fd", Rel(<<"dd", "dd", "ff">>), CreateRDWR, "ok"), WriteAny("fd", Text("F", 2)),
    Close("fd"), Open("fd", Rel(<<"dd", "dd", "..", "ff">>), {}, "ok"),
    Read("fd", MAXFILE, Text("f", 2)), Close("fd"),
    Link(Rel(<<"dd", "dd", "ff">>), Rel(<<"dd", "dd", "ffff">>), "ok"),
    Unlink(Rel(<<"dd", "dd", "ff">>), "ok"), Open("fd", Rel(<<"dd", "dd", "ff">>), {}, "fail")>>

\* The rest of subdir(): paths with dots, calls that must fail, and the clean-up.
subdir2 ==
  LET ddff == Rel(<<"dd", "ff">>)
      ffff == Rel(<<"dd", "dd", "ffff">>)
      ff == Rel(<<"dd", "ff", "ff">>)
      xx == Rel(<<"dd", "xx", "ff">>)
      new == Rel(<<"dd", "dd", "xx">>)
  IN  <<Chdir(P("dd"), "ok"), Chdir(Rel(<<"dd", "..", "..", "dd">>), "ok"),
        Chdir(Rel(<<"dd", "..", "..", "..", "dd">>), "ok"), Chdir(Rel(<<".", "..">>), "ok"),
        Open("fd", ffff, {}, "ok"), Read("fd", MAXFILE, Text("F", 2)), Close("fd"),
        Open("fd", Rel(<<"dd", "dd", "ff">>), {}, "fail"),
        Open("fd", ff, CreateRDWR, "fail"), Open("fd", xx, CreateRDWR, "fail"),
        Open("fd", P("dd"), {"CREATE"}, "fail"), Open("fd", P("dd"), RDWR, "fail"),
        Open("fd", P("dd"), {"WRONLY"}, "fail"), Link(ff, new, "fail"), Link(xx, new, "fail"),
        Link(ddff, ffff, "fail"), Mkdir(ff, "fail"), Mkdir(xx, "fail"), Mkdir(ffff, "fail"),
        Unlink(xx, "fail"), Unlink(ff, "fail"), Chdir(ddff, "fail"),
        Chdir(Rel(<<"dd", "xx">>), "fail"), Unlink(ffff, "ok"), Unlink(ddff, "ok"),
        Unlink(P("dd"), "fail"), Unlink(Rel(<<"dd", "dd">>), "ok"), Unlink(P("dd"), "ok")>>

subdir == subdir1 \o subdir2

-----------------------------------------------------------------------------
(* Contents *)

writetest ==
  <<Open("fd", P("small"), CreateRDWR, "ok")>>
    \o Repeat(Rounds, LAMBDA i : <<Write("fd", Text("a", 2)), Write("fd", Text("b", 2))>>)
    \o <<Close("fd"), Open("fd", P("small"), {}, "ok"),
         Read("fd", 4 * Rounds, Repeat(Rounds, LAMBDA i : Text("a", 2) \o Text("b", 2))),
         Close("fd"), Unlink(P("small"), "ok")>>

\* A file of the greatest size, block by block.
writetest1 ==
  LET block(i) == Text(Digit(i), BSIZE) IN
  <<Open("fd", P("big"), CreateRDWR, "ok")>>
    \o Repeat(MAXFILE, LAMBDA i : <<Write("fd", block(i))>>)
    \o <<Close("fd"), Open("fd", P("big"), {}, "ok")>>
    \o Repeat(MAXFILE, LAMBDA i : <<Read("fd", BSIZE, block(i))>>)
    \o <<Read("fd", BSIZE, <<>>), Close("fd"), Unlink(P("big"), "ok")>>

unlinkread ==
  LET f == P("unlinkread") IN
  <<Open("fd", f, CreateRDWR, "ok"), WriteAny("fd", Text("h", 5)), Close("fd"),
    Open("fd", f, RDWR, "ok"), Unlink(f, "ok"), Open("fd1", f, CreateRDWR, "any"),
    WriteAny("fd1", Text("y", 3)), Close("fd1"), Read("fd", MAXFILE * BSIZE, Text("h", 5)),
    Write("fd", Text("h", 10)), Close("fd"), Unlink(f, "any")>>

\* Writes of more than a transaction takes.
bigwrite ==
  LET f == P("bigwrite") IN
  <<Unlink(f, "any")>>
    \o Repeat(3, LAMBDA i :
         <<Open("fd", f, CreateRDWR, "ok"), Write("fd", Text("w", 3 * i - 1)),
           Write("fd", Text("w", 3 * i - 1)), Close("fd"), Unlink(f, "any")>>)

bigfile ==
  LET f == P("bigfile")
      n == (MAXFILE * BSIZE) \div 4
  IN  <<Unlink(f, "any"), Open("fd", f, CreateRDWR, "ok")>>
        \o Repeat(n, LAMBDA i : <<Write("fd", Text(Digit(i), 4))>>)
        \o <<Close("fd"), Open("fd", f, {}, "ok")>>
        \o Repeat(2 * n, LAMBDA i : <<Read("fd", 2, Text(Digit((i + 1) \div 2), 2))>>)
        \o <<Read("fd", 2, <<>>), Close("fd"), Unlink(f, "any")>>

-----------------------------------------------------------------------------
(* Concurrent processes *)

\* Parent and child write through the same open file.
sharedfd ==
  LET f == P("sharedfd")
      writes(c) == Repeat(Rounds, LAMBDA i : <<Write("fd", Text(c, 3))>>)
  IN  <<Unlink(f, "any"), Open("fd", f, CreateRDWR, "ok"), Forks(writes("c"))>>
        \o writes("p")
        \o <<WaitAny, Close("fd"), Open("fd", f, {}, "ok"),
             Drain("fd", 3, Text("c", 3 * Rounds) \o Text("p", 3 * Rounds), "bag"),
             Close("fd"), Unlink(f, "any")>>

\* Not a test of the repository: the same with writes that filewrite() splits.
splitwrites ==
  LET f == P("sharedfd")
      n == 2 * MaxWrite + 1
  IN  <<Open("fd", f, CreateRDWR, "ok"), Forks(<<Write("fd", Text("c", n))>>),
        Write("fd", Text("p", n)), WaitAny, Close("fd"), Open("fd", f, {}, "ok"),
        Drain("fd", 3, Text("c", n) \o Text("p", n), "bag"), Close("fd"), Unlink(f, "any")>>

\* Children write files of their own at the same time. The model has two.
fourfiles ==
  LET f(i) == P("f" \o Digit(i))
      child(i) == <<Open("fd", f(i), CreateRDWR, "ok")>>
                    \o Repeat(4, LAMBDA j : <<Write("fd", Text(Digit(i), 2))>>)
  IN  Repeat(2, LAMBDA i : <<Unlink(f(i), "any"), Forks(child(i))>>)
        \o <<WaitAny, WaitAny>>
        \o Repeat(2, LAMBDA i :
             <<Open("fd", f(i), {}, "any"), Drain("fd", BSIZE, Text(Digit(i), 8), "data"),
               Close("fd"), Unlink(f(i), "any")>>)

\* Children create and delete files in the same directory. The model has two
\* children and N = 4, so that file 1 is deleted.
createdelete ==
  LET name(c, i) == P(c \o Digit(i))
      child(c) == Repeat(4, LAMBDA j :
                    <<Open("fd", name(c, j - 1), CreateRDWR, "ok"), Close("fd")>>
                    \o (IF j = 3 THEN <<Unlink(name(c, 1), "ok")>> ELSE <<>>))
      check(c, i) == IF i = 1 THEN <<Open("fd", name(c, i), {}, "fail")>>
                     ELSE <<Open("fd", name(c, i), {}, "ok"), Close("fd")>>
      letter == <<"p", "q", "r", "s">>
  IN  <<Forks(child("p")), Forks(child("q")), WaitAny, WaitAny>>
        \o Repeat(4, LAMBDA j : check("p", j - 1) \o check("q", j - 1))
        \o Repeat(4, LAMBDA j : LET f == name(letter[j], j - 1) IN
                                <<Unlink(f, "any"), Unlink(f, "any")>>)

\* Parent and child create or link the same name; then they open or remove it.
concreate ==
  LET N == 7
      f(i) == P("C" \o Digit(i))
      make(i, m) == IF i % m = 1 THEN <<Link(P("C0"), f(i), "any")>>
                    ELSE <<Open("fd", f(i), CreateRDWR, "ok"), Close("fd")>>
      use(i) == <<Open("fd", f(i), {}, "any"), Close("fd"), Open("fd", f(i), {}, "any"), Close("fd")>>
      remove(i) == <<Unlink(f(i), "any"), Unlink(f(i), "any")>>
      part(i, m) == IF i % 3 = m THEN use(i) ELSE remove(i)
  IN  Repeat(N, LAMBDA j : <<Unlink(f(j - 1), "any"), Forks(make(j - 1, 5))>> \o make(j - 1, 3)
                             \o <<WaitAny>>)
        \o <<Open("fd", P("."), {}, "any"),
             Drain("fd", 1, [j \in 1 .. N |-> Byte("C" \o Digit(j - 1))], "names"), Close("fd")>>
        \o Repeat(N, LAMBDA j : <<Forks(part(j - 1, 0))>> \o part(j - 1, 1) \o <<WaitAny>>)

\* Parent and child create, link and remove the same name, in any order.
linkunlink ==
  LET x == P("x")
      some == Repeat(Rounds, LAMBDA i :
        <<OneOf(<<<<Open("fd", x, CreateRDWR, "any"), Close("fd")>>,
                  <<Link(P("cat"), x, "any")>>, <<Unlink(x, "any")>>>>)>>)
  IN  <<Unlink(x, "any"), Forks(some)>> \o some \o <<WaitAny>>

\* main() of stressfs: process i, which process i - 1 has forked, writes and reads a
\* file of its own. The model has two.
stressfs ==
  LET f(i) == P("stressfs" \o Digit(i))
      body(i) == <<Open("fd", f(i), CreateRDWR, "any"), WriteAny("fd", Text("a", BSIZE)),
                   WriteAny("fd", Text("a", BSIZE)), Close("fd"), Open("fd", f(i), {}, "any"),
                   Read("fd", BSIZE, Text("a", BSIZE)), Read("fd", BSIZE, Text("a", BSIZE)),
                   Close("fd"), WaitAny>>
  IN  <<Forks(body(1))>> \o body(0)

\* main() of zombie: the child is left to init.
zombie == <<Forks(<<>>)>>

pipe1 ==
  LET text(i) == <<Byte(Digit(2 * i - 1)), Byte(Digit(2 * i)), Byte("x")>> IN
  <<PipeCall("ok"), Forks(<<Close("fd")>> \o Repeat(Rounds, LAMBDA i : <<Write("fd1", text(i))>>)),
    Close("fd1"), Drain("fd", 1, Repeat(Rounds, text), "data"), Close("fd"), WaitAny>>

preempt ==
  <<ForkTo("pid1", <<Spin>>), PipeCall("ok"),
    ForkTo("pid2", <<Close("fd"), Write("fd1", Text("x", 1)), Close("fd1"), Spin>>),
    Close("fd1"), Read("fd", MAXFILE, Text("x", 1)), Close("fd"), Kill("pid1"), Kill("pid2"),
    WaitAny, WaitAny>>

exitwait == Repeat(Rounds, LAMBDA i : <<Forks(<<>>), WaitFor("ok")>>)

\* fork() until there is no slot left, wait() for all the children, and for no more.
forktest == <<ForkMany, WaitFor("fail")>>

\* Not a test of the repository: descriptors run out in the middle of dup(), open()
\* and pipe(), and dup2() replaces a file.
descriptors ==
  <<PipeCall("ok"), Close("fd1"), Open("fd1", P("cat"), {}, "ok"), Dup2("fd1", "fd"),
    Dup2("fd", "fd"), Fstat("fd", "ok"), Dup("fd1")>>
    \o Repeat(NOFILE, LAMBDA i : <<Dup("fd")>>)
    \o <<Open("fd1", P("cat"), {}, "fail"), Close("fd"), PipeCall("fail"), ReadFails("fd", 1),
         Fstat("fd", "fail")>>

-----------------------------------------------------------------------------
(* Memory *)

\* More than two pages by single bytes; then much more, and the last page given back
\* and taken again: its byte must not be 99 any more. This kernel fails the test there,
\* as sbrk() leaves the page where it is, and the rest of the test is not reached.
sbrktest ==
  LET n == 2 * PGSIZE + 1
      big == 7 * PGSIZE
  IN  <<SbrkMark>>
        \o Repeat(n, LAMBDA i : <<Sbrk(1, i - 1), Store(i - 1, "1")>>)
        \o <<Forks(<<Sbrk(1, n), Sbrk(1, n + 1)>>), Sbrk(1, n), Sbrk(1, n + 1), WaitAny,
             Sbrk(big - n - 2, n + 2), Store(big - 1, "99"), Sbrk(-PGSIZE, big),
             Sbrk(0, big - PGSIZE), Sbrk(PGSIZE, big - PGSIZE), Sbrk(0, big),
             LoadOther(big - 1, "99")>>

\* The child allocates until there is no memory left. It does not come to free(): sbrk()
\* does not fail, and the child is killed when it uses a page that is not there.
mem ==
  <<Forks(<<SbrkMark>> \o Repeat(NPAGES, LAMBDA i :
            <<Sbrk(PGSIZE, PGSIZE * (i - 1)), Store(PGSIZE * (i - 1), "m")>>)),
    WaitFor("ok")>>

\* The page of the usertests program behind its text is not in the file.
bsstest == <<LoadAt(PGSIZE, "zero")>>

bigargtest ==
  LET ok == P("bigarg-ok") IN
  <<Unlink(ok, "any"),
    Forks(<<Run(P("echo"), [i \in 1 .. (ARGWORDS + 1) |-> "failed"]), Open("fd", ok, {"CREATE"}, "any"),
            Close("fd")>>),
    WaitAny, Open("fd", ok, {}, "ok"), Close("fd"), Unlink(ok, "any")>>

exectest == <<Run(P("echo"), <<"echo", "ALL", "TESTS", "PASSED">>)>>

\* The child passes a bad address to sleep(), which fails or lasts until it is killed.
validatetest ==
  Repeat(Rounds, LAMBDA i :
    <<ForkTo("pid1", <<OneOf(<<<<>>, <<Spin>>>>)>>), Kill("pid1"), WaitAny,
      Link(P("nosuchfile"), P("x"), "fail")>>)

uio == <<Forks(<<Privileged, WriteFails("stdout", <<Byte("FAILED")>>)>>), WaitAny>>

argptest == <<Open("fd", P("init"), {}, "ok"), ReadFails("fd", -1), Close("fd")>>

\* Not a test of the repository: memory runs out in fork(), pipe() and exec().
shortage ==
  <<SbrkMark>> \o Repeat(NPAGES, LAMBDA i :
    <<[Forks(<<[Run(P("echo"), <<"echo">>) EXCEPT !.want = "any"]>>) EXCEPT !.want = "any"],
      WaitAny, PipeCall("any"), Close("fd"), Close("fd1"),
      Sbrk(PGSIZE, PGSIZE * (i - 1)), Store(PGSIZE * (i - 1), "m")>>)

-----------------------------------------------------------------------------
Script(name) ==
  CASE name = "iputtest" -> iputtest [] name = "exitiputtest" -> exitiputtest
    [] name = "openiputtest" -> openiputtest [] name = "opentest" -> opentest
    [] name = "createtest" -> createtest [] name = "dirtest" -> dirtest
    [] name = "rmdot" -> rmdot [] name = "dirfile" -> dirfile [] name = "iref" -> iref
    [] name = "fourteen" -> fourteen [] name = "bigdir" -> bigdir
    [] name = "linktest" -> linktest [] name = "subdir" -> subdir
    [] name = "writetest" -> writetest [] name = "writetest1" -> writetest1
    [] name = "unlinkread" -> unlinkread [] name = "bigwrite" -> bigwrite
    [] name = "bigfile" -> bigfile [] name = "sharedfd" -> sharedfd
    [] name = "splitwrites" -> splitwrites
    [] name = "fourfiles" -> fourfiles [] name = "createdelete" -> createdelete
    [] name = "concreate" -> concreate [] name = "linkunlink" -> linkunlink
    [] name = "pipe1" -> pipe1
    [] name = "preempt" -> preempt [] name = "exitwait" -> exitwait
    [] name = "forktest" -> forktest [] name = "descriptors" -> descriptors
    [] name = "sbrktest" -> sbrktest [] name = "mem" -> mem [] name = "bsstest" -> bsstest
    [] name = "bigargtest" -> bigargtest [] name = "exectest" -> exectest
    [] name = "validatetest" -> validatetest [] name = "uio" -> uio
    [] name = "argptest" -> argptest [] name = "shortage" -> shortage

\* main() of usertests, with one test.
usertests(name) ==
  <<Open("fd", P("usertests.ran"), {}, "fail"), Open("fd", P("usertests.ran"), {"CREATE"}, "ok"),
    Close("fd")>> \o Script(name)

=============================================================================
