------------------------------ MODULE MCSystem ------------------------------
(* A disk of a few dozen blocks, memory of a few dozen pages, tests, and sessions at
   the shell. *)
EXTENDS System

CONSTANT Tests

\* The first cell of a program is its header, the second its text.
Binary(name) == [name |-> name, cells |-> <<Byte("ELF"), Byte(name)>>]

\* README has an indirect block.
TestImage == <<[name |-> "README", cells |-> Text("r", 7)], Binary("echo"), Binary("cat"),
               Binary("init"), Binary("usertests")>>

MCTruncated == [name \in {"123456789012345"} |-> "12345678901234"]

TestJobs == {Job("usertests", test, TestImage) : test \in Tests}
            \cup {Job("stressfs", "", TestImage \o <<Binary("stressfs")>>),
                  Job("zombie", "", TestImage \o <<Binary("zombie")>>)}

ShellImage == <<[name |-> "f", cells |-> Text("F", 4)], Binary("init"), Binary("sh"),
                Binary("echo"), Binary("cat"), Binary("rm"), Binary("ln"),
                Binary("mkdir")>>

Echo(word) == ExecCmd(<<"echo", word>>)
Words(argv) == ExecCmd(argv)

\* Commands that the user types on a line each, and "^D".
Session(cmds) ==
  [Job("sh", "", ShellImage) EXCEPT
     !.cmds = cmds, !.keys = FlattenSeq([j \in DOMAIN cmds |-> Typed(cmds[j]) \o <<"\n">>]) \o <<"^D">>]

\* A command that the user types otherwise, or that reads from the console.
Keys(cmd, ks) == [Job("sh", "", ShellImage) EXCEPT !.cmds = <<cmd>>, !.keys = ks \o <<"^D">>]

MCSessions == {
  Session(<<PipeCmd(Echo("a"), Words(<<"cat">>))>>),
  Session(<<Out(Echo("a"), "g"), In(Words(<<"cat">>), "g")>>),
  Session(<<Out(ListCmd(Echo("a"), Echo("b")), "f"), Words(<<"cat", "f">>)>>),
  Session(<<Out(Out(Echo("a"), "f"), "g"), Words(<<"cat", "f", "g">>)>>),
  Session(<<PipeCmd(Words(<<"cat", "f">>), Out(Words(<<"cat">>), "g")), Words(<<"cat", "g">>)>>),
  [Session(<<ListCmd(BackCmd(Echo("a")), Echo("b"))>>) EXCEPT !.ordered = FALSE],
  Session(<<ListCmd(Words(<<"nosuch">>), In(Words(<<"cat">>), "nosuch"))>>),
  Session(<<ListCmd(Words(<<"ln", "f", "g">>), Words(<<"rm", "f">>)), Words(<<"cat", "f", "g">>)>>),
  Session(<<ListCmd(Words(<<"mkdir", "d">>), Words(<<"mkdir", "f">>))>>),
  Keys(NoCmd, <<"(", "echo", " ", "a", "\n">>), Keys(NoCmd, <<"cd", " ", "nosuch", "\n">>),
  Keys(NoCmd, <<"echo", " ", "a", " ", "b", " ", "c", " ", "d", "\n">>),
  [Keys(Words(<<"cat">>), <<"cat", "\n", "x", "y", "\n", "z", "^D">>) EXCEPT !.text = <<"x", "y", "\n", "z">>],
  Keys(Echo("a"), <<"cd", " ", ".", "\n", "rm", " ", "^U", "echo", " ", "b", "^H", "a", "\n", "^H">>)}

MCJobs == TestJobs \cup MCSessions

=============================================================================
