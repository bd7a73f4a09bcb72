------------------------------- MODULE Shell -------------------------------
(***************************************************************************)
(* The shell sh.c: its parser, and the programs that runcmd() makes of     *)
(* commands. A line is a sequence of characters; a word of a line may      *)
(* stand for several of them. What a command is to do is defined           *)
(* separately, as Meaning.                                                 *)
(***************************************************************************)
EXTENDS Program

CONSTANTS
  MAXARGS,  \* arguments of a command, and the null pointer after them
  CatBuf    \* bytes that cat reads at a time

Whitespace == {" ", "\n"}
Symbols == {"<", "|", ">", "&", ";", "(", ")"}

-----------------------------------------------------------------------------
(* Commands *)

ExecCmd(argv) == [type |-> "EXEC", argv |-> argv]
RedirCmd(cmd, file, mode, fd) ==
  [type |-> "REDIR", cmd |-> cmd, file |-> file, mode |-> mode, fd |-> fd]
PipeCmd(left, right) == [type |-> "PIPE", left |-> left, right |-> right]
ListCmd(left, right) == [type |-> "LIST", left |-> left, right |-> right]
BackCmd(cmd) == [type |-> "BACK", cmd |-> cmd]
\* The parser has called panic(): the process that parses exits.
NoCmd == [type |-> "PANIC"]

In(cmd, file) == RedirCmd(cmd, file, {}, "stdin")
Out(cmd, file) == RedirCmd(cmd, file, {"WRONLY", "CREATE"}, "stdout")

-----------------------------------------------------------------------------
(* The parser *)

\* The rest of s from the first character on that is not in chars.
Skip(s, chars) ==
  SubSeq(s, Min({i \in DOMAIN s : s[i] \notin chars} \cup {Len(s) + 1}), Len(s))

\* gettoken(): "" at the end, "a" for a word, "+" for >>.
Token(tok, word, s) == [tok |-> tok, word |-> word, s |-> Skip(s, Whitespace)]
Word(s, n) ==
  Token("a", FoldLeft(LAMBDA w, c : w \o c, "", SubSeq(s, 1, n)), SubSeq(s, n + 1, Len(s)))
TokenAt(s) ==
  IF s = <<>> THEN Token("", "", s)
  ELSE IF Len(s) > 1 /\ s[1] = ">" /\ s[2] = ">" THEN Token("+", "", SubSeq(s, 3, Len(s)))
  ELSE IF s[1] \in Symbols THEN Token(s[1], "", Tail(s))
  ELSE Word(s, Min({i \in DOMAIN s : s[i] \in Whitespace \cup Symbols} \cup {Len(s) + 1}) - 1)
Gettoken(s) == TokenAt(Skip(s, Whitespace))

Peek(s, toks) == \E t \in {Skip(s, Whitespace)} : t # <<>> /\ t[1] \in toks

\* A result of the parser: a command and the rest of the line.
Parsed(cmd, s) == [cmd |-> cmd, s |-> s]
Syntax == Parsed(NoCmd, <<>>)

RECURSIVE Parseredirs(_, _), Redirected(_, _, _)

\* parseredirs(): the redirections at the beginning of s, around cmd. The file of >>
\* is opened like that of >.
Parseredirs(cmd, s) ==
  IF ~Peek(s, {"<", ">"}) THEN Parsed(cmd, s)
  ELSE Redirected(cmd, Gettoken(s).tok, Gettoken(Gettoken(s).s))
Redirected(cmd, tok, f) ==
  IF f.tok # "a" THEN Syntax
  ELSE Parseredirs(IF tok = "<" THEN In(cmd, f.word) ELSE Out(cmd, f.word), f.s)

\* Another argument for the command inside the redirections.
RECURSIVE AddArg(_, _)
AddArg(cmd, arg) ==
  IF cmd.type = "EXEC" THEN [cmd EXCEPT !.argv = Append(@, arg)]
  ELSE [cmd EXCEPT !.cmd = AddArg(@, arg)]

RECURSIVE Parseargs(_, _, _), Parsearg(_, _, _, _), ParseargsOf(_, _)

\* The loop of parseexec(); argc arguments have been read.
Parseargs(cmd, s, argc) ==
  IF Peek(s, {"|", ")", "&", ";"}) THEN Parsed(cmd, s) ELSE Parsearg(cmd, s, argc, Gettoken(s))
Parsearg(cmd, s, argc, t) ==
  IF t.tok = "" THEN Parsed(cmd, s)
  ELSE IF t.tok # "a" \/ argc + 1 >= MAXARGS THEN Syntax
  ELSE ParseargsOf(Parseredirs(AddArg(cmd, t.word), t.s), argc + 1)
ParseargsOf(redirs, argc) ==
  IF redirs.cmd = NoCmd THEN Syntax ELSE Parseargs(redirs.cmd, redirs.s, argc)

RECURSIVE Parseline(_), Parsepipe(_), Parseexec(_), Parseblock(_), Parsebacks(_, _),
          AfterExec(_), AfterPipe(_), AfterBacks(_)

Parseexec(s) ==
  IF Peek(s, {"("}) THEN Parseblock(s) ELSE ParseargsOf(Parseredirs(ExecCmd(<<>>), s), 0)

BlockEnd(line) ==
  IF line.cmd = NoCmd \/ ~Peek(line.s, {")"}) THEN Syntax
  ELSE Parseredirs(line.cmd, Gettoken(line.s).s)
Parseblock(s) == BlockEnd(Parseline(Gettoken(s).s))

PipeWith(left, right) ==
  IF right.cmd = NoCmd THEN Syntax ELSE Parsed(PipeCmd(left, right.cmd), right.s)
AfterExec(left) ==
  IF left.cmd = NoCmd THEN Syntax
  ELSE IF ~Peek(left.s, {"|"}) THEN left
  ELSE PipeWith(left.cmd, Parsepipe(Gettoken(left.s).s))
Parsepipe(s) == AfterExec(Parseexec(s))

Parsebacks(cmd, s) ==
  IF Peek(s, {"&"}) THEN Parsebacks(BackCmd(cmd), Gettoken(s).s) ELSE Parsed(cmd, s)

ListWith(left, right) ==
  IF right.cmd = NoCmd THEN Syntax ELSE Parsed(ListCmd(left, right.cmd), right.s)
AfterBacks(left) ==
  IF ~Peek(left.s, {";"}) THEN left ELSE ListWith(left.cmd, Parseline(Gettoken(left.s).s))
AfterPipe(pipe) ==
  IF pipe.cmd = NoCmd THEN Syntax ELSE AfterBacks(Parsebacks(pipe.cmd, pipe.s))
Parseline(s) == AfterPipe(Parsepipe(s))

\* parsecmd(): all of the line must be parsed.
WholeLine(line) == IF Skip(line.s, Whitespace) # <<>> THEN NoCmd ELSE line.cmd
Parsecmd(s) == WholeLine(Parseline(s))

-----------------------------------------------------------------------------
(* runcmd() *)

\* What printf() writes to descriptor 2, as one byte.
Message(text) == WriteAny("stderr", <<Byte(text)>>)

\* fork1(): a shell that cannot fork panics.
Fork1(child) == OrElse(Forks(child), <<Message("fork")>>)

\* The program of a command, which ends with exit().
RECURSIVE Runcmd(_)
Runcmd(cmd) ==
  CASE cmd.type = "PANIC" -> <<Message("syntax")>>
    [] cmd.type = "EXEC" ->
         IF cmd.argv = <<>> THEN <<>>
         ELSE <<Run(P(cmd.argv[1]), cmd.argv), Message("exec failed")>>
    [] cmd.type = "REDIR" ->
         <<Close(cmd.fd), OrElse(Open("fd", P(cmd.file), cmd.mode, ""), <<Message("open failed")>>)>>
           \o Runcmd(cmd.cmd)
    [] cmd.type = "LIST" -> <<Fork1(Runcmd(cmd.left)), WaitAny>> \o Runcmd(cmd.right)
    [] cmd.type = "PIPE" ->
         <<OrElse(PipeCall(""), <<Message("pipe")>>),
           Fork1(<<Close("stdout"), Dup("fd1"), Close("fd"), Close("fd1")>> \o Runcmd(cmd.left)),
           Fork1(<<Close("stdin"), Dup("fd"), Close("fd"), Close("fd1")>> \o Runcmd(cmd.right)),
           Close("fd"), Close("fd1"), WaitAny, WaitAny>>
    [] cmd.type = "BACK" -> <<Fork1(Runcmd(cmd.cmd))>>

\* getcmd() and the loop in main() of the shell; it ends with the input.
Shloop == <<Message("$"), Getcmd>>

\* What the loop does with a line.
Shline(line) ==
  IF Len(line) > 2 /\ line[1] = "cd" /\ line[2] = " "
  THEN <<OrElse(Chdir(P(FoldLeft(LAMBDA w, c : w \o c, "", SubSeq(line, 3, Len(line) - 1))), ""),
                <<Message("cannot cd")>> \o Shloop)>> \o Shloop
  ELSE <<Fork1(Runcmd(Parsecmd(line))), WaitAny>> \o Shloop

Shmain == <<Open("fd", P("console"), {"RDWR"}, "any"), Close("fd")>> \o Shloop

-----------------------------------------------------------------------------
(* Programs that the shell runs *)

Echomain(argv) ==
  Repeat(Len(argv) - 1, LAMBDA i :
    <<WriteAny("stdout", <<Byte(argv[i + 1])>>),
      WriteAny("stdout", <<Byte(IF i + 1 < Len(argv) THEN " " ELSE "\n")>>)>>)

\* A round of the loop in cat(), when n bytes have been read.
Catround(s, n, cells) ==
  IF n < 0 THEN <<WriteAny("stdout", <<Byte("read error")>>)>>
  ELSE <<OrElse(Write("stdout", cells), <<WriteAny("stdout", <<Byte("write error")>>)>>), s>>

Catmain(argv) ==
  IF Len(argv) <= 1 THEN <<Cat("stdin", CatBuf)>>
  ELSE Repeat(Len(argv) - 1, LAMBDA i :
         <<OrElse(Open("fd", P(argv[i + 1]), {}, ""), <<WriteAny("stdout", <<Byte("cannot open")>>)>>),
           Cat("fd", CatBuf), Close("fd")>>)

Rmmain(argv) ==
  Repeat(Len(argv) - 1, LAMBDA i : <<OrElse(Unlink(P(argv[i + 1]), ""), <<Message("failed")>>)>>)

Mkdirmain(argv) ==
  Repeat(Len(argv) - 1, LAMBDA i : <<OrElse(Mkdir(P(argv[i + 1]), ""), <<Message("failed")>>)>>)

Lnmain(argv) ==
  IF Len(argv) # 3 THEN <<Message("Usage")>>
  ELSE <<OrElse(Link(P(argv[2]), P(argv[3]), ""), <<Message("failed")>>)>>

-----------------------------------------------------------------------------
(* What commands are to do *)

\* The line that a user types for a command.
RECURSIVE Typed(_)
Typed(cmd) ==
  LET group(c, types) == IF c.type \in types THEN Typed(c) ELSE <<"(">> \o Typed(c) \o <<")">> IN
  CASE cmd.type = "EXEC" -> Repeat(Len(cmd.argv), LAMBDA i : <<cmd.argv[i], " ">>)
    [] cmd.type = "REDIR" -> group(cmd.cmd, {"EXEC", "REDIR"})
                               \o <<IF cmd.fd = "stdin" THEN "<" ELSE ">", cmd.file, " ">>
    [] cmd.type = "PIPE" -> group(cmd.left, {"EXEC", "REDIR"}) \o <<"|">>
                               \o group(cmd.right, {"EXEC", "REDIR", "PIPE"})
    [] cmd.type = "LIST" -> group(cmd.left, {"EXEC", "REDIR", "PIPE", "BACK"}) \o <<";">>
                               \o Typed(cmd.right)
    [] cmd.type = "BACK" -> group(cmd.cmd, {"EXEC", "REDIR", "PIPE", "BACK"}) \o <<"&">>

\* Without truncation: what is written replaces what is there, byte by byte.
Overwrite(old, new) == new \o SubSeq(old, Len(new) + 1, Len(old))

\* What cat writes for the files with the given names.
CatFiles(names, files) ==
  FoldLeft(LAMBDA out, f : IF out # <<>> /\ Last(out) = "cannot open" THEN out
                           ELSE out \o (IF f \in DOMAIN files THEN files[f] ELSE <<"cannot open">>),
           <<>>, names)

\* What a program does: out is its standard output, errors counts its messages, and
\* files are the files afterwards. A program that is not there has only a message.
Does(argv, in, files) ==
  LET n == Len(argv)
      has(i) == i <= n /\ argv[i] \in DOMAIN files
      result(out, fails, fs) ==
        [out |-> out, errors |-> IF fails THEN 1 ELSE 0, files |-> IF fails THEN files ELSE fs]
  IN  CASE argv[1] = "echo" ->
             result(Repeat(n - 1, LAMBDA i : <<argv[i + 1], IF i + 1 < n THEN " " ELSE "\n">>),
                    FALSE, files)
        [] argv[1] = "cat" -> result(IF n = 1 THEN in ELSE CatFiles(Tail(argv), files), FALSE, files)
        [] argv[1] = "rm" -> result(<<>>, ~has(2), Restrict(files, DOMAIN files \ {argv[2]}))
        [] argv[1] = "ln" -> result(<<>>, ~has(2) \/ has(3), (argv[3] :> files[argv[2]]) @@ files)
        [] argv[1] = "mkdir" -> result(<<>>, has(2), files)
        [] OTHER -> result(<<>>, TRUE, files)

\* What a command does.
RECURSIVE Meaning(_, _, _)
Meaning(cmd, in, files) ==
  LET result(out, errors, fs) == [out |-> out, errors |-> errors, files |-> fs] IN
  CASE cmd.type = "EXEC" -> Does(cmd.argv, in, files)
    [] cmd.type = "REDIR" /\ cmd.fd = "stdin" ->
         IF cmd.file \in DOMAIN files THEN Meaning(cmd.cmd, files[cmd.file], files)
         ELSE result(<<>>, 1, files)
    [] cmd.type = "REDIR" /\ cmd.fd = "stdout" ->
         LET old == IF cmd.file \in DOMAIN files THEN files[cmd.file] ELSE <<>>
             m == Meaning(cmd.cmd, in, (cmd.file :> old) @@ files)
         IN  result(<<>>, m.errors, [m.files EXCEPT ![cmd.file] = Overwrite(@, m.out)])
    [] cmd.type = "PIPE" ->
         LET l == Meaning(cmd.left, in, files)
             r == Meaning(cmd.right, l.out, l.files)
         IN  result(r.out, l.errors + r.errors, r.files)
    [] cmd.type = "LIST" ->
         LET l == Meaning(cmd.left, in, files)
             r == Meaning(cmd.right, in, l.files)
         IN  result(l.out \o r.out, l.errors + r.errors, r.files)
    [] cmd.type = "BACK" -> Meaning(cmd.cmd, in, files)
    [] cmd.type = "PANIC" -> result(<<>>, 1, files)

=============================================================================
