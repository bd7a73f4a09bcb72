-------------------------------- MODULE MCFs --------------------------------
(* Instances of Fs for TLC: which calls the processes make. *)
EXTENDS Fs, TLC

Call(c, path) == [call |-> c, path |-> path]
Link(old, new) == [call |-> "link", path |-> old, new |-> new]

A == <<"/", "a">>
D == <<"/", "d">>
DA == <<"/", "d", "a">>
DD == <<"/", "d", "d">>

\* Files come and go under two names; the directory stays.
FileCalls == {
  Call("mkdir", D), Call("create", A), Link(A, DA),
  Call("unlink", A), Call("unlink", DA)}

\* Directories come and go too, with processes and lookups in them.
DirCalls == {
  Call("mkdir", D), Call("create", DA), Call("chdir", D), Call("unlink", <<"a">>),
  Call("unlink", D)}

\* Empty directories come and go.
RmdirCalls == {
  Call("mkdir", D), Call("unlink", D), Call("chdir", D), Call("mkdir", A), Call("unlink", A)}

\* Nothing is removed; paths go up and down.
LookupCalls == {
  Call("mkdir", D), Call("mkdir", DD), Call("create", DA),
  Call("create", <<"..">>), Call("create", <<"/", "d", "d", "..">>),
  Call("open", <<"/", "d", "d", "..", "a">>), Call("chdir", D), Call("chdir", <<"..">>),
  Link(DA, <<"/", "b">>)}

\* Directories are removed, and paths go up out of them.
DotDotCalls == {
  Call("mkdir", D), Call("mkdir", DD), Call("unlink", DD), Call("unlink", D),
  Call("chdir", <<"/", "d", "d", "..">>)}

\* A file is made and removed.
OneFileCalls == {Call("create", A), Call("unlink", A)}

AllCalls == {FileCalls, DirCalls, RmdirCalls, LookupCalls, DotDotCalls}
RemovalCalls == {OneFileCalls}

Symmetry == Permutations(Procs)
=============================================================================
