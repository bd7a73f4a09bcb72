-------------------------------- MODULE Fifo --------------------------------
(***************************************************************************)
(* What a pipe promises: a bounded queue of bytes.  "out" is the byte that *)
(* was taken last.                                                         *)
(***************************************************************************)
EXTENDS Naturals, Sequences

CONSTANTS Bytes, Size

VARIABLES queue, out

Init == queue = <<>> /\ out \in Bytes

Put(v) ==
  /\ Len(queue) < Size
  /\ queue' = Append(queue, v)
  /\ UNCHANGED out

Get ==
  /\ queue # <<>>
  /\ out' = Head(queue)
  /\ queue' = Tail(queue)

Next == Get \/ \E v \in Bytes : Put(v)

Spec == Init /\ [][Next]_<<queue, out>>
=============================================================================
