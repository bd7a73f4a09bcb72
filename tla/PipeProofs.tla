----------------------------- MODULE PipeProofs -----------------------------
(***************************************************************************)
(* Theorems about Pipe, for any readers, writers, size of the pipe and     *)
(* width of its counters.                                                  *)
(***************************************************************************)
EXTENDS Pipe, TLAPS

\* Who is in a call has its end open; who closes an end is its last user, and
\* the only one who does.
Users ==
  /\ \A p \in Procs : pc[p] \notin {"idle", "close"} => p \in holders[end[p]]
  /\ \A p \in Procs : pc[p] = "close" => holders[end[p]] = {} /\ open[end[p]]
  /\ \A p, q \in Procs :
       pc[p] = "close" /\ pc[q] = "close" /\ end[p] = end[q] => p = q
  /\ holders["w"] \subseteq Writers

\* p->lock is held between the locations where it is taken and released.
Locking ==
  \A p \in Procs : pc[p] \in {"loop", "copy", "sleep"} <=> plock = p

\* The holder of the lock is in the code of end e, at a location in L.
Holder(e, L) == plock \in Procs /\ end[plock] = e /\ pc[plock] \in L

\* Why a process is about to sleep.
WillSleep(p) ==
  /\ pc[p] = "sleep" /\ end[p] = "r" => Empty /\ open["w"]
  /\ pc[p] = "sleep" /\ end[p] = "w" => Full /\ open["r"]
  /\ pc[p] = "copy" => end[p] = "r"

\* Why a process sleeps; or else the holder of the lock will wake it before it
\* releases the lock.
ReaderSleeps(p) ==
  pc[p] = "asleep" /\ end[p] = "r" =>
    open["w"] /\ (Empty \/ (\E q \in Writers : killed[q]) \/ Holder("w", {"loop"}))

WriterSleeps(p) ==
  pc[p] = "asleep" /\ end[p] = "w" => open["r"] /\ (Full \/ Holder("r", {"copy"}))

Reasons == \A p \in Procs : WillSleep(p) /\ ReaderSleeps(p) /\ WriterSleeps(p)

IInv == TypeOK /\ Users /\ NotFreedInUse /\ Locking /\ Reasons

-----------------------------------------------------------------------------
\* A pipe is not empty and full at the same time, and the counters wrap around
\* within their range.
LEMMA Modulus ==
  ASSUME NEW i \in 0 .. (Wrap - 1)
  PROVE  /\ (i + 1) % Wrap \in 0 .. (Wrap - 1)
         /\ i % PIPESIZE \in 0 .. (PIPESIZE - 1)
         /\ i # (i + PIPESIZE) % Wrap
<1>1. (i + 1) % Wrap \in 0 .. (Wrap - 1)
  BY PipeConstants
<1>2. i % PIPESIZE \in 0 .. (PIPESIZE - 1)
  BY PipeConstants
<1>3. i # (i + PIPESIZE) % Wrap
  BY PipeConstants
<1> QED
  BY <1>1, <1>2, <1>3, Zenon

\* The initial state satisfies the inductive invariant.
LEMMA InitInv == Init => IInv
BY PipeConstants
DEF Init, IInv, TypeOK, Users, NotFreedInUse, Locking, Reasons, WillSleep,
    ReaderSleeps, WriterSleeps, Ends, Nobody

\* Steps inside a call change neither who has which end open nor who closes it.
LEMMA SameUsers ==
  ASSUME IInv, UNCHANGED <<open, allocated, end, holders>>,
         \A q \in Procs :
           pc'[q] # pc[q] => pc[q] \notin {"idle", "close"} /\ pc'[q] # "close"
  PROVE  Users' /\ NotFreedInUse'
<1>1. Users'
  BY Zenon DEF IInv, Users
<1>2. NotFreedInUse'
  BY Zenon DEF IInv, Users, NotFreedInUse
<1> QED
  BY <1>1, <1>2, Zenon

\* Every step preserves the invariant.
LEMMA StepInv ==
  ASSUME IInv, [Next]_vars
  PROVE  IInv'
<1> USE PipeConstants DEF IInv, Ends, Nobody
<1>1. ASSUME NEW p \in Procs, NEW e \in Ends, NEW n \in Nat, Start(p, e, n)
      PROVE  IInv'
  <2>0. \A q \in Procs : pc'[q] = IF q = p THEN "loop" ELSE pc[q]
    BY <1>1, Zenon DEF Start, TypeOK
  <2>1. TypeOK'
    BY <1>1, Zenon DEF Start, TypeOK, ring
  <2>2. Users'
    BY <1>1, <2>0 DEF Start, TypeOK, Users, Locking
  <2>3. NotFreedInUse'
    BY <1>1, <2>0 DEF Start, TypeOK, Users, NotFreedInUse
  <2>4. Locking'
    BY <1>1, <2>0 DEF Start, TypeOK, Users, Locking
  <2>5. ASSUME NEW q \in Procs
       PROVE  WillSleep(q)' /\ ReaderSleeps(q)' /\ WriterSleeps(q)'
    <3>1. WillSleep(q)'
      BY <1>1, <2>0
      DEF Start, TypeOK, Users, Locking, Reasons, WillSleep, Empty, Full, ring
    <3>2. ReaderSleeps(q)'
      BY <1>1, <2>0, Modulus
      DEF Start, TypeOK, Users, NotFreedInUse, Locking, Reasons, WillSleep,
          ReaderSleeps, Holder, Empty, Full, ring
    <3>3. WriterSleeps(q)'
      BY <1>1, <2>0, Modulus
      DEF Start, TypeOK, Users, NotFreedInUse, Locking, Reasons, WillSleep,
          WriterSleeps, Holder, Empty, Full, ring
    <3> QED
      BY <3>1, <3>2, <3>3, Zenon
  <2> QED
    BY <2>1, <2>2, <2>3, <2>4, <2>5, Zenon DEF Reasons
<1>2. ASSUME NEW p \in Procs, NEW v \in Bytes, WriteByte(p, v)
      PROVE  IInv'
  <2>0. \A q \in Procs : pc'[q] = pc[q]
    BY <1>2, Zenon DEF WriteByte, Running
  <2>1. TypeOK'
    <3>1. nwrite' \in 0 .. (Wrap - 1)
      BY <1>2, Modulus, Zenon DEF WriteByte, TypeOK
    <3>2. data' \in [0 .. (PIPESIZE - 1) -> Bytes]
      BY <1>2, Zenon DEF WriteByte, TypeOK
    <3>3. left' \in [Procs -> Nat]
      BY <1>2 DEF WriteByte, TypeOK
    <3> QED
      BY <1>2, <3>1, <3>2, <3>3, Zenon DEF WriteByte, TypeOK
  <2>2. Users' /\ NotFreedInUse'
    BY <1>2, <2>0, SameUsers, Zenon DEF WriteByte, Running, Locking
  <2>4. Locking'
    BY <1>2, <2>0, Zenon DEF WriteByte, Running, TypeOK, Users, Locking
  <2>5. ASSUME NEW q \in Procs
       PROVE  WillSleep(q)' /\ ReaderSleeps(q)' /\ WriterSleeps(q)'
    <3>1. WillSleep(q)'
      BY <1>2, <2>0, Zenon
      DEF WriteByte, Running, TypeOK, Users, Locking, Reasons, WillSleep, Empty, Full,
          ring
    <3>2. ReaderSleeps(q)'
      BY <1>2, <2>0, Modulus, Zenon
      DEF WriteByte, Running, TypeOK, Users, NotFreedInUse, Locking, Reasons, WillSleep,
          ReaderSleeps, Holder, Empty, Full, ring
    <3>3. WriterSleeps(q)'
      BY <1>2, <2>0, Modulus, Zenon
      DEF WriteByte, Running, TypeOK, Users, NotFreedInUse, Locking, Reasons, WillSleep,
          WriterSleeps, Holder, Empty, Full, ring
    <3> QED
      BY <3>1, <3>2, <3>3, Zenon
  <2> QED
    BY <2>1, <2>2, <2>4, <2>5, Zenon DEF Reasons
<1>3. ASSUME NEW p \in Procs, WriteFull(p)
      PROVE  IInv'
  <2>1. CASE ~open["r"] \/ killed[p]
    <3>0. \A q \in Procs : pc'[q] = IF q = p THEN "idle" ELSE pc[q]
      BY <1>3, <2>1, Zenon DEF WriteFull, Running, TypeOK
    <3>1. TypeOK'
      <4>1. /\ pc' = [pc EXCEPT ![p] = "idle"]
            /\ left' = [left EXCEPT ![p] = 0]
            /\ plock' = Nobody
        BY <1>3, <2>1, Zenon DEF WriteFull
      <4>2. UNCHANGED <<ring, open, allocated, holders, end, got, killed>>
        BY <1>3, Zenon DEF WriteFull
      <4> QED
        BY <4>1, <4>2, Zenon DEF TypeOK, ring
    <3>2. Users' /\ NotFreedInUse'
      BY <1>3, <2>1, <3>0, SameUsers, Zenon DEF WriteFull, Running, Locking
    <3>4. Locking'
      BY <1>3, <2>1, <3>0 DEF WriteFull, Running, TypeOK, Users, Locking
    <3>5. ASSUME NEW q \in Procs
         PROVE  WillSleep(q)' /\ ReaderSleeps(q)' /\ WriterSleeps(q)'
      <4>1. WillSleep(q)'
        BY <1>3, <2>1, <3>0, Zenon
        DEF WriteFull, Running, TypeOK, Users, Locking, Reasons, WillSleep, Empty, Full,
            ring
      <4>2. ReaderSleeps(q)'
        BY <1>3, <2>1, <3>0, Modulus, Zenon
        DEF WriteFull, Running, TypeOK, Users, NotFreedInUse, Locking, Reasons,
            WillSleep, ReaderSleeps, Holder, Empty, Full, ring
      <4>3. WriterSleeps(q)'
        BY <1>3, <2>1, <3>0, Modulus, Zenon
        DEF WriteFull, Running, TypeOK, Users, NotFreedInUse, Locking, Reasons,
            WillSleep, WriterSleeps, Holder, Empty, Full, ring
      <4> QED
        BY <4>1, <4>2, <4>3, Zenon
    <3> QED
      BY <3>1, <3>2, <3>4, <3>5, Zenon DEF Reasons
  <2>2. CASE ~(~open["r"] \/ killed[p])
    <3>0. \A q \in Procs : pc'[q] =
            IF q = p THEN "sleep" ELSE IF pc[q] = "asleep" /\ end[q] = "r" THEN "woken" ELSE pc[q]
      BY <1>3, <2>2 DEF WriteFull, Running, Wake, TypeOK
    <3>1. TypeOK'
      BY <1>3, <2>2 DEF WriteFull, Running, Wake, TypeOK, ring
    <3>2. Users' /\ NotFreedInUse'
      BY <1>3, <2>2, <3>0, SameUsers, Zenon DEF WriteFull, Running, Locking
    <3>4. Locking'
      BY <1>3, <2>2, <3>0 DEF WriteFull, Running, TypeOK, Users, Locking
    <3>5. ASSUME NEW q \in Procs
         PROVE  WillSleep(q)' /\ ReaderSleeps(q)' /\ WriterSleeps(q)'
      <4>1. WillSleep(q)'
        BY <1>3, <2>2, <3>0, Zenon
        DEF WriteFull, Running, TypeOK, Users, Locking, Reasons, WillSleep, Empty, Full,
            ring
      <4>2. ReaderSleeps(q)'
        BY <1>3, <2>2, <3>0, Modulus, Zenon
        DEF WriteFull, Running, TypeOK, Users, NotFreedInUse, Locking, Reasons,
            WillSleep, ReaderSleeps, Holder, Empty, Full, ring
      <4>3. WriterSleeps(q)'
        BY <1>3, <2>2, <3>0, Modulus, Zenon
        DEF WriteFull, Running, TypeOK, Users, NotFreedInUse, Locking, Reasons,
            WillSleep, WriterSleeps, Holder, Empty, Full, ring
      <4> QED
        BY <4>1, <4>2, <4>3, Zenon
    <3> QED
      BY <3>1, <3>2, <3>4, <3>5, Zenon DEF Reasons
  <2> QED
    BY <2>1, <2>2, Zenon
<1>4. ASSUME NEW p \in Procs, WriteDone(p)
      PROVE  IInv'
  <2>0. \A q \in Procs : pc'[q] =
          IF q = p THEN "idle" ELSE IF pc[q] = "asleep" /\ end[q] = "r" THEN "woken" ELSE pc[q]
    BY <1>4, Zenon DEF WriteDone, Running, Return, Wake, TypeOK
  <2>1. TypeOK'
    BY <1>4, Zenon DEF WriteDone, Running, Return, Wake, TypeOK, ring
  <2>2. Users' /\ NotFreedInUse'
    BY <1>4, <2>0, SameUsers, Zenon DEF WriteDone, Running, Return, Locking
  <2>4. Locking'
    BY <1>4, <2>0, Zenon DEF WriteDone, Running, Return, TypeOK, Users, Locking
  <2>5. ASSUME NEW q \in Procs
       PROVE  WillSleep(q)' /\ ReaderSleeps(q)' /\ WriterSleeps(q)'
    <3>1. WillSleep(q)'
      BY <1>4, <2>0, Zenon
      DEF WriteDone, Running, Return, TypeOK, Users, Locking, Reasons, WillSleep, Empty,
          Full, ring
    <3>2. ReaderSleeps(q)'
      BY <1>4, <2>0, Modulus, Zenon
      DEF WriteDone, Running, Return, TypeOK, Users, NotFreedInUse, Locking, Reasons,
          WillSleep, ReaderSleeps, Holder, Empty, Full, ring
    <3>3. WriterSleeps(q)'
      BY <1>4, <2>0, Modulus, Zenon
      DEF WriteDone, Running, Return, TypeOK, Users, NotFreedInUse, Locking, Reasons,
          WillSleep, WriterSleeps, Holder, Empty, Full, ring
    <3> QED
      BY <3>1, <3>2, <3>3, Zenon
  <2> QED
    BY <2>1, <2>2, <2>4, <2>5, Zenon DEF Reasons
<1>5. ASSUME NEW p \in Procs, ReadEmpty(p)
      PROVE  IInv'
  <2>1. CASE killed[p]
    <3>0. \A q \in Procs : pc'[q] = IF q = p THEN "idle" ELSE pc[q]
      BY <1>5, <2>1 DEF ReadEmpty, Running, TypeOK
    <3>1. TypeOK'
      <4>1. /\ pc' = [pc EXCEPT ![p] = "idle"]
            /\ left' = [left EXCEPT ![p] = 0]
            /\ plock' = Nobody
        BY <1>5, <2>1, Zenon DEF ReadEmpty
      <4>2. UNCHANGED <<ring, open, allocated, holders, end, got, killed>>
        BY <1>5, Zenon DEF ReadEmpty
      <4> QED
        BY <4>1, <4>2, Zenon DEF TypeOK, ring
    <3>2. Users' /\ NotFreedInUse'
      BY <1>5, <2>1, <3>0, SameUsers, Zenon DEF ReadEmpty, Running, Locking
    <3>4. Locking'
      <4>1. plock = p /\ plock' = Nobody
        BY <1>5, <2>1, Zenon DEF ReadEmpty, Running
      <4> QED
        BY <3>0, <4>1, Zenon DEF Locking
    <3>5. ASSUME NEW q \in Procs
         PROVE  WillSleep(q)' /\ ReaderSleeps(q)' /\ WriterSleeps(q)'
      <4>1. WillSleep(q)'
        BY <1>5, <2>1, <3>0, Zenon
        DEF ReadEmpty, Running, TypeOK, Users, Locking, Reasons, WillSleep, Empty, Full,
            ring
      <4>2. ReaderSleeps(q)'
        BY <1>5, <2>1, <3>0, Modulus, Zenon
        DEF ReadEmpty, Running, TypeOK, Users, NotFreedInUse, Locking, Reasons,
            WillSleep, ReaderSleeps, Holder, Empty, Full, ring
      <4>3. WriterSleeps(q)'
        BY <1>5, <2>1, <3>0, Modulus, Zenon
        DEF ReadEmpty, Running, TypeOK, Users, NotFreedInUse, Locking, Reasons,
            WillSleep, WriterSleeps, Holder, Empty, Full, ring
      <4> QED
        BY <4>1, <4>2, <4>3, Zenon
    <3> QED
      BY <3>1, <3>2, <3>4, <3>5, Zenon DEF Reasons
  <2>2. CASE ~(killed[p])
    <3>0. \A q \in Procs : pc'[q] = IF q = p THEN "sleep" ELSE pc[q]
      BY <1>5, <2>2, Zenon DEF ReadEmpty, Running, TypeOK
    <3>1. TypeOK'
      <4>1. pc' = [pc EXCEPT ![p] = "sleep"] /\ UNCHANGED <<left, plock>>
        BY <1>5, <2>2 DEF ReadEmpty
      <4>2. UNCHANGED <<ring, open, allocated, holders, end, got, killed>>
        BY <1>5 DEF ReadEmpty
      <4> QED
        BY <4>1, <4>2 DEF TypeOK, ring
    <3>2. Users' /\ NotFreedInUse'
      BY <1>5, <2>2, <3>0, SameUsers, Zenon DEF ReadEmpty, Running, Locking
    <3>4. Locking'
      BY <1>5, <2>2, <3>0, Zenon DEF ReadEmpty, Running, TypeOK, Users, Locking
    <3>5. ASSUME NEW q \in Procs
         PROVE  WillSleep(q)' /\ ReaderSleeps(q)' /\ WriterSleeps(q)'
      <4>1. WillSleep(q)'
        BY <1>5, <2>2, <3>0, Zenon
        DEF ReadEmpty, Running, TypeOK, Users, Locking, Reasons, WillSleep, Empty, Full,
            ring
      <4>2. ReaderSleeps(q)'
        BY <1>5, <2>2, <3>0, Modulus, Zenon
        DEF ReadEmpty, Running, TypeOK, Users, NotFreedInUse, Locking, Reasons,
            WillSleep, ReaderSleeps, Holder, Empty, Full, ring
      <4>3. WriterSleeps(q)'
        BY <1>5, <2>2, <3>0, Modulus, Zenon
        DEF ReadEmpty, Running, TypeOK, Users, NotFreedInUse, Locking, Reasons,
            WillSleep, WriterSleeps, Holder, Empty, Full, ring
      <4> QED
        BY <4>1, <4>2, <4>3, Zenon
    <3> QED
      BY <3>1, <3>2, <3>4, <3>5, Zenon DEF Reasons
  <2> QED
    BY <2>1, <2>2, Zenon
<1>6. ASSUME NEW p \in Procs, ReadByte(p)
      PROVE  IInv'
  <2>0. \A q \in Procs : pc'[q] = IF q = p THEN "copy" ELSE pc[q]
    BY <1>6, Zenon DEF ReadByte, Running, TypeOK
  <2>1. TypeOK'
    <3>1. nread' \in 0 .. (Wrap - 1)
      BY <1>6, Modulus, Zenon DEF ReadByte, TypeOK
    <3>2. got' \in Bytes
      BY <1>6, Modulus, Zenon DEF ReadByte, TypeOK
    <3>3. left' \in [Procs -> Nat]
      BY <1>6 DEF ReadByte, TypeOK
    <3> QED
      BY <1>6, <3>1, <3>2, <3>3, Zenon DEF ReadByte, TypeOK
  <2>2. Users' /\ NotFreedInUse'
    BY <1>6, <2>0, SameUsers DEF ReadByte, Running, Locking
  <2>4. Locking'
    BY <1>6, <2>0 DEF ReadByte, Running, TypeOK, Users, Locking
  <2>5. ASSUME NEW q \in Procs
       PROVE  WillSleep(q)' /\ ReaderSleeps(q)' /\ WriterSleeps(q)'
    <3>1. WillSleep(q)'
      BY <1>6, <2>0
      DEF ReadByte, Running, TypeOK, Users, Locking, Reasons, WillSleep, Empty, Full,
          ring
    <3>2. ReaderSleeps(q)'
      BY <1>6, <2>0, Modulus
      DEF ReadByte, Running, TypeOK, Users, NotFreedInUse, Locking, Reasons, WillSleep,
          ReaderSleeps, Holder, Empty, Full, ring
    <3>3. WriterSleeps(q)'
      BY <1>6, <2>0, Modulus
      DEF ReadByte, Running, TypeOK, Users, NotFreedInUse, Locking, Reasons, WillSleep,
          WriterSleeps, Holder, Empty, Full, ring
    <3> QED
      BY <3>1, <3>2, <3>3, Zenon
  <2> QED
    BY <2>1, <2>2, <2>4, <2>5, Zenon DEF Reasons
<1>7. ASSUME NEW p \in Procs, ReadDone(p)
      PROVE  IInv'
  <2>0. \A q \in Procs : pc'[q] =
          IF q = p THEN "idle" ELSE IF pc[q] = "asleep" /\ end[q] = "w" THEN "woken" ELSE pc[q]
    BY <1>7, Zenon DEF ReadDone, Running, Return, Wake, TypeOK
  <2>1. TypeOK'
    BY <1>7, Zenon DEF ReadDone, Running, Return, Wake, TypeOK, ring
  <2>2. Users' /\ NotFreedInUse'
    BY <1>7, <2>0, SameUsers, Zenon DEF ReadDone, Running, Return, Locking
  <2>4. Locking'
    BY <1>7, <2>0, Zenon DEF ReadDone, Running, Return, TypeOK, Users, Locking
  <2>5. ASSUME NEW q \in Procs
       PROVE  WillSleep(q)' /\ ReaderSleeps(q)' /\ WriterSleeps(q)'
    <3>1. WillSleep(q)'
      BY <1>7, <2>0, Zenon
      DEF ReadDone, Running, Return, TypeOK, Users, Locking, Reasons, WillSleep, Empty,
          Full, ring
    <3>2. ReaderSleeps(q)'
      BY <1>7, <2>0, Modulus, Zenon
      DEF ReadDone, Running, Return, TypeOK, Users, NotFreedInUse, Locking, Reasons,
          WillSleep, ReaderSleeps, Holder, Empty, Full, ring
    <3>3. WriterSleeps(q)'
      BY <1>7, <2>0, Modulus, Zenon
      DEF ReadDone, Running, Return, Locking, Reasons, WillSleep, WriterSleeps, Holder,
          Empty, Full, ring
    <3> QED
      BY <3>1, <3>2, <3>3, Zenon
  <2> QED
    BY <2>1, <2>2, <2>4, <2>5, Zenon DEF Reasons
<1>8. ASSUME NEW p \in Procs, Sleep(p)
      PROVE  IInv'
  <2>0. \A q \in Procs : pc'[q] = IF q = p THEN "asleep" ELSE pc[q]
    BY <1>8, Zenon DEF Sleep, TypeOK
  <2>1. TypeOK'
    BY <1>8, Zenon DEF Sleep, TypeOK, ring
  <2>2. Users' /\ NotFreedInUse'
    BY <1>8, <2>0, SameUsers DEF Sleep, Locking
  <2>4. Locking'
    BY <1>8, <2>0 DEF Sleep, TypeOK, Users, Locking
  <2>5. ASSUME NEW q \in Procs
       PROVE  WillSleep(q)' /\ ReaderSleeps(q)' /\ WriterSleeps(q)'
    <3>1. WillSleep(q)'
      BY <1>8, <2>0
      DEF Sleep, TypeOK, Users, Locking, Reasons, WillSleep, Empty, Full, ring
    <3>2. ReaderSleeps(q)'
      BY <1>8, <2>0, Modulus
      DEF Sleep, TypeOK, Users, NotFreedInUse, Locking, Reasons, WillSleep,
          ReaderSleeps, Holder, Empty, Full, ring
    <3>3. WriterSleeps(q)'
      BY <1>8, <2>0, Modulus
      DEF Sleep, TypeOK, Users, NotFreedInUse, Locking, Reasons, WillSleep,
          WriterSleeps, Holder, Empty, Full, ring
    <3> QED
      BY <3>1, <3>2, <3>3, Zenon
  <2> QED
    BY <2>1, <2>2, <2>4, <2>5, Zenon DEF Reasons
<1>9. ASSUME NEW p \in Procs, Relock(p)
      PROVE  IInv'
  <2>0. \A q \in Procs : pc'[q] = IF q = p THEN "loop" ELSE pc[q]
    BY <1>9, Zenon DEF Relock, TypeOK
  <2>1. TypeOK'
    BY <1>9, Zenon DEF Relock, TypeOK, ring
  <2>2. Users' /\ NotFreedInUse'
    BY <1>9, <2>0, SameUsers DEF Relock, Locking
  <2>4. Locking'
    BY <1>9, <2>0 DEF Relock, TypeOK, Users, Locking
  <2>5. ASSUME NEW q \in Procs
       PROVE  WillSleep(q)' /\ ReaderSleeps(q)' /\ WriterSleeps(q)'
    <3>1. WillSleep(q)'
      BY <1>9, <2>0
      DEF Relock, TypeOK, Users, Locking, Reasons, WillSleep, Empty, Full, ring
    <3>2. ReaderSleeps(q)'
      BY <1>9, <2>0, Modulus
      DEF Relock, TypeOK, Users, NotFreedInUse, Locking, Reasons, WillSleep,
          ReaderSleeps, Holder, Empty, Full, ring
    <3>3. WriterSleeps(q)'
      BY <1>9, <2>0, Modulus
      DEF Relock, TypeOK, Users, NotFreedInUse, Locking, Reasons, WillSleep,
          WriterSleeps, Holder, Empty, Full, ring
    <3> QED
      BY <3>1, <3>2, <3>3, Zenon
  <2> QED
    BY <2>1, <2>2, <2>4, <2>5, Zenon DEF Reasons
<1>10. ASSUME NEW p \in Procs, PipeClose(p)
      PROVE  IInv'
  <2> DEFINE e == end[p]
  <2>0. \A q \in Procs : pc'[q] =
          IF q = p THEN "idle" ELSE IF pc[q] = "asleep" /\ end[q] # e THEN "woken" ELSE pc[q]
    BY <1>10, Zenon DEF PipeClose, WakesAtClose, Other, Wake, TypeOK
  <2>1. TypeOK'
    BY <1>10, Zenon DEF PipeClose, StillOpen, Wake, TypeOK, ring
  <2>2. /\ pc[p] = "close" /\ plock = Nobody /\ e \in Ends
        /\ \A x \in Ends : open'[x] = (x # e /\ open[x])
        /\ allocated' = (open'["r"] \/ open'["w"])
    BY <1>10, Zenon DEF PipeClose, StillOpen, TypeOK
  <2>3. UNCHANGED <<ring, plock, holders, end, killed>>
    BY <1>10, Zenon DEF PipeClose
  <2>4. holders[e] = {}
    BY <2>2, Zenon DEF Users
  <2>5. Users'
    BY <2>0, <2>2, <2>3 DEF Users, TypeOK
  <2>6. NotFreedInUse'
    <3>1. ASSUME NEW q \in Procs, pc'[q] # "idle"
          PROVE  allocated'
      BY <2>0, <2>2, <2>4, <3>1 DEF Users, NotFreedInUse, TypeOK
    <3>2. ASSUME NEW x \in Ends, holders'[x] # {}
          PROVE  open'[x]
      BY <2>2, <2>3, <2>4, <3>2, Zenon DEF NotFreedInUse
    <3> QED
      BY <2>2, <3>1, <3>2, Zenon DEF NotFreedInUse
  <2>7. Locking'
    BY <2>0, <2>2, <2>3, Zenon DEF Locking
  <2>8. ASSUME NEW q \in Procs
        PROVE  WillSleep(q)' /\ ReaderSleeps(q)' /\ WriterSleeps(q)'
    <3>1. WillSleep(q)'
      BY <2>0, <2>2, Zenon DEF Locking, WillSleep
    <3>2. pc'[q] = "asleep" => pc[q] = "asleep" /\ end[q] = e /\ q \in holders[e]
      BY <2>0 DEF Users
    <3> QED
      BY <2>3, <2>4, <3>1, <3>2, Zenon DEF ReaderSleeps, WriterSleeps
  <2> QED
    BY <2>1, <2>5, <2>6, <2>7, <2>8, Zenon DEF Reasons
<1>11. ASSUME NEW p \in Procs, Kill(p)
      PROVE  IInv'
  <2>0. \A q \in Procs : pc'[q] = IF q = p THEN IF pc[p] = "asleep" THEN "woken" ELSE pc[p] ELSE pc[q]
    BY <1>11, Zenon DEF Kill, TypeOK
  <2>1. TypeOK'
    BY <1>11, Zenon DEF Kill, TypeOK, ring
  <2>2. Users' /\ NotFreedInUse'
    BY <1>11, <2>0, SameUsers DEF Kill, Locking
  <2>4. Locking'
    BY <1>11, <2>0 DEF Kill, TypeOK, Users, Locking
  <2>5. ASSUME NEW q \in Procs
       PROVE  WillSleep(q)' /\ ReaderSleeps(q)' /\ WriterSleeps(q)'
    <3>1. WillSleep(q)'
      BY <1>11, <2>0
      DEF Kill, TypeOK, Users, Locking, Reasons, WillSleep, Empty, Full, ring
    <3>2. ReaderSleeps(q)'
      BY <1>11, <2>0, Modulus
      DEF Kill, TypeOK, Users, NotFreedInUse, Locking, Reasons, WillSleep, ReaderSleeps,
          Holder, Empty, Full, ring
    <3>3. WriterSleeps(q)'
      BY <1>11, <2>0, Modulus
      DEF Kill, TypeOK, Users, NotFreedInUse, Locking, Reasons, WillSleep, WriterSleeps,
          Holder, Empty, Full, ring
    <3> QED
      BY <3>1, <3>2, <3>3, Zenon
  <2> QED
    BY <2>1, <2>2, <2>4, <2>5, Zenon DEF Reasons
<1>12. ASSUME NEW p \in Procs, NEW e \in Ends, FileClose(p, e)
      PROVE  IInv'
  <2>0. \A q \in Procs : /\ pc'[q] = IF q = p /\ holders[e] = {p} THEN "close" ELSE pc[q]
                         /\ end'[q] = IF q = p /\ holders[e] = {p} THEN e ELSE end[q]
    BY <1>12 DEF FileClose, TypeOK
  <2>1. TypeOK'
    <3>1. holders' \in [Ends -> SUBSET Procs]
      BY <1>12, Zenon DEF FileClose, TypeOK
    <3>2. /\ pc' \in [Procs -> {"idle", "loop", "copy", "sleep", "asleep", "woken", "close"}]
          /\ end' \in [Procs -> Ends]
      BY <1>12, Zenon DEF FileClose, TypeOK
    <3>3. UNCHANGED <<ring, open, allocated, plock, left, got, killed>>
      BY <1>12, Zenon DEF FileClose
    <3> QED
      BY <3>1, <3>2, <3>3, Zenon DEF TypeOK, ring
  <2>2. /\ pc[p] = "idle" /\ p \in holders[e]
        /\ \A x \in Ends : holders'[x] = IF x = e THEN holders[x] \ {p} ELSE holders[x]
    BY <1>12, Zenon DEF FileClose, TypeOK
  <2>3. UNCHANGED <<ring, open, allocated, plock, killed>>
    BY <1>12, Zenon DEF FileClose
  <2>4. Users'
    <3>1. ASSUME NEW q \in Procs, pc'[q] \notin {"idle", "close"}
          PROVE  q \in holders'[end'[q]]
      <4>1. pc'[q] = pc[q] /\ end'[q] = end[q] /\ q # p /\ end[q] \in Ends
        BY <2>0, <2>2, <3>1, Zenon DEF TypeOK
      <4>2. q \in holders[end[q]]
        BY <3>1, <4>1, Zenon DEF Users
      <4> QED
        BY <2>2, <4>1, <4>2, Zenon
    <3>2. ASSUME NEW q \in Procs, pc'[q] = "close"
          PROVE  holders'[end'[q]] = {} /\ open'[end'[q]]
      BY <2>0, <2>2, <2>3, <3>2 DEF Users, NotFreedInUse, TypeOK
    <3>3. ASSUME NEW q \in Procs, NEW r \in Procs, pc'[q] = "close", pc'[r] = "close",
                 end'[q] = end'[r]
          PROVE  q = r
      BY <2>0, <2>2, <3>3 DEF Users, TypeOK
    <3>4. holders'["w"] \subseteq Writers
      BY <2>2, Zenon DEF Users
    <3> QED
      BY <3>1, <3>2, <3>3, <3>4, Zenon DEF Users
  <2>5. NotFreedInUse'
    BY <2>0, <2>2, <2>3, Zenon DEF NotFreedInUse
  <2>6. Locking'
    BY <2>0, <2>2, <2>3, Zenon DEF Locking
  <2>7. ASSUME NEW q \in Procs
        PROVE  WillSleep(q)' /\ ReaderSleeps(q)' /\ WriterSleeps(q)'
    <3>1. Empty' = Empty /\ Full' = Full
      BY <2>3, Zenon DEF Empty, Full, ring
    <3>2. \A x, l : Holder(x, {l}) /\ l # "idle" => Holder(x, {l})'
      BY <2>0, <2>2, <2>3, Zenon DEF Holder
    <3> QED
      BY <2>0, <2>2, <2>3, <3>1, <3>2, Zenon DEF Reasons, WillSleep, ReaderSleeps, WriterSleeps
  <2> QED
    BY <2>1, <2>4, <2>5, <2>6, <2>7, Zenon DEF Reasons
<1>13. CASE UNCHANGED vars
  BY <1>13
  DEF vars, ring, TypeOK, Users, NotFreedInUse, Locking, Reasons, WillSleep,
      ReaderSleeps, WriterSleeps, Holder, Empty, Full
<1> QED
  BY <1>1, <1>2, <1>3, <1>4, <1>5, <1>6, <1>7, <1>8, <1>9, <1>10, <1>11, <1>12, <1>13, Zenon
  DEF Next, Kernel

\* The inductive invariant holds in every reachable state.
THEOREM Invariance == Spec => []IInv
<1>1. IInv /\ [Next]_vars => IInv'
  BY StepInv, Zenon
<1> QED
  BY <1>1, InitInv, PTL DEF Spec

\* Every variable keeps its type.
THEOREM TypeCorrect == Spec => []TypeOK
BY Invariance, PTL DEF IInv

\* The page of the pipe is freed when the last end is closed, by which time no
\* process is in a call on it or can start one.
THEOREM FreedOnce == Spec => []NotFreedInUse
BY Invariance, PTL DEF IInv

\* No wakeup is lost between the test of the pipe and sleep(), nor by a call that
\* returns.
THEOREM NoLostWakeup == Spec => []SleepersHaveReason
<1>1. IInv => SleepersHaveReason
  <2> SUFFICES ASSUME IInv, plock = Nobody, NEW p \in Procs, pc[p] = "asleep"
               PROVE  IF end[p] = "r"
                      THEN open["w"] /\ (Empty \/ \E q \in Writers : killed[q])
                      ELSE open["r"] /\ Full
    BY Zenon DEF SleepersHaveReason
  <2> QED
    BY PipeConstants, Zenon
    DEF IInv, TypeOK, Reasons, ReaderSleeps, WriterSleeps, Holder, Nobody, Ends
<1> QED
  BY <1>1, Invariance, PTL

-----------------------------------------------------------------------------
\* How many bytes the pipe holds.
Held == (nwrite - nread) % Wrap

\* The pipe never holds more bytes than the array has places.
Bounded == Held <= PIPESIZE

-----------------------------------------------------------------------------
(* Arithmetic of the counters, which wrap around, and of the array's places *)

\* Division with remainder.
LEMMA Division ==
  ASSUME NEW s \in Nat \ {0}, NEW a \in Int
  PROVE  a = s * (a \div s) + (a % s) /\ a % s \in 0 .. (s - 1) /\ a \div s \in Int
OBVIOUS

\* Two multiples of a number differ by at least that number.
LEMMA Multiples ==
  ASSUME NEW s \in Nat \ {0}, NEW x \in Int, NEW y \in Int, x < y
  PROVE  s * x + s <= s * y
OBVIOUS

\* A remainder is unique.
LEMMA Remainder ==
  ASSUME NEW s \in Nat \ {0}, NEW q \in Int, NEW r \in 0 .. (s - 1)
  PROVE  (s * q + r) % s = r
<1> DEFINE a == s * q + r
           d == a \div s
           m == a % s
<1>1. a \in Int /\ s * q \in Int
  OBVIOUS
<1>2. a = s * d + m /\ m \in 0 .. (s - 1) /\ d \in Int
  BY <1>1, Division, Zenon
<1>3. a = s * q + r
  BY Zenon
<1> HIDE DEF a, d, m
<1>4. ~(d < q) /\ ~(q < d)
  BY <1>1, <1>2, <1>3, Multiples
<1>5. m = r
  BY <1>1, <1>2, <1>3, <1>4
<1> QED
  BY <1>5, Zenon DEF m, a

\* Adding a multiple of the size does not change the place.
LEMMA Shift ==
  ASSUME NEW s \in Nat \ {0}, NEW a \in Int, NEW k \in Int
  PROVE  (a + s * k) % s = a % s
<1>1. a = s * (a \div s) + (a % s) /\ a % s \in 0 .. (s - 1) /\ a \div s \in Int
  BY Division, Zenon
<1>2. s * (a \div s) + s * k = s * ((a \div s) + k)
  BY <1>1
<1>3. a + s * k = s * ((a \div s) + k) + (a % s) /\ (a \div s) + k \in Int
  BY <1>1, <1>2
<1> QED
  BY <1>1, <1>3, Remainder, Zenon

\* Numbers that differ by less than the size have different places.
LEMMA Apart ==
  ASSUME NEW s \in Nat \ {0}, NEW a \in Int, NEW b \in Int, a < b, b < a + s
  PROVE  a % s # b % s
<1> SUFFICES ASSUME a % s = b % s
             PROVE  FALSE
  BY Zenon
<1>1. PICK x \in Int : a = s * x + (a % s)
  BY Division, Zenon
<1>2. PICK y \in Int : b = s * y + (b % s)
  BY Division, Zenon
<1>3. a % s \in Int /\ s * x \in Int /\ s * y \in Int
  BY Division
<1>4. s * x < s * y /\ s * y < s * x + s
  BY <1>1, <1>2, <1>3
<1>5. x < y
  <2>1. ~(y < x)
    BY <1>3, <1>4, Multiples
  <2> QED
    BY <1>4, <2>1
<1> QED
  BY <1>3, <1>4, <1>5, Multiples

\* A sum or a difference of two counters wraps around at most once.
LEMMA Once ==
  ASSUME NEW s \in Nat \ {0}, NEW a \in (-s) .. (2 * s - 1)
  PROVE  a % s = IF a < 0 THEN a + s ELSE IF a < s THEN a ELSE a - s
OBVIOUS

\* The difference and the sum of two counters.
LEMMA Wrapped ==
  ASSUME NEW x \in 0 .. (Wrap - 1), NEW y \in 0 .. (Wrap - 1)
  PROVE  /\ (x - y) % Wrap = IF y <= x THEN x - y ELSE x - y + Wrap
         /\ (x + y) % Wrap = IF x + y < Wrap THEN x + y ELSE x + y - Wrap
<1>0. Wrap \in Nat \ {0}
  BY PipeConstants
<1>1. ASSUME NEW a \in (-Wrap) .. (2 * Wrap - 1)
      PROVE  a % Wrap = IF a < 0 THEN a + Wrap ELSE IF a < Wrap THEN a ELSE a - Wrap
  BY <1>0, Once, Zenon
<1>2. (x - y) % Wrap = IF y <= x THEN x - y ELSE x - y + Wrap
  <2>1. PICK a \in (-Wrap) .. (2 * Wrap - 1) : a = x - y
    BY <1>0
  <2> QED
    BY <1>0, <1>1, <2>1
<1>3. (x + y) % Wrap = IF x + y < Wrap THEN x + y ELSE x + y - Wrap
  <2>1. PICK a \in (-Wrap) .. (2 * Wrap - 1) : a = x + y
    BY <1>0
  <2> QED
    BY <1>0, <1>1, <2>1
<1> QED
  BY <1>2, <1>3, Zenon

\* What the counters say of the number of bytes held.
LEMMA Counting ==
  ASSUME NEW w \in 0 .. (Wrap - 1), NEW r \in 0 .. (Wrap - 1), NEW n, n = (w - r) % Wrap
  PROVE  /\ n \in 0 .. (Wrap - 1)
         /\ r = w <=> n = 0
         /\ w = (r + n) % Wrap
         /\ w = (r + PIPESIZE) % Wrap <=> n = PIPESIZE
<1>0. Wrap \in Nat \ {0} /\ PIPESIZE \in 0 .. (Wrap - 1)
  BY PipeConstants
<1>1. n = IF r <= w THEN w - r ELSE w - r + Wrap
  BY Wrapped, Zenon
<1>2. n \in 0 .. (Wrap - 1)
  BY <1>0, <1>1
<1>3. (r + n) % Wrap = IF r + n < Wrap THEN r + n ELSE r + n - Wrap
  BY <1>2, Wrapped, Zenon
<1>4. (r + PIPESIZE) % Wrap = IF r + PIPESIZE < Wrap THEN r + PIPESIZE ELSE r + PIPESIZE - Wrap
  BY <1>0, Wrapped, Zenon
<1> QED
  BY <1>0, <1>1, <1>2, <1>3, <1>4

\* A byte more at nwrite.
LEMMA OneMore ==
  ASSUME NEW w \in 0 .. (Wrap - 1), NEW r \in 0 .. (Wrap - 1), NEW n, n = (w - r) % Wrap,
         n + 1 < Wrap
  PROVE  (((w + 1) % Wrap) - r) % Wrap = n + 1
<1>0. Wrap \in Nat \ {0} /\ 1 \in 0 .. (Wrap - 1)
  BY PipeConstants
<1>1. n = IF r <= w THEN w - r ELSE w - r + Wrap
  BY Wrapped, Zenon
<1>2. (w + 1) % Wrap = IF w + 1 < Wrap THEN w + 1 ELSE w + 1 - Wrap
  BY <1>0, Wrapped, Zenon
<1>3. PICK x \in 0 .. (Wrap - 1) : x = (w + 1) % Wrap
  BY <1>0, <1>2
<1>4. (x - r) % Wrap = IF r <= x THEN x - r ELSE x - r + Wrap
  BY Wrapped, Zenon
<1> QED
  BY <1>0, <1>1, <1>2, <1>3, <1>4

\* A byte less at nread.
LEMMA OneLess ==
  ASSUME NEW w \in 0 .. (Wrap - 1), NEW r \in 0 .. (Wrap - 1), NEW n, n = (w - r) % Wrap,
         n > 0
  PROVE  (w - ((r + 1) % Wrap)) % Wrap = n - 1
<1>0. Wrap \in Nat \ {0} /\ 1 \in 0 .. (Wrap - 1)
  BY PipeConstants
<1>1. n = IF r <= w THEN w - r ELSE w - r + Wrap
  BY Wrapped, Zenon
<1>2. (r + 1) % Wrap = IF r + 1 < Wrap THEN r + 1 ELSE r + 1 - Wrap
  BY <1>0, Wrapped, Zenon
<1>3. PICK x \in 0 .. (Wrap - 1) : x = (r + 1) % Wrap
  BY <1>0, <1>2
<1>4. (w - x) % Wrap = IF x <= w THEN w - x ELSE w - x + Wrap
  BY Wrapped, Zenon
<1> QED
  BY <1>0, <1>1, <1>2, <1>3, <1>4

\* The place of a counter does not change when the counter wraps around, because
\* the size of the array divides the modulus.
LEMMA Places ==
  ASSUME NEW x \in 0 .. (2 * Wrap - 1), NEW i \in Int
  PROVE  ((x % Wrap) + i) % PIPESIZE = (x + i) % PIPESIZE
<1>0. Wrap \in Nat \ {0} /\ PIPESIZE \in Nat \ {0} /\ Wrap % PIPESIZE = 0
  BY PipeConstants
<1>1. PICK k \in Int : Wrap = PIPESIZE * k
  <2>1. Wrap = PIPESIZE * (Wrap \div PIPESIZE) + (Wrap % PIPESIZE) /\ Wrap \div PIPESIZE \in Int
    BY <1>0, Division
  <2> QED
    BY <1>0, <2>1
<1>2. x % Wrap = x \/ x % Wrap = x - Wrap
  <2>1. x \in (-Wrap) .. (2 * Wrap - 1) /\ ~(x < 0)
    BY <1>0
  <2> QED
    BY <1>0, <2>1, Once, Zenon
<1>3. CASE x % Wrap = x - Wrap
  <2>1. (x % Wrap) + i = (x + i) + PIPESIZE * (-k)
    BY <1>0, <1>1, <1>3
  <2>2. x + i \in Int /\ -k \in Int
    BY <1>0
  <2>3. ((x + i) + PIPESIZE * (-k)) % PIPESIZE = (x + i) % PIPESIZE
    BY <1>0, <2>2, Shift, Zenon
  <2> QED
    BY <2>1, <2>3, Zenon
<1> QED
  BY <1>2, <1>3, Zenon

-----------------------------------------------------------------------------
(* The pipe implements a bounded queue *)

\* The bytes of the pipe are a sequence, whose length is what the counters say.
IsSequence ==
  /\ Held \in Nat
  /\ Queue \in [1 .. Held -> Bytes]
  /\ Queue \in Seq(Bytes) /\ Len(Queue) = Held

\* The queue is a sequence in every state of the right type.
LEMMA QueueIsSequence == TypeOK => IsSequence
<1> SUFFICES ASSUME TypeOK
             PROVE  IsSequence
  BY Zenon
<1>1. Held \in 0 .. (Wrap - 1)
  BY Counting, Zenon DEF TypeOK, Held
<1>2. Queue = [i \in 1 .. Held |-> data[(nread + i - 1) % PIPESIZE]]
  BY Zenon DEF Queue, Held
<1>3. ASSUME NEW i \in 1 .. Held
      PROVE  data[(nread + i - 1) % PIPESIZE] \in Bytes
  <2>1. nread + i - 1 \in Int
    BY <1>1, PipeConstants DEF TypeOK
  <2>2. (nread + i - 1) % PIPESIZE \in 0 .. (PIPESIZE - 1)
    BY <2>1, PipeConstants, Division, Zenon
  <2> QED
    BY <2>2, Zenon DEF TypeOK
<1>4. Queue \in [1 .. Held -> Bytes]
  BY <1>2, <1>3, Zenon
<1> QED
  BY <1>1, <1>2, <1>4 DEF IsSequence

\* A byte that pipewrite() stores goes to the end of the queue, and overwrites none.
LEMMA PutStep ==
  ASSUME TypeOK, TypeOK', Bounded, NEW p \in Procs, NEW v \in Bytes, WriteByte(p, v)
  PROVE  Bounded' /\ Channel!Put(v)
<1>0. /\ nread \in 0 .. (Wrap - 1) /\ nwrite \in 0 .. (Wrap - 1)
      /\ Wrap \in Nat /\ PIPESIZE \in Nat \ {0} /\ PIPESIZE < Wrap
  BY PipeConstants, Zenon DEF TypeOK
<1>1. /\ nwrite' = (nwrite + 1) % Wrap /\ nread' = nread /\ got' = got
      /\ data' = [data EXCEPT ![nwrite % PIPESIZE] = v]
  BY Zenon DEF WriteByte
<1>2. PICK n \in Nat : n = Held
  BY QueueIsSequence, Zenon DEF IsSequence
<1>3. n < PIPESIZE
  <2>1. nwrite = (nread + PIPESIZE) % Wrap <=> n = PIPESIZE
    BY <1>0, <1>2, Counting DEF Held
  <2> QED
    BY <1>0, <1>2, <2>1 DEF Bounded, WriteByte, Full
<1>4. Held' = n + 1
  <2>0. n = (nwrite - nread) % Wrap
    BY <1>2, Zenon DEF Held
  <2>1. (((nwrite + 1) % Wrap) - nread) % Wrap = n + 1
    <3>1. n + 1 < Wrap
      BY <1>0, <1>3
    <3> QED
      BY <1>0, <2>0, <3>1, OneMore, Zenon
  <2> QED
    BY <1>0, <1>1, <1>3, <2>1, Zenon DEF Held
<1>5. nwrite % PIPESIZE = (nread + n) % PIPESIZE
  <2>1. nwrite = (nread + n) % Wrap
    BY <1>0, <1>2, Counting DEF Held
  <2>2. nread + n \in 0 .. (2 * Wrap - 1) /\ 0 \in Int
    BY <1>0, <1>3
  <2>3. (nwrite + 0) % PIPESIZE = (nread + n + 0) % PIPESIZE
    BY <2>1, <2>2, Places, Zenon
  <2> QED
    BY <1>0, <2>2, <2>3
<1>6. ASSUME NEW i \in 1 .. n
      PROVE  Queue'[i] = Queue[i]
  <2>1. /\ nread + i - 1 \in Int /\ nread + n \in Int
        /\ nread + i - 1 < nread + n /\ nread + n < nread + i - 1 + PIPESIZE
    BY <1>0, <1>3
  <2>2. (nread + i - 1) % PIPESIZE # nwrite % PIPESIZE
    BY <1>0, <1>5, <2>1, Apart, Zenon
  <2>3. (nread + i - 1) % PIPESIZE \in 0 .. (PIPESIZE - 1)
    BY <1>0, <2>1, Division, Zenon
  <2>4. data'[(nread + i - 1) % PIPESIZE] = data[(nread + i - 1) % PIPESIZE]
    BY <1>1, <2>2, <2>3, Zenon DEF TypeOK
  <2>5. i \in 1 .. Held /\ i \in 1 .. Held'
    BY <1>2, <1>4
  <2> QED
    BY <1>1, <2>4, <2>5, Zenon DEF Queue, Held
<1>7. Queue'[n + 1] = v
  <2>1. n + 1 \in 1 .. Held' /\ nread + (n + 1) - 1 = nread + n
    BY <1>0, <1>4
  <2>2. nwrite % PIPESIZE \in 0 .. (PIPESIZE - 1)
    BY <1>0, Division
  <2> QED
    BY <1>1, <1>5, <2>1, <2>2, Zenon DEF Queue, Held, TypeOK
<1>8. Queue \in [1 .. n -> Bytes] /\ Queue \in Seq(Bytes) /\ Len(Queue) = n
  BY <1>2, QueueIsSequence, Zenon DEF IsSequence
<1>9. Queue' \in [1 .. (n + 1) -> Bytes] /\ Queue' \in Seq(Bytes) /\ Len(Queue') = n + 1
  <2>1. (TypeOK => IsSequence)'
    BY QueueIsSequence, PTL
  <2> QED
    BY <1>4, <2>1, Zenon DEF IsSequence
<1>10. Queue' = Append(Queue, v)
  BY <1>6, <1>7, <1>8, <1>9
<1> QED
  BY <1>0, <1>1, <1>3, <1>4, <1>8, <1>10 DEF Bounded, Channel!Put

\* The byte that piperead() copies out is the first of the queue.
LEMMA GetStep ==
  ASSUME TypeOK, TypeOK', Bounded, NEW p \in Procs, ReadByte(p)
  PROVE  Bounded' /\ Channel!Get
<1>0. /\ nread \in 0 .. (Wrap - 1) /\ nwrite \in 0 .. (Wrap - 1)
      /\ Wrap \in Nat /\ PIPESIZE \in Nat \ {0} /\ PIPESIZE < Wrap
  BY PipeConstants, Zenon DEF TypeOK
<1>1. /\ nread' = (nread + 1) % Wrap /\ nwrite' = nwrite /\ data' = data
      /\ got' = data[nread % PIPESIZE]
  BY Zenon DEF ReadByte
<1>2. PICK n \in Nat : n = Held
  BY QueueIsSequence, Zenon DEF IsSequence
<1>3. n > 0 /\ n <= PIPESIZE
  <2>1. nread = nwrite <=> n = 0
    BY <1>0, <1>2, Counting DEF Held
  <2> QED
    BY <1>0, <1>2, <2>1 DEF Bounded, ReadByte, Empty
<1>4. Held' = n - 1
  <2>1. n = (nwrite - nread) % Wrap
    BY <1>2, Zenon DEF Held
  <2>2. (nwrite - ((nread + 1) % Wrap)) % Wrap = n - 1
    BY <1>0, <1>3, <2>1, OneLess, Zenon
  <2> QED
    BY <1>0, <1>1, <2>2, Zenon DEF Held
<1>5. ASSUME NEW i \in 1 .. (n - 1)
      PROVE  Queue'[i] = Queue[i + 1]
  <2>1. nread + 1 \in 0 .. (2 * Wrap - 1) /\ i - 1 \in Int
    BY <1>0
  <2>2. (nread' + (i - 1)) % PIPESIZE = ((nread + 1) + (i - 1)) % PIPESIZE
    BY <1>1, <2>1, Places, Zenon
  <2>3. /\ nread' + i - 1 = nread' + (i - 1)
        /\ (nread + 1) + (i - 1) = nread + (i + 1) - 1
    BY <1>0 DEF TypeOK
  <2>4. i \in 1 .. Held' /\ i + 1 \in 1 .. Held
    BY <1>2, <1>4
  <2>5. Queue'[i] = data'[(nread' + i - 1) % PIPESIZE]
    BY <2>4, Zenon DEF Queue, Held
  <2>6. Queue[i + 1] = data[(nread + (i + 1) - 1) % PIPESIZE]
    BY <2>4, Zenon DEF Queue, Held
  <2> QED
    BY <1>1, <2>2, <2>3, <2>5, <2>6, Zenon
<1>6. Queue \in [1 .. n -> Bytes] /\ Queue \in Seq(Bytes) /\ Len(Queue) = n
  BY <1>2, QueueIsSequence, Zenon DEF IsSequence
<1>7. Queue' \in [1 .. (n - 1) -> Bytes] /\ Queue' \in Seq(Bytes) /\ Len(Queue') = n - 1
  <2>1. (TypeOK => IsSequence)'
    BY QueueIsSequence, PTL
  <2> QED
    BY <1>4, <2>1, Zenon DEF IsSequence
<1>8. Queue # <<>>
  BY <1>3, <1>6
<1>9. got' = Head(Queue)
  <2>1. 1 \in 1 .. Held /\ nread + 1 - 1 = nread
    BY <1>0, <1>2, <1>3
  <2>2. Queue[1] = data[nread % PIPESIZE]
    BY <2>1, Zenon DEF Queue, Held
  <2> QED
    BY <1>1, <1>6, <1>8, <2>2
<1>10. Queue' = Tail(Queue)
  BY <1>3, <1>5, <1>6, <1>7, <1>8
<1> QED
  BY <1>0, <1>3, <1>4, <1>8, <1>9, <1>10 DEF Bounded, Channel!Get

\* Every other step leaves the queue and the last byte read alone.
LEMMA OtherSteps ==
  ASSUME Bounded, UNCHANGED <<ring, got>>
  PROVE  Bounded' /\ UNCHANGED <<Queue, got>>
BY Zenon DEF Bounded, Held, Queue, ring

\* A step of the pipe is a step of the queue, or leaves it alone.
LEMMA QueueStep ==
  ASSUME TypeOK, TypeOK', Bounded, [Next]_vars
  PROVE  Bounded' /\ [Channel!Next]_<<Queue, got>>
<1>1. ASSUME NEW p \in Procs, NEW v \in Bytes, WriteByte(p, v)
      PROVE  Bounded' /\ [Channel!Next]_<<Queue, got>>
  BY <1>1, PutStep, Zenon DEF Channel!Next
<1>2. ASSUME NEW p \in Procs, ReadByte(p)
      PROVE  Bounded' /\ [Channel!Next]_<<Queue, got>>
  BY <1>2, GetStep, Zenon DEF Channel!Next
<1>3. CASE UNCHANGED <<ring, got>>
  BY <1>3, OtherSteps, Zenon
<1>4. ASSUME NEW p \in Procs, WriteFull(p) \/ WriteDone(p) \/ ReadEmpty(p) \/ ReadDone(p)
      PROVE  UNCHANGED <<ring, got>>
  BY <1>4, Zenon DEF WriteFull, WriteDone, ReadEmpty, ReadDone
<1>5. ASSUME NEW p \in Procs, Sleep(p) \/ Relock(p) \/ PipeClose(p) \/ Kill(p)
      PROVE  UNCHANGED <<ring, got>>
  BY <1>5, Zenon DEF Sleep, Relock, PipeClose, Kill
<1>6. ASSUME NEW p \in Procs, NEW e, NEW n, Start(p, e, n) \/ FileClose(p, e)
      PROVE  UNCHANGED <<ring, got>>
  BY <1>6, Zenon DEF Start, FileClose
<1>7. CASE UNCHANGED vars
  BY <1>3, <1>7, Zenon DEF vars
<1> QED
  BY <1>1, <1>2, <1>3, <1>4, <1>5, <1>6, <1>7, Zenon DEF Next, Kernel

\* The ring of pipewrite() and piperead(), with counters that wrap around, is a
\* bounded first-in first-out queue for every size of the array and every modulus
\* that the size divides.
THEOREM ImplementsFifo == Spec => IsFifo
<1>1. Init => Bounded /\ Channel!Init
  <2> SUFFICES ASSUME Init
               PROVE  Bounded /\ Channel!Init
    BY Zenon
  <2>1. nread = 0 /\ nwrite = 0 /\ got \in Bytes
    BY Zenon DEF Init
  <2>2. Held = 0
    <3>1. Wrap \in Nat \ {0}
      BY PipeConstants
    <3>2. 0 % Wrap = 0 /\ 0 - 0 = 0
      BY <3>1
    <3> QED
      BY <2>1, <3>2, Zenon DEF Held
  <2>3. Queue = <<>>
    BY <2>2 DEF Queue, Held
  <2> QED
    BY <2>1, <2>2, <2>3, PipeConstants DEF Bounded, Channel!Init
<1>2. TypeOK /\ TypeOK' /\ Bounded /\ [Next]_vars => Bounded' /\ [Channel!Next]_<<Queue, got>>
  BY QueueStep, Zenon
<1> QED
  BY <1>1, <1>2, TypeCorrect, PTL DEF Spec, IsFifo, Channel!Spec
=============================================================================
