----------------------------- MODULE LogProofs ------------------------------
(***************************************************************************)
(* Theorems about Log, for any number of processes and blocks and any size *)
(* of the log that leaves room for what the calls write: the inductive     *)
(* invariant, the commit point, and that the log implements a disk on which*)
(* a system call is written completely or not at all.                      *)
(***************************************************************************)
EXTENDS Log, FiniteSetTheorems, TLAPS

\* Who is where: the counter outstanding is the number of calls in progress,
\* a commit runs alone and after the calls, recovery runs before them.
Counts ==
  /\ outstanding = Cardinality(Active)
  /\ committing <=> \E p \in Procs : pc[p] \in InCommit
  /\ committing => Active = {}
  /\ \A p, q \in Procs : pc[p] \in InCommit /\ pc[q] \in InCommit => p = q
  /\ boot # "up" => ~committing /\ \A p \in Procs : pc[p] = "idle"
  /\ ~panicked

\* Buffers are locked one by one.
Buffers ==
  /\ \A p \in Procs : pc[p] \notin {"check", "append"} => held[p] = {}
  /\ \A p \in Procs : pc[p] \in {"check", "append"} => \E b \in Blocks : held[p] = {b}
  /\ \A p, q \in Procs : p # q => held[p] \cap held[q] = {}

\* How far write_log() and install_trans() are, and when the log is empty.
Loops ==
  /\ \A p \in Procs : pc[p] \in {"write_log", "install"} => tail < Len(lh)
  /\ \A p \in Procs : pc[p] = "write_head" => lh # <<>>
  /\ \A p \in Procs : pc[p] = "finish" => lh = <<>>
  /\ boot = "up" /\ lh # <<>> => committing \/ Active # {}
  /\ boot = "up" /\ ~committing => tail = 0
  /\ boot = "install" => tail < Len(lh)

Control == Counts /\ Buffers /\ Loops

\* What is reserved but not yet used by the calls in progress.
Reserved ==
  {r \in Active \X (1 .. MAXOPBLOCKS) : Cardinality(wrote[r[1]]) < r[2]}

\* The log has room for every reservation, whatever is already in it.
Space ==
  /\ Len(lh) + Cardinality(Reserved) <= LOGSIZE
  /\ Len(lh) <= NLOG - 1
  /\ Len(dhead) <= NLOG - 1 /\ Len(dhead) <= LOGSIZE
  /\ \A p \in Procs : wrote[p] \subseteq Logged(lh)
  /\ \A p \in Procs : pc[p] \notin InOp => wrote[p] = {}
  /\ \A p \in Procs : pc[p] \in InOp => Cardinality(wrote[p] \cup held[p]) <= OpBlocks

NoDup(h) == \A i, j \in 1 .. Len(h) : h[i] = h[j] => i = j

\* No block is logged twice, and the header on disk is the one in memory from
\* the commit point until the log is erased, and empty otherwise.
Headers ==
  /\ NoDup(lh)
  /\ NoDup(dhead)
  /\ boot = "up" /\ (\A p \in Procs : pc[p] \notin {"install", "clear"}) => dhead = <<>>
  /\ \A p \in Procs : pc[p] \in {"install", "clear"} => dhead = lh
  /\ boot \in {"install", "clear"} => dhead = lh

\* A block that is neither logged nor being modified is the same in memory and
\* on disk; which log blocks and home blocks have already been written.
Contents ==
  /\ boot # "up" => cache = disk
  /\ \A b \in Blocks : b \notin Logged(lh) /\ (\A p \in Procs : b \notin held[p])
                          => cache[b] = disk[b]
  /\ \A p \in Procs : pc[p] = "write_log" =>
       \A i \in 1 .. tail : dlog[i] = cache[lh[i]]
  /\ \A p \in Procs : pc[p] \in {"write_head", "install", "clear"} =>
       \A i \in 1 .. Len(lh) : dlog[i] = cache[lh[i]]
  /\ \A p \in Procs : pc[p] = "install" =>
       \A i \in 1 .. tail : disk[lh[i]] = dlog[i]
  /\ \A p \in Procs : pc[p] = "clear" =>
       \A i \in 1 .. Len(lh) : disk[lh[i]] = dlog[i]
  /\ boot = "install" => \A i \in 1 .. tail : disk[lh[i]] = dlog[i]
  /\ boot = "clear" => \A i \in 1 .. Len(lh) : disk[lh[i]] = dlog[i]

Data == Headers /\ Contents

IInv == TypeOK /\ Control /\ Space /\ Data

-----------------------------------------------------------------------------
\* The calls in progress are finitely many.
LEMMA ActiveFinite ==
  IsFiniteSet(Active) /\ Cardinality(Active) \in Nat
BY FS_Subset, FS_CardinalityType, LogConstants, Zenon DEF Active

\* The initial state satisfies the inductive invariant.
LEMMA InitInv == Init => IInv
<1> SUFFICES ASSUME Init PROVE IInv
  BY Zenon
<1> USE LogConstants DEF Init
<1>1. Active = {} /\ Cardinality(Active) = 0
  BY FS_EmptySet, Zenon DEF Active, InOp
<1>2. TypeOK
  <2>1. tail \in 0 .. Len(lh)
    OBVIOUS
  <2>2. pc \in [Procs -> PcValues]
    BY Zenon DEF PcValues
  <2>3. dlog \in [LogSlots -> Values]
    BY Zenon
  <2>4. committing \in BOOLEAN /\ panicked \in BOOLEAN
    BY Zenon
  <2>5. lh \in Seq(Blocks) /\ dhead \in Seq(Blocks)
    OBVIOUS
  <2> QED
    BY <2>1, <2>2, <2>3, <2>4, <2>5, Zenon DEF TypeOK
<1>3. Control
  BY <1>1, Zenon DEF Control, Counts, Buffers, Loops, InCommit
<1>4. Space
  <2>1. Reserved = {} /\ Cardinality(Reserved) = 0
    BY <1>1, FS_EmptySet, Zenon DEF Reserved
  <2> QED
    BY <2>1 DEF Space, InOp
<1>5. Data
  BY DEF Data, Headers, Contents, NoDup
<1> QED
  BY <1>2, <1>3, <1>4, <1>5, Zenon DEF IInv

\* Appending a block number adds that block to the logged ones.
LEMMA LoggedAppend ==
  ASSUME NEW h \in Seq(Blocks), NEW b \in Blocks
  PROVE  /\ Append(h, b) \in Seq(Blocks)
         /\ Len(Append(h, b)) = Len(h) + 1
         /\ Logged(Append(h, b)) = Logged(h) \cup {b}
<1>1. /\ Append(h, b) \in Seq(Blocks)
      /\ Len(Append(h, b)) = Len(h) + 1
      /\ \A i \in 1 .. Len(h) : Append(h, b)[i] = h[i]
      /\ Append(h, b)[Len(h) + 1] = b
  OBVIOUS
<1>2. Logged(Append(h, b)) \subseteq Logged(h) \cup {b}
  BY <1>1 DEF Logged
<1>3. Logged(h) \subseteq Logged(Append(h, b))
  BY <1>1 DEF Logged
<1>4. b \in Logged(Append(h, b))
  BY <1>1 DEF Logged
<1> QED
  BY <1>1, <1>2, <1>3, <1>4, Zenon

\* What a call has written is a finite set.
LEMMA WroteFinite ==
  ASSUME TypeOK, NEW p \in Procs
  PROVE  /\ IsFiniteSet(wrote[p]) /\ Cardinality(wrote[p]) \in Nat
         /\ IsFiniteSet(held[p])
BY FS_Subset, FS_CardinalityType, LogConstants, Zenon DEF TypeOK

\* A set of calls reserves at most MAXOPBLOCKS blocks for each of them.
LEMMA ReservationBound ==
  ASSUME NEW A, IsFiniteSet(A), NEW R \in SUBSET (A \X (1 .. MAXOPBLOCKS))
  PROVE  /\ IsFiniteSet(R)
         /\ Cardinality(R) \in Nat
         /\ Cardinality(R) <= Cardinality(A) * MAXOPBLOCKS
<1>1. IsFiniteSet(1 .. MAXOPBLOCKS) /\ Cardinality(1 .. MAXOPBLOCKS) = MAXOPBLOCKS
  BY FS_Interval, LogConstants
<1>2. /\ IsFiniteSet(A \X (1 .. MAXOPBLOCKS))
      /\ Cardinality(A \X (1 .. MAXOPBLOCKS)) = Cardinality(A) * MAXOPBLOCKS
  BY <1>1, FS_Product, Zenon
<1> QED
  BY <1>2, FS_Subset, FS_CardinalityType, Zenon

\* The calls in progress reserve a finite number of blocks.
LEMMA ReservedBound ==
  IsFiniteSet(Reserved) /\ Cardinality(Reserved) \in Nat
BY ReservationBound, ActiveFinite, Zenon DEF Reserved

\* A call in progress never uses the last MAXOPBLOCKS - OpBlocks blocks of its
\* reservation, so log_write() finds the log below both of its limits.
LEMMA RoomForWrite ==
  ASSUME TypeOK, Space, OpsLeaveRoom, NEW p \in Procs, pc[p] \in InOp
  PROVE  /\ Len(lh) <= LOGSIZE - (MAXOPBLOCKS - OpBlocks)
         /\ Len(lh) < LOGSIZE
         /\ Len(lh) < NLOG - 1
<1> USE LogConstants
<1> DEFINE Slack == {p} \X (OpBlocks + 1 .. MAXOPBLOCKS)
<1>1. Cardinality(Slack) = MAXOPBLOCKS - OpBlocks
  <2>1. /\ IsFiniteSet(OpBlocks + 1 .. MAXOPBLOCKS)
        /\ Cardinality(OpBlocks + 1 .. MAXOPBLOCKS) = MAXOPBLOCKS - OpBlocks
    BY FS_Interval DEF OpsLeaveRoom
  <2>2. IsFiniteSet({p}) /\ Cardinality({p}) = 1
    BY FS_Singleton, Zenon
  <2>3. Cardinality(Slack) = 1 * (MAXOPBLOCKS - OpBlocks)
    BY <2>1, <2>2, FS_Product, ZenonT(60)
  <2> QED
    BY <2>3
<1>2. Cardinality(wrote[p]) <= OpBlocks
  <2>1. IsFiniteSet(wrote[p] \cup held[p])
    BY WroteFinite, FS_Union, Zenon
  <2>2. Cardinality(wrote[p]) <= Cardinality(wrote[p] \cup held[p])
    BY <2>1, FS_Subset, Zenon
  <2>3. Cardinality(wrote[p] \cup held[p]) \in Nat /\ Cardinality(wrote[p]) \in Nat
    BY <2>1, WroteFinite, FS_CardinalityType, Zenon
  <2> QED
    BY <2>2, <2>3 DEF Space
<1>3. Slack \in SUBSET Reserved
  <2> SUFFICES ASSUME NEW k \in OpBlocks + 1 .. MAXOPBLOCKS PROVE <<p, k>> \in Reserved
    OBVIOUS
  <2>1. Cardinality(wrote[p]) < k
    BY <1>2, WroteFinite
  <2> QED
    BY <2>1 DEF Reserved, Active
<1>4. MAXOPBLOCKS - OpBlocks <= Cardinality(Reserved)
  BY <1>1, <1>3, ReservedBound, FS_Subset
<1> QED
  BY <1>4, ReservedBound DEF Space, OpsLeaveRoom, TypeOK

\* Every step preserves the types and the control part of the invariant.
LEMMA ControlStep ==
  ASSUME IInv, OpsLeaveRoom, Next
  PROVE  TypeOK' /\ Control'
<1> USE LogConstants DEF IInv, Up, MustWait, InOp, InCommit, durable
<1>1. CASE Crash
  <2>1. TypeOK'
    <3>1. committing' \in BOOLEAN /\ panicked' \in BOOLEAN
      BY <1>1, Zenon DEF Crash
    <3>2. /\ pc' \in [Procs -> PcValues]
          /\ held' \in [Procs -> SUBSET Blocks]
          /\ wrote' \in [Procs -> SUBSET Blocks]
      BY <1>1, Zenon DEF Crash, PcValues
    <3>3. lh' \in Seq(Blocks) /\ tail' \in 0 .. Len(lh')
      BY <1>1 DEF Crash
    <3> QED
      BY <1>1, <3>1, <3>2, <3>3, Zenon DEF Crash, TypeOK
  <2>2. Active' = {} /\ Cardinality(Active') = 0
    BY <1>1, FS_EmptySet, Zenon DEF Crash, Active
  <2>3. Control'
    <3>1. Counts'
      BY <1>1, <2>2, Zenon DEF Crash, Control, Counts, Buffers, Loops
    <3>2. Buffers'
      BY <1>1, <2>2, Zenon DEF Crash, Control, Counts, Buffers, Loops
    <3>3. Loops'
      BY <1>1, <2>2, Zenon DEF Crash, Control, Counts, Buffers, Loops
    <3> QED
      BY <3>1, <3>2, <3>3, Zenon DEF Control
  <2> QED
    BY <2>1, <2>3, Zenon
<1>2. CASE ReadHead
  <2>1. Active' = Active
    BY <1>2, Zenon DEF ReadHead, Active
  <2>2. TypeOK'
    BY <1>2 DEF ReadHead, TypeOK
  <2>3. Control'
    <3>1. Counts'
      BY <1>2, <2>1, Zenon DEF ReadHead, Control, Counts, Buffers, Loops, TypeOK
    <3>2. Buffers'
      BY <1>2, <2>1, Zenon DEF ReadHead, Control, Counts, Buffers, Loops, TypeOK
    <3>3. Loops'
      BY <1>2, <2>1 DEF ReadHead, Control, Counts, Buffers, Loops, TypeOK
    <3> QED
      BY <3>1, <3>2, <3>3, Zenon DEF Control
  <2> QED
    BY <2>2, <2>3, Zenon
<1>3. CASE RecoverInstall
  <2>1. Active' = Active
    BY <1>3, Zenon DEF RecoverInstall, Active
  <2>2. TypeOK'
    BY <1>3 DEF RecoverInstall, InstallBlock, TypeOK, Control, Counts, Loops, Space, LogSlots
  <2>3. Control'
    <3>1. Counts'
      BY <1>3, <2>1, Zenon DEF RecoverInstall, InstallBlock, Control, Counts, Buffers, Loops, TypeOK
    <3>2. Buffers'
      BY <1>3, <2>1, Zenon DEF RecoverInstall, InstallBlock, Control, Counts, Buffers, Loops, TypeOK
    <3>3. Loops'
      BY <1>3, <2>1 DEF RecoverInstall, InstallBlock, Control, Counts, Buffers, Loops, TypeOK
    <3> QED
      BY <3>1, <3>2, <3>3, Zenon DEF Control
  <2> QED
    BY <2>2, <2>3, Zenon
<1>4. CASE RecoverClear
  <2>1. Active' = Active
    BY <1>4, Zenon DEF RecoverClear, Active
  <2>2. TypeOK'
    BY <1>4 DEF RecoverClear, ClearHead, TypeOK
  <2>3. Control'
    <3>1. Counts'
      BY <1>4, <2>1, Zenon DEF RecoverClear, ClearHead, Control, Counts, Buffers, Loops, TypeOK
    <3>2. Buffers'
      BY <1>4, <2>1, Zenon DEF RecoverClear, ClearHead, Control, Counts, Buffers, Loops, TypeOK
    <3>3. Loops'
      BY <1>4, <2>1, Zenon DEF RecoverClear, ClearHead, Control, Counts, Buffers, Loops, TypeOK
    <3> QED
      BY <3>1, <3>2, <3>3, Zenon DEF Control
  <2> QED
    BY <2>2, <2>3, Zenon
<1>5. ASSUME NEW p \in Procs, BeginOp(p) PROVE TypeOK' /\ Control'
  <2>1. Active' = Active \cup {p} /\ p \notin Active
    BY <1>5, Zenon DEF BeginOp, Active, TypeOK
  <2>2. Cardinality(Active') = Cardinality(Active) + 1
    BY <2>1, ActiveFinite, FS_AddElement, Zenon
  <2>3. TypeOK'
    BY <1>5 DEF BeginOp, TypeOK, PcValues
  <2>4. Control'
    <3>1. Counts'
      BY <1>5, <2>1, <2>2, ActiveFinite, Zenon DEF BeginOp, Control, Counts, Buffers, Loops, TypeOK
    <3>2. Buffers'
      BY <1>5, <2>1, <2>2, ActiveFinite, Zenon DEF BeginOp, Control, Counts, Buffers, Loops, TypeOK
    <3>3. Loops'
      BY <1>5, <2>1, <2>2, ActiveFinite, Zenon DEF BeginOp, Control, Counts, Buffers, Loops, TypeOK
    <3> QED
      BY <3>1, <3>2, <3>3, Zenon DEF Control
  <2> QED
    BY <2>3, <2>4, Zenon
<1>6. ASSUME NEW p \in Procs, BeginOpSleep(p) PROVE TypeOK' /\ Control'
  <2>1. Active' = Active
    BY <1>6, Zenon DEF BeginOpSleep, Active, TypeOK
  <2>2. TypeOK'
    BY <1>6, Zenon DEF BeginOpSleep, TypeOK, PcValues
  <2>3. Control'
    <3>1. Counts'
      BY <1>6, <2>1 DEF BeginOpSleep, Control, Counts, Buffers, Loops, TypeOK
    <3>2. Buffers'
      BY <1>6, <2>1, Zenon DEF BeginOpSleep, Control, Counts, Buffers, Loops, TypeOK
    <3>3. Loops'
      BY <1>6, <2>1, Zenon DEF BeginOpSleep, Control, Counts, Buffers, Loops, TypeOK
    <3> QED
      BY <3>1, <3>2, <3>3, Zenon DEF Control
  <2> QED
    BY <2>2, <2>3, Zenon
<1>7. ASSUME NEW p \in Procs, NEW b \in Blocks, NEW v \in Values, Modify(p, b, v)
      PROVE  TypeOK' /\ Control'
  <2>1. Active' = Active
    BY <1>7, Zenon DEF Modify, Active, TypeOK
  <2>2. TypeOK'
    BY <1>7, Zenon DEF Modify, TypeOK, PcValues
  <2>3. Control'
    <3>1. Counts'
      BY <1>7, <2>1 DEF Modify, Control, Counts, Buffers, Loops, TypeOK
    <3>2. Buffers'
      BY <1>7, <2>1, Zenon DEF Modify, Control, Counts, Buffers, Loops, TypeOK
    <3>3. Loops'
      BY <1>7, <2>1, Zenon DEF Modify, Control, Counts, Buffers, Loops, TypeOK
    <3> QED
      BY <3>1, <3>2, <3>3, Zenon DEF Control
  <2> QED
    BY <2>2, <2>3, Zenon
<1>8. ASSUME NEW p \in Procs, LogWriteCheck(p) PROVE TypeOK' /\ Control'
  <2>1. outstanding >= 1
    BY <1>8, ActiveFinite, FS_EmptySet DEF LogWriteCheck, Active, Control, Counts
  <2>2. pc' = [pc EXCEPT ![p] = "append"] /\ UNCHANGED panicked
    BY <1>8, <2>1, RoomForWrite DEF LogWriteCheck, TypeOK
  <2>3. Active' = Active
    BY <1>8, <2>2, Zenon DEF LogWriteCheck, Active, TypeOK
  <2>4. TypeOK'
    BY <1>8, <2>2, Zenon DEF LogWriteCheck, TypeOK, PcValues
  <2>5. Control'
    BY <1>8, <2>2, <2>3 DEF LogWriteCheck, Control, Counts, Buffers, Loops, TypeOK
  <2> QED
    BY <2>4, <2>5, Zenon
<1>9. ASSUME NEW p \in Procs, LogWrite(p) PROVE TypeOK' /\ Control'
  <2>1. Active' = Active
    BY <1>9, Zenon DEF LogWrite, Active, TypeOK
  <2>2. PICK b \in held[p] :
          /\ lh' = IF b \in Logged(lh) THEN lh ELSE Append(lh, b)
          /\ wrote' = [wrote EXCEPT ![p] = @ \cup {b}]
    BY <1>9, Zenon DEF LogWrite
  <2>3. b \in Blocks /\ Len(lh') >= Len(lh)
    BY <2>2 DEF TypeOK
  <2>4. TypeOK'
    BY <1>9, <2>2, <2>3 DEF LogWrite, TypeOK, PcValues
  <2>5. Control'
    <3>1. Counts'
      BY <1>9, <2>1, <2>3, Zenon DEF LogWrite, Control, Counts, Buffers, Loops, TypeOK, Active
    <3>2. Buffers'
      BY <1>9, <2>1, <2>3 DEF LogWrite, Control, Counts, Buffers, Loops, TypeOK, Active
    <3>3. Loops'
      BY <1>9, <2>1, <2>3, Zenon DEF LogWrite, Control, Counts, Buffers, Loops, TypeOK, Active
    <3> QED
      BY <3>1, <3>2, <3>3, Zenon DEF Control
  <2> QED
    BY <2>4, <2>5, Zenon
<1>10. ASSUME NEW p \in Procs, EndOp(p) PROVE TypeOK' /\ Control'
  <2>1. Active' = Active \ {p} /\ p \in Active
    BY <1>10, Zenon DEF EndOp, Wakeup, CommitEntry, Active, TypeOK
  <2>2. Cardinality(Active') = Cardinality(Active) - 1
    BY <2>1, ActiveFinite, FS_RemoveElement, Zenon
  <2>0. outstanding = Cardinality(Active) /\ Cardinality(Active') \in Nat
    BY <2>1, ActiveFinite, FS_RemoveElement, FS_CardinalityType, Zenon DEF Control, Counts
  <2>3. ~committing /\ ~panicked' /\ tail = 0 /\ held[p] = {} /\ outstanding' \in Nat
    <3>1. ~committing /\ tail = 0 /\ held[p] = {} /\ outstanding' \in Nat
      BY <1>10, <2>0, <2>1, <2>2, ActiveFinite, Zenon DEF EndOp, Control, Counts, Loops, Buffers, TypeOK
    <3>2. ~panicked'
      BY <1>10, <3>1, Zenon DEF EndOp
    <3> QED
      BY <3>1, <3>2, Zenon
  <2>4. CASE outstanding = 1
    <3>1. committing' /\ pc' = [pc EXCEPT ![p] = CommitEntry]
      BY <1>10, <2>4, Zenon DEF EndOp
    <3>2. Active' = {}
      BY <2>0, <2>1, <2>2, <2>4, ActiveFinite, FS_EmptySet, FS_RemoveElement
    <3>3. TypeOK'
      BY <1>10, <2>3, <3>1, Zenon DEF EndOp, CommitEntry, TypeOK, PcValues
    <3>4. Control'
      <4>1. Counts'
        BY <1>10, <2>1, <2>2, <2>3, <3>1, <3>2, ActiveFinite, Zenon DEF EndOp, CommitEntry, Control, Counts, Buffers, Loops, TypeOK
      <4>2. Buffers'
        BY <1>10, <2>1, <2>2, <2>3, <3>1, <3>2, ActiveFinite, Zenon DEF EndOp, CommitEntry, Control, Counts, Buffers, Loops, TypeOK
      <4>3. Loops'
        BY <1>10, <2>1, <2>2, <2>3, <3>1, <3>2, ActiveFinite DEF EndOp, CommitEntry, Control, Counts, Buffers, Loops, TypeOK
      <4> QED
        BY <4>1, <4>2, <4>3, Zenon DEF Control
    <3> QED
      BY <3>3, <3>4, Zenon
  <2>5. CASE outstanding # 1
    <3>1. committing' = committing /\ pc' = Wakeup([pc EXCEPT ![p] = "idle"])
      BY <1>10, <2>5, Zenon DEF EndOp
    <3>2. Active' # {}
      BY <2>0, <2>2, <2>5, ActiveFinite, FS_EmptySet
    <3>3. TypeOK'
      BY <1>10, <2>3, <3>1, Zenon DEF EndOp, Wakeup, TypeOK, PcValues
    <3>4. Control'
      <4>1. Counts'
        BY <1>10, <2>1, <2>2, <2>3, <3>1, <3>2, ActiveFinite DEF EndOp, Wakeup, Control, Counts, Buffers, Loops, TypeOK
      <4>2. Buffers'
        BY <1>10, <2>1, <2>2, <2>3, <3>1, <3>2, ActiveFinite, Zenon DEF EndOp, Wakeup, Control, Counts, Buffers, Loops, TypeOK
      <4>3. Loops'
        BY <1>10, <2>1, <2>2, <2>3, <3>1, <3>2, ActiveFinite, Zenon DEF EndOp, Wakeup, Control, Counts, Buffers, Loops, TypeOK
      <4> QED
        BY <4>1, <4>2, <4>3, Zenon DEF Control
    <3> QED
      BY <3>3, <3>4, Zenon
  <2> QED
    BY <2>4, <2>5, Zenon
<1>11. ASSUME NEW p \in Procs, Commit(p) PROVE TypeOK' /\ Control'
  <2>1. Active' = Active
    BY <1>11, Zenon DEF Commit, WriteLog, WriteHead, InstallTrans, ClearLog, FinishCommit,
                 Wakeup, Active, TypeOK
  <2>2. CASE WriteLog(p)
    <3>1. TypeOK'
      BY <2>2 DEF WriteLog, TypeOK, PcValues, Control, Counts, Buffers, Loops, Space, LogSlots
    <3>2. Control'
      <4>0. pc'[p] \in {"write_log", "write_head"} /\ \A q \in Procs \ {p} : pc'[q] = pc[q]
        BY <2>2, Zenon DEF WriteLog, TypeOK
      <4>1. Counts'
        BY <2>1, <2>2, <4>0 DEF WriteLog, Control, Counts
      <4>2. Buffers'
        BY <2>1, <2>2, Zenon DEF WriteLog, TypeOK, Control, Counts, Buffers, Loops, Active
      <4>3. Loops'
        BY <2>1, <2>2 DEF WriteLog, TypeOK, Control, Counts, Buffers, Loops, Active
      <4> QED
        BY <4>1, <4>2, <4>3, Zenon DEF Control
    <3> QED
      BY <3>1, <3>2, Zenon
  <2>3. CASE WriteHead(p)
    <3>1. TypeOK'
      BY <2>3 DEF WriteHead, TypeOK, PcValues
    <3>2. Control'
      <4>4. pc'[p] = "install" /\ \A q \in Procs \ {p} : pc'[q] = pc[q]
        BY <2>3, Zenon DEF WriteHead, TypeOK
      <4>1. Counts'
        BY <2>1, <2>3, <4>4, Zenon DEF WriteHead, Control, Counts
      <4>2. Buffers'
        BY <2>1, <2>3, Zenon DEF WriteHead, TypeOK, Control, Counts, Buffers, Loops, Active
      <4>0. lh # <<>> => 0 < Len(lh)
        BY DEF TypeOK
      <4>3. Loops'
        BY <2>1, <2>3, <4>0, Zenon DEF WriteHead, TypeOK, Control, Counts, Loops
      <4> QED
        BY <4>1, <4>2, <4>3, Zenon DEF Control
    <3> QED
      BY <3>1, <3>2, Zenon
  <2>4. CASE InstallTrans(p)
    <3>1. TypeOK'
      BY <2>4 DEF InstallTrans, InstallBlock, TypeOK, PcValues, Control, Counts, Buffers, Loops, Space, LogSlots
    <3>2. Control'
      <4>0. pc'[p] \in {"install", "clear"} /\ \A q \in Procs \ {p} : pc'[q] = pc[q]
        BY <2>4, Zenon DEF InstallTrans, TypeOK
      <4>1. Counts'
        BY <2>1, <2>4, <4>0 DEF InstallTrans, InstallBlock, Control, Counts
      <4>2. Buffers'
        BY <2>1, <2>4, Zenon DEF InstallTrans, InstallBlock, TypeOK, Control, Counts, Buffers, Loops, Active
      <4>3. Loops'
        BY <2>1, <2>4 DEF InstallTrans, InstallBlock, TypeOK, Control, Counts, Buffers, Loops, Active
      <4> QED
        BY <4>1, <4>2, <4>3, Zenon DEF Control
    <3> QED
      BY <3>1, <3>2, Zenon
  <2>5. CASE ClearLog(p)
    <3>1. TypeOK'
      BY <2>5 DEF ClearLog, ClearHead, TypeOK, PcValues
    <3>2. Control'
      <4>1. Counts'
        BY <2>1, <2>5 DEF ClearLog, ClearHead, TypeOK, Control, Counts, Buffers, Loops
      <4>2. Buffers'
        BY <2>1, <2>5, Zenon DEF ClearLog, ClearHead, TypeOK, Control, Counts, Buffers, Loops
      <4>3. Loops'
        BY <2>1, <2>5, Zenon DEF ClearLog, ClearHead, TypeOK, Control, Counts, Buffers, Loops
      <4> QED
        BY <4>1, <4>2, <4>3, Zenon DEF Control
    <3> QED
      BY <3>1, <3>2, Zenon
  <2>6. CASE FinishCommit(p)
    <3>1. TypeOK'
      BY <2>6, Zenon DEF FinishCommit, Wakeup, TypeOK, PcValues
    <3>2. Control'
      <4>1. Counts'
        BY <2>1, <2>6 DEF FinishCommit, Wakeup, TypeOK, Control, Counts, Buffers, Loops
      <4>2. Buffers'
        BY <2>1, <2>6, Zenon DEF FinishCommit, Wakeup, TypeOK, Control, Counts, Buffers, Loops
      <4>3. Loops'
        BY <2>1, <2>6 DEF FinishCommit, Wakeup, TypeOK, Control, Counts, Buffers, Loops
      <4> QED
        BY <4>1, <4>2, <4>3, Zenon DEF Control
    <3> QED
      BY <3>1, <3>2, Zenon
  <2> QED
    BY <1>11, <2>2, <2>3, <2>4, <2>5, <2>6, Zenon DEF Commit
<1> QED
  BY <1>1, <1>2, <1>3, <1>4, <1>5, <1>6, <1>7, <1>8, <1>9, <1>10, <1>11, Zenon DEF Next, Recover

-----------------------------------------------------------------------------
\* Steps that leave the log, the calls in progress and what they wrote alone
\* leave the reservations alone.
LEMMA SameReserved ==
  ASSUME Active' = Active, wrote' = wrote
  PROVE  Reserved' = Reserved
BY Zenon DEF Reserved

\* When no call is in progress nothing is reserved.
LEMMA NoneReserved ==
  ASSUME Active = {}
  PROVE  Reserved = {} /\ Cardinality(Reserved) = 0
BY FS_EmptySet, Zenon DEF Reserved

\* Logging a block uses up one block of the call's reservation whenever the
\* log grows.
LEMMA LogWriteSpace ==
  ASSUME IInv, OpsLeaveRoom, NEW p \in Procs, LogWrite(p), Active' = Active
  PROVE  Space'
<1> USE LogConstants DEF IInv, InOp, durable
<1>1. PICK b \in held[p] :
        /\ lh' = IF b \in Logged(lh) THEN lh ELSE Append(lh, b)
        /\ wrote' = [wrote EXCEPT ![p] = @ \cup {b}]
  BY Zenon DEF LogWrite
<1>2. /\ b \in Blocks /\ held[p] = {b} /\ pc[p] \in InOp /\ p \in Active
      /\ lh \in Seq(Blocks) /\ Len(lh) \in Nat
  BY <1>1 DEF LogWrite, TypeOK, Control, Buffers, Active
<1>3. Cardinality(wrote[p] \cup {b}) <= OpBlocks /\ Cardinality(wrote[p] \cup {b}) \in Nat
  BY <1>1, <1>2, WroteFinite, FS_AddElement, FS_CardinalityType, Zenon DEF Space
<1>4. Cardinality(wrote[p] \cup {b}) =
        IF b \in wrote[p] THEN Cardinality(wrote[p]) ELSE Cardinality(wrote[p]) + 1
  BY WroteFinite, FS_AddElement, Zenon
<1>5. Reserved' \in SUBSET Reserved
  <2> SUFFICES ASSUME NEW r \in Reserved' PROVE r \in Reserved
    BY Zenon
  <2>1. r \in Active \X (1 .. MAXOPBLOCKS) /\ Cardinality(wrote'[r[1]]) < r[2]
    BY Zenon DEF Reserved
  <2>2. CASE r[1] = p
    <3>1. Cardinality(wrote[p] \cup {b}) < r[2]
      BY <1>1, <2>1, <2>2, Zenon DEF TypeOK
    <3> QED
      BY <1>3, <1>4, <2>1, <2>2, <3>1, WroteFinite DEF Reserved
  <2>3. CASE r[1] # p
    BY <1>1, <2>1, <2>3 DEF Reserved, TypeOK
  <2> QED
    BY <2>2, <2>3, Zenon
<1>6. IsFiniteSet(Reserved') /\ Cardinality(Reserved') \in Nat
      /\ Cardinality(Reserved') <= Cardinality(Reserved)
  BY <1>5, ReservedBound, FS_Subset, FS_CardinalityType, Zenon
<1>7. Len(lh') + Cardinality(Reserved') <= LOGSIZE
  <2>1. CASE b \in Logged(lh)
    BY <1>1, <1>2, <1>6, <2>1, ReservedBound DEF Space
  <2>2. CASE b \notin Logged(lh)
    <3>1. Len(lh') = Len(lh) + 1
      BY <1>1, <1>2, <2>2, LoggedAppend, Zenon
    <3>2. b \notin wrote[p]
      BY <2>2, Zenon DEF Space
    <3> DEFINE slot == <<p, Cardinality(wrote[p]) + 1>>
    <3>3. slot \in Reserved
      BY <1>2, <1>3, <1>4, <3>2, WroteFinite DEF Reserved
    <3>4. slot \notin Reserved'
      BY <1>1, <1>4, <3>2, WroteFinite DEF Reserved, TypeOK
    <3> HIDE DEF slot
    <3>5. Reserved' \in SUBSET (Reserved \ {slot})
      BY <1>5, <3>4, Zenon
    <3>6. IsFiniteSet(Reserved \ {slot})
          /\ Cardinality(Reserved \ {slot}) = Cardinality(Reserved) - 1
      BY <3>3, ReservedBound, FS_RemoveElement, Zenon
    <3>7. Cardinality(Reserved') <= Cardinality(Reserved) - 1
      BY <3>5, <3>6, FS_Subset
    <3> QED
      BY <1>2, <1>6, <3>1, <3>7, ReservedBound, SMTT(60) DEF Space
  <2> QED
    BY <2>1, <2>2, Zenon
<1>8. Len(lh') <= NLOG - 1
  <2>1. Len(lh') <= Len(lh) + 1
    BY <1>1, <1>2, LoggedAppend
  <2> QED
    BY <1>1, <1>2, <2>1, RoomForWrite, LoggedAppend DEF TypeOK
<1>9. \A q \in Procs : wrote'[q] \subseteq Logged(lh')
  <2>1. Logged(lh) \subseteq Logged(lh') /\ b \in Logged(lh')
    BY <1>1, <1>2, LoggedAppend, Zenon
  <2> QED
    BY <1>1, <2>1, Zenon DEF Space, TypeOK
<1>10. \A q \in Procs : pc'[q] \in InOp => Cardinality(wrote'[q] \cup held'[q]) <= OpBlocks
  <2>1. wrote'[p] \cup held'[p] = wrote[p] \cup {b}
    BY <1>1, Zenon DEF LogWrite, TypeOK
  <2>2. \A q \in Procs \ {p} : wrote'[q] = wrote[q] /\ held'[q] = held[q] /\ pc'[q] = pc[q]
    BY <1>1, Zenon DEF LogWrite, TypeOK
  <2> QED
    BY <1>3, <2>1, <2>2, Zenon DEF Space
<1>11. \A q \in Procs : pc'[q] \notin InOp => wrote'[q] = {}
  BY <1>1, Zenon DEF LogWrite, Space, TypeOK
<1>12. Len(dhead') <= NLOG - 1 /\ Len(dhead') <= LOGSIZE
  BY Zenon DEF LogWrite, Space
<1> QED
  BY <1>7, <1>8, <1>9, <1>10, <1>11, <1>12, Zenon DEF Space

\* Every step preserves the room that the reservations need.
LEMMA SpaceStep ==
  ASSUME IInv, OpsLeaveRoom, Next
  PROVE  Space'
<1> USE LogConstants DEF IInv, Up, MustWait, InOp, InCommit, durable
<1>0. Len(lh) \in Nat /\ Len(dhead) \in Nat /\ Cardinality(Reserved) \in Nat
  BY ReservedBound DEF TypeOK
<1>1. CASE Crash
  <2>1. Active' = {} /\ Reserved' = {} /\ Cardinality(Reserved') = 0
    BY <1>1, FS_EmptySet, Zenon DEF Crash, Active, Reserved
  <2> QED
    BY <1>1, <2>1 DEF Crash, Space
<1>2. CASE ReadHead
  <2>1. Active = {}
    BY <1>2, Zenon DEF ReadHead, Control, Counts, Active
  <2>2. Active' = Active /\ Reserved' = Reserved
    BY <1>2, SameReserved, Zenon DEF ReadHead, Active
  <2>3. Cardinality(Reserved') = 0
    BY <2>1, <2>2, NoneReserved, Zenon
  <2> QED
    BY <1>0, <1>2, <2>1, <2>3 DEF ReadHead, Space, Active, TypeOK
<1>3. CASE RecoverInstall
  <2>1. Active' = Active /\ Reserved' = Reserved
    BY <1>3, SameReserved, Zenon DEF RecoverInstall, Active
  <2> QED
    BY <1>3, <2>1, Zenon DEF RecoverInstall, Space
<1>4. CASE RecoverClear
  <2>1. Active' = Active /\ Reserved' = Reserved /\ Active = {}
    BY <1>4, SameReserved, Zenon DEF RecoverClear, Active, Control, Counts
  <2>2. Cardinality(Reserved') = 0
    BY <2>1, NoneReserved, Zenon
  <2> QED
    BY <1>4, <2>1, <2>2 DEF RecoverClear, ClearHead, Space, Active, Logged
<1>5. ASSUME NEW p \in Procs, BeginOp(p) PROVE Space'
  <2>1. Active' = Active \cup {p} /\ p \notin Active
    BY <1>5, Zenon DEF BeginOp, Active, TypeOK
  <2>2. IsFiniteSet(Active') /\ Cardinality(Active') = outstanding + 1
    BY <2>1, ActiveFinite, FS_AddElement, Zenon DEF Control, Counts
  <2>3. /\ Cardinality(Reserved') \in Nat
        /\ Cardinality(Reserved') <= (outstanding + 1) * MAXOPBLOCKS
    BY <2>2, ReservationBound, Zenon DEF Reserved
  <2>4. Len(lh) + (outstanding + 1) * MAXOPBLOCKS <= LOGSIZE
    BY <1>0, <1>5 DEF BeginOp, NoSpace, TypeOK
  <2>5. Len(lh') + Cardinality(Reserved') <= LOGSIZE
    BY <1>0, <1>5, <2>3, <2>4 DEF BeginOp, TypeOK
  <2>6. /\ Cardinality(wrote[p] \cup held[p]) <= OpBlocks
        /\ \A q \in Procs \ {p} : pc'[q] = pc[q]
    <3>1. wrote[p] \cup held[p] = {}
      BY <1>5, Zenon DEF BeginOp, Space, Control, Buffers
    <3>2. Cardinality(wrote[p] \cup held[p]) = 0
      BY <3>1, FS_EmptySet, Zenon
    <3> QED
      BY <1>5, <3>2 DEF BeginOp, TypeOK
  <2> QED
    BY <1>5, <2>5, <2>6, Zenon DEF BeginOp, Space
<1>6. ASSUME NEW p \in Procs, BeginOpSleep(p) PROVE Space'
  <2>1. Active' = Active /\ Reserved' = Reserved
    BY <1>6, SameReserved, Zenon DEF BeginOpSleep, Active, TypeOK
  <2> QED
    BY <1>6, <2>1, Zenon DEF BeginOpSleep, Space, TypeOK
<1>7. ASSUME NEW p \in Procs, NEW b \in Blocks, NEW v \in Values, Modify(p, b, v)
      PROVE  Space'
  <2>1. Active' = Active /\ Reserved' = Reserved
    BY <1>7, SameReserved, Zenon DEF Modify, Active, TypeOK
  <2> QED
    BY <1>7, <2>1, Zenon DEF Modify, Space, TypeOK
<1>8. ASSUME NEW p \in Procs, LogWriteCheck(p) PROVE Space'
  <2>1. Active' = Active /\ Reserved' = Reserved
    BY <1>8, SameReserved, Zenon DEF LogWriteCheck, Active, TypeOK
  <2> QED
    BY <1>8, <2>1, Zenon DEF LogWriteCheck, Space, TypeOK
<1>9. ASSUME NEW p \in Procs, LogWrite(p) PROVE Space'
  <2>1. Active' = Active
    BY <1>9, Zenon DEF LogWrite, Active, TypeOK
  <2> QED
    BY <1>9, <2>1, LogWriteSpace, Zenon
<1>10. ASSUME NEW p \in Procs, EndOp(p) PROVE Space'
  <2>1. Active' = Active \ {p}
    BY <1>10, Zenon DEF EndOp, Wakeup, CommitEntry, Active, TypeOK
  <2>2. Reserved' \in SUBSET Reserved
    BY <1>10, <2>1 DEF EndOp, Reserved, TypeOK
  <2>3. Cardinality(Reserved') \in Nat /\ Cardinality(Reserved') <= Cardinality(Reserved)
    BY <2>2, ReservedBound, FS_Subset, FS_CardinalityType, Zenon
  <2>4. /\ wrote'[p] = {} /\ pc'[p] \notin InOp
        /\ \A q \in Procs \ {p} : wrote'[q] = wrote[q] /\ (pc'[q] \in InOp <=> pc[q] \in InOp)
    BY <1>10, Zenon DEF EndOp, Wakeup, CommitEntry, TypeOK
  <2> QED
    BY <1>0, <1>10, <2>3, <2>4 DEF EndOp, Space
<1>11. ASSUME NEW p \in Procs, Commit(p) PROVE Space'
  <2>0. UNCHANGED <<held, wrote>>
    BY <1>11, Zenon DEF Commit, WriteLog, WriteHead, InstallTrans, ClearLog, FinishCommit
  <2>1. Active' = {} /\ Active = {} /\ \A q \in Procs : wrote[q] = {} /\ pc'[q] \notin InOp
    BY <1>11, SMTT(60) DEF Commit, WriteLog, WriteHead, InstallTrans, ClearLog, FinishCommit,
                 Wakeup, Active, TypeOK, Control, Counts, Space
  <2>2. Reserved' = Reserved /\ Cardinality(Reserved) = 0
    BY <2>0, <2>1, SameReserved, NoneReserved, Zenon
  <2>3. /\ lh' \in {lh, <<>>}
        /\ dhead' \in {lh, dhead, <<>>}
    BY <1>11, Zenon DEF Commit, WriteLog, WriteHead, InstallTrans, ClearLog, ClearHead, FinishCommit
  <2> QED
    BY <1>0, <2>0, <2>1, <2>2, <2>3 DEF Space
<1> QED
  BY <1>1, <1>2, <1>3, <1>4, <1>5, <1>6, <1>7, <1>8, <1>9, <1>10, <1>11, Zenon DEF Next, Recover

-----------------------------------------------------------------------------
\* Every step preserves what is known of the contents of the disk.
LEMMA DataStep ==
  ASSUME IInv, OpsLeaveRoom, Next
  PROVE  Data'
<1> USE LogConstants DEF IInv, Up, MustWait, InOp, InCommit, durable
<1>0. lh \in Seq(Blocks) /\ Len(lh) \in Nat /\ tail \in 0 .. Len(lh) /\ dhead \in Seq(Blocks)
  BY DEF TypeOK
<1>1. CASE Crash
  <2>1. Headers'
    BY <1>1 DEF Crash, Data, Headers, NoDup
  <2>2. Contents'
    BY <1>1, Zenon DEF Crash, Contents
  <2> QED
    BY <2>1, <2>2, Zenon DEF Data
<1>2. CASE ReadHead
  <2>1. Headers'
    BY <1>2, Zenon DEF ReadHead, Data, Headers, Control, Counts
  <2>2. Contents'
    BY <1>0, <1>2, SMTT(60) DEF ReadHead, Data, Contents, Control, Counts
  <2> QED
    BY <2>1, <2>2, Zenon DEF Data
<1>3. CASE RecoverInstall
  <2>1. Headers'
    BY <1>3, Zenon DEF RecoverInstall, Data, Headers, Control, Counts
  <2>2. Contents'
    <3>1. tail + 1 \in 1 .. Len(lh) /\ lh[tail + 1] \in Blocks
      BY <1>0, <1>3 DEF RecoverInstall, Control, Loops
    <3>2. \A i \in 1 .. tail : lh[i] # lh[tail + 1] /\ lh[i] \in Blocks
      BY <1>0, <3>1 DEF Data, Headers, NoDup
    <3>3. \A i \in 1 .. tail' : disk'[lh[i]] = dlog[i]
      BY <1>0, <1>3, <3>1, <3>2 DEF RecoverInstall, InstallBlock, Data, Contents, TypeOK
    <3>4. cache' = disk'
      BY <1>3, Zenon DEF RecoverInstall, InstallBlock, Data, Contents
    <3> QED
      BY <1>0, <1>3, <3>3, <3>4, Zenon DEF RecoverInstall, InstallBlock, Contents, Control, Counts
  <2> QED
    BY <2>1, <2>2, Zenon DEF Data
<1>4. CASE RecoverClear
  <2>1. Headers'
    BY <1>4 DEF RecoverClear, ClearHead, Headers, NoDup, Control, Counts
  <2>2. Contents'
    BY <1>4, Zenon DEF RecoverClear, ClearHead, Data, Contents, Control, Counts
  <2> QED
    BY <2>1, <2>2, Zenon DEF Data
<1>5. ASSUME NEW p \in Procs, BeginOp(p) PROVE Data'
  <2>1. Headers'
    BY <1>5, Zenon DEF BeginOp, Data, Headers, TypeOK
  <2>2. Contents'
    BY <1>5 DEF BeginOp, Data, Contents, TypeOK
  <2> QED
    BY <2>1, <2>2, Zenon DEF Data
<1>6. ASSUME NEW p \in Procs, BeginOpSleep(p) PROVE Data'
  <2>1. Headers'
    BY <1>6, Zenon DEF BeginOpSleep, Data, Headers, TypeOK
  <2>2. Contents'
    BY <1>6 DEF BeginOpSleep, Data, Contents, TypeOK
  <2> QED
    BY <2>1, <2>2, Zenon DEF Data
<1>7. ASSUME NEW p \in Procs, NEW b \in Blocks, NEW v \in Values, Modify(p, b, v)
      PROVE  Data'
  <2>1. \A q \in Procs : pc[q] \notin InCommit /\ pc'[q] \notin InCommit
    BY <1>7, Zenon DEF Modify, Control, Counts, Active, TypeOK
  <2>2. Headers'
    BY <1>7, <2>1, Zenon DEF Modify, Data, Headers, TypeOK
  <2>3. \A c \in Blocks : (\A q \in Procs : c \notin held'[q]) =>
          /\ \A q \in Procs : c \notin held[q]
          /\ cache'[c] = cache[c]
    BY <1>7, Zenon DEF Modify, Control, Buffers, TypeOK
  <2>4. Contents'
    BY <1>7, <2>1, <2>3, Zenon DEF Modify, Data, Contents
  <2> QED
    BY <2>2, <2>4, Zenon DEF Data
<1>8. ASSUME NEW p \in Procs, LogWriteCheck(p) PROVE Data'
  <2>1. \A q \in Procs : pc[q] \notin InCommit /\ pc'[q] \notin InCommit
    BY <1>8, Zenon DEF LogWriteCheck, Control, Counts, Active, TypeOK
  <2>2. Headers'
    BY <1>8, <2>1, Zenon DEF LogWriteCheck, Data, Headers
  <2>3. Contents'
    BY <1>8, <2>1, Zenon DEF LogWriteCheck, Data, Contents
  <2> QED
    BY <2>2, <2>3, Zenon DEF Data
<1>9. ASSUME NEW p \in Procs, LogWrite(p) PROVE Data'
  <2>1. \A q \in Procs : pc[q] \notin InCommit /\ pc'[q] \notin InCommit
    BY <1>9, Zenon DEF LogWrite, Control, Counts, Active, TypeOK
  <2>2. PICK b \in held[p] : lh' = IF b \in Logged(lh) THEN lh ELSE Append(lh, b)
    BY <1>9, Zenon DEF LogWrite
  <2>3. b \in Blocks /\ held[p] = {b}
    BY <1>9, <2>2 DEF LogWrite, Control, Buffers
  <2>4. NoDup(lh')
    BY <1>0, <2>2, <2>3 DEF Data, Headers, NoDup, Logged
  <2>5. Logged(lh') = Logged(lh) \cup {b}
    BY <1>0, <2>2, <2>3, LoggedAppend, Zenon
  <2>6. Headers'
    BY <1>9, <2>1, <2>4, Zenon DEF LogWrite, Data, Headers
  <2>7. Contents'
    BY <1>9, <2>1, <2>3, <2>5, Zenon DEF LogWrite, Data, Contents, TypeOK
  <2> QED
    BY <2>6, <2>7, Zenon DEF Data
<1>10. ASSUME NEW p \in Procs, EndOp(p) PROVE Data'
  <2>1. \A q \in Procs : pc[q] \notin InCommit
    BY <1>10, Zenon DEF EndOp, Control, Counts, Active
  <2>2. tail = 0 /\ \A q \in Procs : pc'[q] \notin {"write_head", "install", "clear"}
    BY <1>10, <2>1, Zenon DEF EndOp, Wakeup, CommitEntry, Control, Counts, Loops, TypeOK
  <2>5. UNCHANGED <<disk, dlog, dhead, cache, lh, tail, held, boot>>
    BY <1>10, Zenon DEF EndOp
  <2>3. Headers'
    BY <2>1, <2>2, <2>5, Zenon DEF Data, Headers
  <2>4. Contents'
    BY <2>2, <2>5 DEF Data, Contents, Logged
  <2> QED
    BY <2>3, <2>4, Zenon DEF Data
<1>11. ASSUME NEW p \in Procs, WriteLog(p) PROVE Data'
  <2>1. \A q \in Procs \ {p} : pc[q] \notin InCommit /\ pc'[q] \notin InCommit
    BY <1>11, Zenon DEF WriteLog, Control, Counts, TypeOK
  <2>2. pc'[p] = IF tail + 1 = Len(lh) THEN "write_head" ELSE "write_log"
    BY <1>11, Zenon DEF WriteLog, TypeOK
  <2>3. Headers'
    BY <1>11, <2>1, <2>2 DEF WriteLog, Data, Headers
  <2>4. \A i \in 1 .. tail' : dlog'[i] = cache[lh[i]]
    BY <1>0, <1>11 DEF WriteLog, Data, Contents, Space, TypeOK, LogSlots, Control, Loops
  <2>5. Contents'
    BY <1>0, <1>11, <2>1, <2>2, <2>4, SMTT(60) DEF WriteLog, Data, Contents
  <2> QED
    BY <2>3, <2>5, Zenon DEF Data
<1>12. ASSUME NEW p \in Procs, WriteHead(p) PROVE Data'
  <2>1. pc'[p] = "install" /\ \A q \in Procs \ {p} : pc[q] \notin InCommit /\ pc'[q] \notin InCommit
    BY <1>12, Zenon DEF WriteHead, Control, Counts, TypeOK
  <2>2. Headers'
    BY <1>12, <2>1, Zenon DEF WriteHead, Data, Headers
  <2>3. Contents'
    BY <1>12, <2>1, SMTT(60) DEF WriteHead, Data, Contents
  <2> QED
    BY <2>2, <2>3, Zenon DEF Data
<1>13. ASSUME NEW p \in Procs, InstallTrans(p) PROVE Data'
  <2>1. \A q \in Procs \ {p} : pc[q] \notin InCommit /\ pc'[q] \notin InCommit
    BY <1>13, Zenon DEF InstallTrans, Control, Counts, TypeOK
  <2>2. pc'[p] = IF tail + 1 = Len(lh) THEN "clear" ELSE "install"
    BY <1>13, Zenon DEF InstallTrans, TypeOK
  <2>3. Headers'
    BY <1>13, <2>1, <2>2, Zenon DEF InstallTrans, Data, Headers
  <2>4. tail + 1 \in 1 .. Len(lh) /\ lh[tail + 1] \in Blocks
    BY <1>0, <1>13 DEF InstallTrans, Control, Loops
  <2>5. \A i \in 1 .. Len(lh) : dlog[i] = cache[lh[i]] /\ lh[i] \in Blocks
    BY <1>0, <1>13, SMTT(60) DEF InstallTrans, Data, Contents
  <2>6. cache' = cache
    BY <1>13, <2>4, <2>5, Zenon DEF InstallTrans, InstallBlock, TypeOK
  <2>7. \A i \in 1 .. tail' : disk'[lh[i]] = dlog[i]
    <3>1. \A i \in 1 .. tail : lh[i] # lh[tail + 1]
      BY <1>0, <2>4 DEF Data, Headers, NoDup
    <3> QED
      BY <1>0, <1>13, <2>4, <2>5, <3>1, SMTT(60) DEF InstallTrans, InstallBlock, Data, Contents, TypeOK
  <2>8. \A b \in Blocks : b \notin Logged(lh) => disk'[b] = disk[b]
    BY <1>13, <2>4, Zenon DEF InstallTrans, InstallBlock, TypeOK, Logged
  <2>9. Contents'
    BY <1>0, <1>13, <2>1, <2>2, <2>5, <2>6, <2>7, <2>8, SMTT(60) DEF InstallTrans, InstallBlock, Data, Contents
  <2> QED
    BY <2>3, <2>9, Zenon DEF Data
<1>14. ASSUME NEW p \in Procs, ClearLog(p) PROVE Data'
  <2>1. pc'[p] = "finish" /\ \A q \in Procs \ {p} : pc[q] \notin InCommit /\ pc'[q] \notin InCommit
    BY <1>14, Zenon DEF ClearLog, Control, Counts, TypeOK
  <2>2. Headers'
    BY <1>14, <2>1 DEF ClearLog, ClearHead, Data, Headers, NoDup
  <2>3. \A b \in Blocks : (\A q \in Procs : b \notin held[q]) => cache[b] = disk[b]
    <3>1. \A i \in 1 .. Len(lh) : disk[lh[i]] = cache[lh[i]]
      BY <1>14 DEF ClearLog, Data, Contents
    <3>2. \A b \in Logged(lh) : cache[b] = disk[b]
      BY <3>1, Zenon DEF Logged
    <3> QED
      BY <3>2, Zenon DEF Data, Contents
  <2>4. Contents'
    BY <1>14, <2>1, <2>3, Zenon DEF ClearLog, ClearHead, Data, Contents
  <2> QED
    BY <2>2, <2>4, Zenon DEF Data
<1>15. ASSUME NEW p \in Procs, FinishCommit(p) PROVE Data'
  <2>1. \A q \in Procs : pc'[q] \notin InCommit /\ pc[q] \notin InCommit \ {"finish"}
    BY <1>15, Zenon DEF FinishCommit, Wakeup, Control, Counts, TypeOK
  <2>2. Headers'
    BY <1>15, <2>1, Zenon DEF FinishCommit, Data, Headers
  <2>3. Contents'
    BY <1>15, <2>1, Zenon DEF FinishCommit, Data, Contents
  <2> QED
    BY <2>2, <2>3, Zenon DEF Data
<1> QED
  BY <1>1, <1>2, <1>3, <1>4, <1>5, <1>6, <1>7, <1>8, <1>9, <1>10, <1>11, <1>12,
     <1>13, <1>14, <1>15, Zenon DEF Next, Recover, Commit

-----------------------------------------------------------------------------
\* Whoever sleeps in begin_op() keeps a reason to, or is woken by the step that
\* takes the reason away.
LEMMA SleepStep ==
  ASSUME IInv, SleepersHaveReason, Next
  PROVE  SleepersHaveReason'
<1> USE LogConstants DEF IInv, Up, InOp, InCommit, durable
<1>0. /\ lh \in Seq(Blocks) /\ Len(lh) \in Nat /\ outstanding \in Nat
      /\ MAXOPBLOCKS \in Nat /\ LOGSIZE \in Nat
  BY DEF TypeOK
<1>1. CASE Crash
  BY <1>1, Zenon DEF Crash, SleepersHaveReason
<1>2. CASE Recover
  BY <1>2, Zenon DEF Recover, ReadHead, RecoverInstall, RecoverClear, SleepersHaveReason,
              Control, Counts
<1>3. ASSUME NEW p \in Procs, BeginOp(p) PROVE SleepersHaveReason'
  <2>1. \A q \in Procs : pc'[q] = "asleep" => pc[q] = "asleep"
    BY <1>3, Zenon DEF BeginOp, TypeOK
  <2> SUFFICES ASSUME \E q \in Procs : pc[q] = "asleep"
               PROVE  NoSpace' /\ outstanding' > 0
    BY <2>1, Zenon DEF SleepersHaveReason
  <2>2. Len(lh) + (outstanding + 1) * MAXOPBLOCKS > LOGSIZE
    BY <1>3, Zenon DEF SleepersHaveReason, BeginOp, MustWait, NoSpace
  <2> QED
    BY <1>3, <2>2, Zenon DEF BeginOp, MustWait, NoSpace
<1>4. ASSUME NEW p \in Procs, BeginOpSleep(p) PROVE SleepersHaveReason'
  <2>1. CASE committing
    BY <1>4, <2>1, Zenon DEF BeginOpSleep, SleepersHaveReason
  <2>2. CASE ~committing /\ NoSpace
    <3>1. outstanding # 0
      <4> SUFFICES ASSUME outstanding = 0 PROVE FALSE
        BY Zenon
      <4>1. Active = {}
        BY ActiveFinite, FS_EmptySet, Zenon DEF Control, Counts
      <4>2. lh = <<>>
        BY <1>4, <2>2, <4>1, Zenon DEF BeginOpSleep, Control, Loops
      <4> QED
        BY <2>2, <4>2 DEF NoSpace
    <3>2. NoSpace'
      BY <1>4, <2>2, Zenon DEF BeginOpSleep, NoSpace
    <3> QED
      BY <1>0, <1>4, <3>1, <3>2 DEF BeginOpSleep, SleepersHaveReason
  <2> QED
    BY <1>4, <2>1, <2>2, Zenon DEF BeginOpSleep, MustWait
<1>5. ASSUME NEW p \in Procs, NEW b \in Blocks, NEW v \in Values, Modify(p, b, v)
      PROVE  SleepersHaveReason'
  BY <1>5, Zenon DEF Modify, SleepersHaveReason, NoSpace, TypeOK
<1>6. ASSUME NEW p \in Procs, LogWriteCheck(p) PROVE SleepersHaveReason'
  BY <1>6, Zenon DEF LogWriteCheck, SleepersHaveReason, NoSpace, TypeOK
<1>7. ASSUME NEW p \in Procs, LogWrite(p) PROVE SleepersHaveReason'
  <2>1. \A q \in Procs : pc'[q] = "asleep" => pc[q] = "asleep"
    BY <1>7, Zenon DEF LogWrite, TypeOK
  <2>2. Len(lh') \in Nat /\ Len(lh') >= Len(lh)
    BY <1>0, <1>7, LoggedAppend DEF LogWrite, TypeOK
  <2>5. outstanding' = outstanding /\ committing' = committing
    BY <1>7, Zenon DEF LogWrite
  <2> DEFINE need == (outstanding + 1) * MAXOPBLOCKS
  <2>3. /\ need \in Int
        /\ NoSpace <=> Len(lh) + need > LOGSIZE
        /\ NoSpace' <=> Len(lh') + need > LOGSIZE
    BY <1>0, <2>5 DEF NoSpace
  <2> HIDE DEF need
  <2>4. NoSpace => NoSpace'
    BY <1>0, <2>2, <2>3
  <2> QED
    BY <2>1, <2>4, <2>5, Zenon DEF SleepersHaveReason
<1>8. ASSUME NEW p \in Procs, EndOp(p) PROVE SleepersHaveReason'
  <2>1. CASE outstanding = 1
    BY <1>8, <2>1, Zenon DEF EndOp, SleepersHaveReason
  <2>2. CASE outstanding # 1
    BY <1>8, <2>2, Zenon DEF EndOp, Wakeup, SleepersHaveReason, TypeOK
  <2> QED
    BY <2>1, <2>2, Zenon
<1>9. ASSUME NEW p \in Procs, Commit(p) PROVE SleepersHaveReason'
  <2>1. CASE FinishCommit(p)
    BY <2>1, Zenon DEF FinishCommit, Wakeup, SleepersHaveReason, TypeOK
  <2>2. CASE ~FinishCommit(p)
    <3>1. committing'
      BY <1>9, <2>2, Zenon DEF Commit, WriteLog, WriteHead, InstallTrans, ClearLog, Control, Counts
    <3> QED
      BY <3>1, Zenon DEF SleepersHaveReason
  <2> QED
    BY <2>1, <2>2, Zenon
<1> QED
  BY <1>1, <1>2, <1>3, <1>4, <1>5, <1>6, <1>7, <1>8, <1>9, Zenon DEF Next

\* A step that changes nothing keeps the invariant.
LEMMA StutterStep ==
  ASSUME IInv, SleepersHaveReason, UNCHANGED vars
  PROVE  IInv' /\ SleepersHaveReason'
<1> USE DEF vars, IInv
<1>1. TypeOK'
  BY Zenon DEF TypeOK
<1>2. Control'
  BY Zenon DEF Control, Counts, Buffers, Loops, Active
<1>3. Space'
  BY Zenon DEF Space, Reserved, Active, Logged
<1>4. Headers'
  BY DEF Data, Headers, NoDup
<1>5. Contents'
  BY Zenon DEF Data, Contents, Logged
<1>6. SleepersHaveReason'
  BY Zenon DEF SleepersHaveReason, NoSpace
<1> QED
  BY <1>1, <1>2, <1>3, <1>4, <1>5, <1>6, Zenon DEF Data

\* The inductive invariant, and that no wakeup is lost, hold in every
\* reachable state.
THEOREM Invariance ==
  ASSUME OpsLeaveRoom
  PROVE  Spec => [](IInv /\ SleepersHaveReason)
<1>1. Init => IInv /\ SleepersHaveReason
  BY InitInv, Zenon DEF Init, SleepersHaveReason
<1>2. IInv /\ SleepersHaveReason /\ [Next]_vars => (IInv /\ SleepersHaveReason)'
  BY ControlStep, SpaceStep, DataStep, SleepStep, StutterStep, Zenon DEF IInv
<1> QED
  BY <1>1, <1>2, PTL DEF Spec

-----------------------------------------------------------------------------
(* What the invariant gives *)

\* When no call is in progress and no commit runs, memory, the home blocks and
\* what a crash recovers agree.
LEMMA QuietState ==
  ASSUME IInv
  PROVE  DurableWhenQuiet
<1> SUFFICES ASSUME boot = "up", ~committing, outstanding = 0
             PROVE  cache = disk /\ Recovered = disk
  BY Zenon DEF DurableWhenQuiet
<1> USE DEF IInv
<1>1. Active = {}
  BY ActiveFinite, FS_EmptySet, Zenon DEF Control, Counts
<1>2. lh = <<>> /\ \A p \in Procs : pc[p] \notin InCommit
  BY <1>1, Zenon DEF Control, Counts, Loops
<1>3. dhead = <<>>
  BY <1>2, Zenon DEF Data, Headers, InCommit
<1>4. \A p \in Procs : held[p] = {}
  BY <1>1, Zenon DEF Control, Buffers, Active, InOp
<1>5. cache = disk
  BY <1>2, <1>4 DEF Data, Contents, Logged, TypeOK
<1>6. Recovered = disk
  BY <1>3 DEF Recovered, Logged, TypeOK
<1> QED
  BY <1>5, <1>6, Zenon

\* Every variable keeps its type.
THEOREM TypeCorrect ==
  ASSUME OpsLeaveRoom
  PROVE  Spec => []TypeOK
BY Invariance, PTL DEF IInv

\* begin_op()'s reservation is enough: log_write() never finds the log full and
\* end_op() never finds a commit in progress.
THEOREM PanicFree ==
  ASSUME OpsLeaveRoom
  PROVE  Spec => []NoPanic
<1>1. IInv => NoPanic
  BY Zenon DEF IInv, Control, Counts, NoPanic
<1> QED
  BY <1>1, Invariance, PTL

\* A transaction never outgrows the blocks the log has on disk.
THEOREM TransactionFits ==
  ASSUME OpsLeaveRoom
  PROVE  Spec => []LogFits
<1>1. IInv => LogFits
  BY Zenon DEF IInv, Space, LogFits
<1> QED
  BY <1>1, Invariance, PTL

\* A commit runs alone: no call is in progress and no buffer is locked.
THEOREM QuietCommit ==
  ASSUME OpsLeaveRoom
  PROVE  Spec => []CommitIsQuiet
<1>1. IInv => CommitIsQuiet
  <2> SUFFICES ASSUME IInv, NEW p \in Procs, pc[p] \in InCommit
               PROVE  /\ committing
                      /\ outstanding = 0
                      /\ \A q \in Procs \ {p} : pc[q] \notin InOp \cup InCommit
                      /\ \A q \in Procs : held[q] = {}
    BY Zenon DEF CommitIsQuiet
  <2> USE DEF IInv
  <2>1. committing /\ Active = {}
    BY Zenon DEF Control, Counts
  <2>2. outstanding = 0
    BY <2>1, FS_EmptySet, Zenon DEF Control, Counts
  <2>3. \A q \in Procs \ {p} : pc[q] \notin InOp \cup InCommit
    BY <2>1, Zenon DEF Control, Counts, Active
  <2>4. \A q \in Procs : held[q] = {}
    BY <2>1, Zenon DEF Control, Buffers, Active, InOp
  <2> QED
    BY <2>1, <2>2, <2>3, <2>4, Zenon
<1> QED
  BY <1>1, Invariance, PTL

\* Whoever sleeps in begin_op() still waits for a commit or an end_op() that
\* will wake it.
THEOREM NoLostWakeup ==
  ASSUME OpsLeaveRoom
  PROVE  Spec => []SleepersHaveReason
BY Invariance, PTL

\* What finished calls wrote survives a crash once the last one has committed.
THEOREM Durability ==
  ASSUME OpsLeaveRoom
  PROVE  Spec => []DurableWhenQuiet
BY QuietState, Invariance, PTL


-----------------------------------------------------------------------------
(* The commit point and the refinement *)

\* What a crash recovers, block by block.
RecoveredIsLog ==
  /\ \A i \in 1 .. Len(dhead) : Recovered[dhead[i]] = dlog[i]
  /\ \A b \in Blocks : b \notin Logged(dhead) => Recovered[b] = disk[b]
  /\ Recovered \in [Blocks -> Values]

\* The invariant determines what a crash recovers.
LEMMA RecoveredBlock == IInv => RecoveredIsLog
<1> SUFFICES ASSUME IInv PROVE RecoveredIsLog
  BY Zenon
<1> USE DEF IInv, RecoveredIsLog
<1>1. dhead \in Seq(Blocks) /\ NoDup(dhead) /\ Len(dhead) \in Nat
  BY DEF TypeOK, Data, Headers
<1>2. ASSUME NEW i \in 1 .. Len(dhead)
      PROVE  Recovered[dhead[i]] = dlog[i]
  <2>1. dhead[i] \in Blocks /\ dhead[i] \in Logged(dhead)
    BY <1>1, SMTT(60) DEF Logged
  <2>2. (CHOOSE j \in 1 .. Len(dhead) : dhead[j] = dhead[i]) = i
    BY <1>1, Zenon DEF NoDup
  <2> QED
    BY <2>1, <2>2, Zenon DEF Recovered
<1>3. ASSUME NEW b \in Blocks
      PROVE  /\ b \notin Logged(dhead) => Recovered[b] = disk[b]
             /\ Recovered[b] \in Values
  <2>1. CASE b \in Logged(dhead)
    <3>1. PICK i \in 1 .. Len(dhead) : b = dhead[i]
      BY <2>1, Zenon DEF Logged
    <3>2. i \in LogSlots
      BY <1>1, LogConstants DEF LogSlots, Space
    <3> QED
      BY <1>2, <2>1, <3>1, <3>2, Zenon DEF TypeOK
  <2>2. CASE b \notin Logged(dhead)
    BY <2>2, Zenon DEF Recovered, TypeOK
  <2> QED
    BY <2>1, <2>2, Zenon
<1>4. Recovered = [b \in Blocks |-> Recovered[b]]
  BY SMTT(60) DEF Recovered
<1> QED
  BY <1>2, <1>3, <1>4, Zenon

\* What a crash recovers is a function of the disk.
LEMMA DurableSame ==
  ASSUME UNCHANGED durable
  PROVE  Recovered' = Recovered
BY DEF durable, Recovered, Logged

\* Installing a block of the log does not change what a crash recovers.
LEMMA InstallKeeps ==
  ASSUME IInv, dhead = lh, tail < Len(lh), InstallBlock, UNCHANGED <<dlog, dhead>>
  PROVE  Recovered' = Recovered
<1> USE DEF IInv
<1>1. lh \in Seq(Blocks) /\ tail + 1 \in 1 .. Len(lh)
  BY DEF TypeOK
<1>2. lh[tail + 1] \in Logged(dhead)
  BY <1>1, Zenon DEF Logged
<1>3. Logged(dhead)' = Logged(dhead)
  BY Zenon DEF Logged
<1>4. \A b \in Blocks : b \notin Logged(dhead) => disk'[b] = disk[b]
  BY <1>2, Zenon DEF InstallBlock, TypeOK
<1> QED
  BY <1>3, <1>4 DEF Recovered

\* Erasing a log that is installed does not change what a crash recovers.
LEMMA ClearKeeps ==
  ASSUME IInv, dhead = lh, ClearHead, UNCHANGED <<disk, dlog>>,
         \A i \in 1 .. Len(lh) : disk[lh[i]] = dlog[i]
  PROVE  Recovered' = Recovered /\ Recovered = disk
<1> USE DEF IInv
<1>1. \A b \in Blocks : Recovered[b] = disk[b]
  BY RecoveredBlock DEF Logged, RecoveredIsLog
<1>2. Recovered = disk
  BY <1>1, RecoveredBlock DEF TypeOK, RecoveredIsLog
<1>3. Recovered' = disk
  BY DEF ClearHead, Recovered, Logged, TypeOK
<1> QED
  BY <1>2, <1>3, Zenon

\* Writing the header makes the whole transaction what a crash recovers.
LEMMA HeadCommits ==
  ASSUME IInv, IInv', NEW p \in Procs, WriteHead(p)
  PROVE  Recovered' = cache /\ Active = {} /\ boot = "up"
<1> USE DEF IInv
<1>1. Active = {} /\ boot = "up" /\ \A q \in Procs : held[q] = {}
  BY DEF WriteHead, Up, InCommit, InOp, Control, Counts, Buffers, Active
<1>2. \A i \in 1 .. Len(lh) : dlog[i] = cache[lh[i]]
  BY Zenon DEF WriteHead, Data, Contents
<1>3. dhead' = lh /\ dlog' = dlog /\ disk' = disk
  BY Zenon DEF WriteHead
<1>4. /\ \A i \in 1 .. Len(lh) : Recovered'[lh[i]] = dlog[i]
      /\ \A b \in Blocks : b \notin Logged(lh) => Recovered'[b] = disk[b]
      /\ Recovered' \in [Blocks -> Values]
  <2>1. RecoveredIsLog'
    BY RecoveredBlock, PTL
  <2> QED
    BY <1>3, <2>1, Zenon DEF Logged, RecoveredIsLog
<1>5. \A b \in Blocks : Recovered'[b] = cache[b]
  BY <1>1, <1>2, <1>4, SMTT(60) DEF Logged, Data, Contents
<1> QED
  BY <1>1, <1>4, <1>5 DEF TypeOK

\* What a crash recovers changes in WriteHead only.
LEMMA RecoveredStep ==
  ASSUME IInv, IInv', Next
  PROVE  \/ Recovered' = Recovered
         \/ \E p \in Procs : WriteHead(p)
<1> USE DEF IInv
<1>2. CASE Crash
  BY <1>2, DurableSame, Zenon DEF Crash
<1>3. CASE Recover
  <2>1. CASE ReadHead
    BY <2>1, DurableSame, Zenon DEF ReadHead
  <2>2. CASE RecoverInstall
    BY <2>2, InstallKeeps, Zenon DEF RecoverInstall, Data, Headers, Control, Loops
  <2>3. CASE RecoverClear
    BY <2>3, ClearKeeps, Zenon DEF RecoverClear, Data, Headers, Contents
  <2> QED
    BY <1>3, <2>1, <2>2, <2>3, Zenon DEF Recover
<1>4. ASSUME NEW p \in Procs,
             BeginOp(p) \/ BeginOpSleep(p) \/ LogWriteCheck(p) \/ LogWrite(p) \/ EndOp(p)
      PROVE  Recovered' = Recovered
  <2>1. UNCHANGED durable
    BY <1>4, Zenon DEF BeginOp, BeginOpSleep, LogWriteCheck, LogWrite, EndOp
  <2> QED
    BY <2>1, DurableSame, Zenon
<1>5. ASSUME NEW p \in Procs, NEW b \in Blocks, NEW v \in Values, Modify(p, b, v)
      PROVE  Recovered' = Recovered
  BY <1>5, DurableSame, Zenon DEF Modify
<1>6. ASSUME NEW p \in Procs, Commit(p)
      PROVE  Recovered' = Recovered \/ WriteHead(p)
  <2>1. CASE WriteLog(p)
    <3>1. dhead = <<>>
      BY <2>1, Zenon DEF WriteLog, Up, InCommit, Control, Counts, Data, Headers
    <3>2. Logged(dhead) = {}
      BY <3>1 DEF Logged
    <3>3. Recovered = [b \in Blocks |-> disk[b]]
      BY <3>2, Zenon DEF Recovered
    <3>4. dhead' = dhead /\ disk' = disk
      BY <2>1, Zenon DEF WriteLog
    <3>5. Logged(dhead)' = {}
      BY <3>1, <3>4 DEF Logged
    <3>6. Recovered' = [b \in Blocks |-> disk[b]]
      BY <3>4, <3>5, Zenon DEF Recovered
    <3> QED
      BY <3>3, <3>6, Zenon
  <2>2. CASE InstallTrans(p)
    BY <2>2, InstallKeeps, Zenon DEF InstallTrans, Data, Headers, Control, Loops
  <2>3. CASE ClearLog(p)
    BY <2>3, ClearKeeps, Zenon DEF ClearLog, Data, Headers, Contents
  <2>4. CASE FinishCommit(p)
    BY <2>4, DurableSame, Zenon DEF FinishCommit
  <2> QED
    BY <1>6, <2>1, <2>2, <2>3, <2>4, Zenon DEF Commit
<1> QED
  BY <1>2, <1>3, <1>4, <1>5, <1>6, Zenon DEF Next

\* commit()'s write_head() is the only step that changes what a crash recovers,
\* and it makes all of the transaction durable at once.
THEOREM CommitIsAtomic ==
  ASSUME OpsLeaveRoom
  PROVE  Spec => CommitPoint
<1>1. ASSUME IInv, IInv', [Next]_vars
      PROVE  [Recovered' # Recovered =>
                (\E p \in Procs : pc[p] = "write_head") /\ Recovered' = cache]_vars
  <2>1. CASE UNCHANGED vars
    BY <2>1, Zenon
  <2>2. CASE Next
    BY <1>1, <2>2, RecoveredStep, HeadCommits, Zenon DEF WriteHead
  <2> QED
    BY <1>1, <2>1, <2>2, Zenon
<1> QED
  BY <1>1, Invariance, PTL DEF Spec, CommitPoint

\* The contents the abstract disk shows to the system calls.
Mem == IF boot = "up" THEN cache ELSE Recovered

\* Every step of the log is a step of the abstract disk or changes nothing of it.
LEMMA RefinesStep ==
  ASSUME IInv, IInv', Next
  PROVE  [Atomic!Next]_(Atomic!vars)
<1> USE DEF IInv, Up
<1> DEFINE Same == Mem' = Mem /\ Recovered' = Recovered /\ Active' = Active
<1>0. Same => [Atomic!Next]_(Atomic!vars)
  BY Zenon DEF Mem, Atomic!vars
<1> HIDE DEF Same
<1>1. CASE Crash
  <2>1. Recovered' = Recovered
    BY <1>1, DurableSame, Zenon DEF Crash
  <2>2. Active' = {} /\ boot' # "up"
    BY <1>1, Zenon DEF Crash, Active, InOp
  <2>3. Atomic!Crash
    BY <2>1, <2>2, Zenon DEF Atomic!Crash
  <2> QED
    BY <2>3, Zenon DEF Atomic!Next
<1>2. CASE Recover
  <2>1. Active' = Active /\ Recovered' = Recovered
    <3>1. Active' = Active
      BY <1>2, Zenon DEF Recover, ReadHead, RecoverInstall, RecoverClear, Active
    <3>2. ~ \E p \in Procs : WriteHead(p)
      BY <1>2, Zenon DEF Recover, ReadHead, RecoverInstall, RecoverClear, WriteHead
    <3> QED
      BY <3>1, <3>2, RecoveredStep, Zenon
  <2>2. CASE RecoverClear
    <3>1. Recovered = disk /\ cache = disk
      BY <2>2, ClearKeeps, Zenon DEF RecoverClear, Data, Headers, Contents
    <3> QED
      BY <1>0, <2>1, <2>2, <3>1, Zenon DEF RecoverClear, Same, Mem
  <2>3. CASE ReadHead \/ RecoverInstall
    BY <1>0, <2>1, <2>3, Zenon DEF ReadHead, RecoverInstall, Same, Mem
  <2> QED
    BY <1>2, <2>2, <2>3, Zenon DEF Recover
<1>3. ASSUME NEW p \in Procs, BeginOp(p) PROVE Atomic!Next
  <2>1. Recovered' = Recovered
    BY <1>3, DurableSame, Zenon DEF BeginOp
  <2>2. p \in Procs \ Active /\ Active' = Active \cup {p}
    BY <1>3 DEF BeginOp, Active, InOp, TypeOK
  <2>3. Atomic!Begin(p)
    BY <1>3, <2>1, <2>2, Zenon DEF BeginOp, Atomic!Begin
  <2> QED
    BY <2>3, Zenon DEF Atomic!Next
<1>4. ASSUME NEW p \in Procs, BeginOpSleep(p) \/ LogWriteCheck(p) \/ LogWrite(p) PROVE Same
  <2>1. Recovered' = Recovered
    <3>1. UNCHANGED durable
      BY <1>4, Zenon DEF BeginOpSleep, LogWriteCheck, LogWrite
    <3> QED
      BY <3>1, DurableSame, Zenon
  <2>2. Active' = Active
    BY <1>4, Zenon DEF BeginOpSleep, LogWriteCheck, LogWrite, Active, InOp, TypeOK
  <2>3. cache' = cache /\ boot' = boot
    BY <1>4, Zenon DEF BeginOpSleep, LogWriteCheck, LogWrite
  <2> QED
    BY <2>1, <2>2, <2>3, Zenon DEF Same, Mem
<1>5. ASSUME NEW p \in Procs, NEW b \in Blocks, NEW v \in Values, Modify(p, b, v)
      PROVE  Atomic!Next
  <2>1. Recovered' = Recovered
    BY <1>5, DurableSame, Zenon DEF Modify
  <2>2. p \in Active /\ Active' = Active
    BY <1>5, Zenon DEF Modify, Active, InOp, TypeOK
  <2>3. Atomic!Write(p, b, v)
    BY <1>5, <2>1, <2>2, Zenon DEF Modify, Atomic!Write
  <2> QED
    BY <2>3, Zenon DEF Atomic!Next
<1>6. ASSUME NEW p \in Procs, EndOp(p) PROVE Atomic!Next
  <2>1. Recovered' = Recovered
    BY <1>6, DurableSame, Zenon DEF EndOp
  <2>2. p \in Active /\ Active' = Active \ {p}
    BY <1>6 DEF EndOp, Wakeup, CommitEntry, Active, InOp, TypeOK
  <2>3. Atomic!End(p)
    BY <1>6, <2>1, <2>2, Zenon DEF EndOp, Atomic!End
  <2> QED
    BY <2>3, Zenon DEF Atomic!Next
<1>7. ASSUME NEW p \in Procs, WriteHead(p) PROVE Atomic!Next
  <2>1. Recovered' = cache /\ Active = {} /\ boot = "up"
    BY <1>7, HeadCommits, Zenon
  <2>2. Active' = Active
    BY <1>7, Zenon DEF WriteHead, Active, InOp, TypeOK
  <2>3. Atomic!Commit
    BY <1>7, <2>1, <2>2, Zenon DEF WriteHead, Atomic!Commit
  <2> QED
    BY <2>3, Zenon DEF Atomic!Next
<1>8. ASSUME NEW p \in Procs, Commit(p), ~WriteHead(p) PROVE Same
  <2>1. Active' = Active
    BY <1>8, Zenon DEF Commit, WriteLog, InstallTrans, ClearLog, FinishCommit, Wakeup, Active,
                InOp, TypeOK
  <2>2. Recovered' = Recovered
    <3>1. ASSUME NEW q \in Procs, WriteHead(q) PROVE FALSE
      <4>1. q = p
        BY <1>8, <3>1, Zenon DEF WriteHead, Commit, WriteLog, InstallTrans, ClearLog, FinishCommit,
                          InCommit, Control, Counts
      <4> QED
        BY <1>8, <3>1, <4>1, Zenon
    <3> QED
      BY <3>1, RecoveredStep, Zenon
  <2>3. boot = "up" /\ boot' = "up"
    BY <1>8, Zenon DEF Commit, WriteLog, InstallTrans, ClearLog, FinishCommit
  <2>4. cache' = cache
    <3>1. CASE InstallTrans(p)
      <4>1. pc[p] = "install" /\ InstallBlock
        BY <3>1, Zenon DEF InstallTrans
      <4>2. tail < Len(lh)
        BY <4>1, Zenon DEF Control, Loops
      <4>3. tail + 1 \in 1 .. Len(lh)
        BY <4>2 DEF TypeOK
      <4>4. dlog[tail + 1] = cache[lh[tail + 1]]
        BY <4>1, <4>3, Zenon DEF Data, Contents
      <4>5. lh[tail + 1] \in Blocks
        BY <4>3 DEF TypeOK
      <4> QED
        BY <4>1, <4>4, <4>5, Zenon DEF InstallBlock, TypeOK
    <3>2. CASE ~InstallTrans(p)
      BY <1>8, <3>2, Zenon DEF Commit, WriteLog, ClearLog, FinishCommit
    <3> QED
      BY <3>1, <3>2, Zenon
  <2> QED
    BY <2>1, <2>2, <2>3, <2>4, Zenon DEF Same, Mem
<1> QED
  BY <1>0, <1>1, <1>2, <1>3, <1>4, <1>5, <1>6, <1>7, <1>8, Zenon DEF Next

\* The log, with crashes at any moment and during recovery, implements a disk
\* whose transactions are durable all together or not at all.
THEOREM ImplementsAtomicDisk ==
  ASSUME OpsLeaveRoom
  PROVE  Spec => AtomicSpec
<1>1. Init => Atomic!Init
  BY DEF Init, Atomic!Init, Recovered, Logged, Active, InOp
<1>2. ASSUME IInv, IInv', [Next]_vars PROVE [Atomic!Next]_(Atomic!vars)
  <2>1. CASE UNCHANGED vars
    BY <2>1, SMTT(60) DEF vars, Atomic!vars, Recovered, Logged, Active
  <2> QED
    BY <1>2, <2>1, RefinesStep, Zenon
<1> QED
  BY <1>1, <1>2, Invariance, PTL DEF Spec, AtomicSpec, Atomic!Spec

=============================================================================
