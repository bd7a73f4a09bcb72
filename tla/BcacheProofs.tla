---------------------------- MODULE BcacheProofs ----------------------------
(***************************************************************************)
(* Theorems about Bcache, for any sets of processes, blocks and values and *)
(* any number of buffers: a process has the buffer it asked for, no wakeup *)
(* is lost, iderw() is called for a reason, and the cache implements a     *)
(* store of blocks.                                                        *)
(***************************************************************************)
EXTENDS Bcache, FiniteSetTheorems, TLAPS

Locations ==
  {"idle", "lock", "locksleep", "bread", "use", "iderw", "iosleep", "iowoken", "deref",
   "nobufs"}

\* Where a process holds the lock of its buffer.
Locked == {"bread", "use", "iderw", "iosleep", "iowoken"}

BufType ==
  [blockno : Blocks \cup {None}, valid : BOOLEAN, dirty : BOOLEAN, refcnt : Nat,
   data : Values]

CmdType ==
  [op : {"none", "read", "write"}, block : Blocks \cup {None},
   value : Values \cup {None}, done : BOOLEAN]

\* The types of the variables.
TypeOK ==
  /\ buf \in [Bufs -> BufType]
  /\ lru \in Bijection(1 .. Cardinality(Bufs), Bufs)
  /\ owner \in [Bufs -> Procs \cup {Nobody}]
  /\ idequeue \in Seq(Bufs)
  /\ cmd \in CmdType
  /\ disk \in [Blocks -> Values]
  /\ pc \in [Procs -> Locations]
  /\ mine \in [Procs -> Bufs \cup {None}]
  /\ want \in [Procs -> Blocks \cup {None}]

Having(b) == {p \in Procs : mine[p] = b}

\* A process has a buffer from bget() to the end of brelse(), of the block it wants;
\* no block is in two buffers, and refcnt counts the processes.
Refs ==
  /\ \A p \in Procs : mine[p] = None <=> pc[p] \in {"idle", "nobufs"}
  /\ \A p \in Procs : mine[p] # None =>
       want[p] \in Blocks /\ buf[mine[p]].blockno = want[p]
  /\ \A b, c \in Bufs :
       buf[b].blockno = buf[c].blockno /\ buf[b].blockno # None => b = c
  /\ \A b \in Bufs : buf[b].refcnt = Cardinality(Having(b))

\* Who holds the lock of a buffer, and that a sleeper will be woken.
Locks ==
  /\ \A p \in Procs, b \in Bufs :
       owner[b] = p <=> mine[p] = b /\ pc[p] \in Locked
  /\ \A p \in Procs : pc[p] = "locksleep" => owner[mine[p]] # Nobody

\* What B_VALID and B_DIRTY are at each place.
Flags ==
  /\ \A b \in Bufs : /\ buf[b].dirty => buf[b].valid
                     /\ buf[b].valid => buf[b].blockno # None
  /\ \A p \in Procs : /\ pc[p] = "use" => buf[mine[p]].valid
                      /\ pc[p] = "iowoken" => Synced(mine[p])
                      /\ pc[p] \in {"iderw", "iosleep"} => ~Synced(mine[p])

\* The queue has the buffers that somebody sleeps on in iderw(), once.
Queued ==
  /\ IsInjective(idequeue)
  /\ \A p \in Procs : pc[p] = "iosleep" => mine[p] \in Range(idequeue)
  /\ \A b \in Range(idequeue) : \E p \in Procs : mine[p] = b /\ pc[p] = "iosleep"

\* The disk works for the head of the queue, and has done what it says it has.
Commanded ==
  /\ idequeue = <<>> => cmd = Idle
  /\ idequeue # <<>> =>
       LET b == Head(idequeue) IN
       /\ cmd.op = IF buf[b].dirty THEN "write" ELSE "read"
       /\ cmd.block = buf[b].blockno
       /\ cmd.op = "write" => cmd.value = buf[b].data
       /\ cmd.done => cmd.value = disk[cmd.block]

IInv == TypeOK /\ Refs /\ Locks /\ Flags /\ Queued /\ Commanded

\* What is valid and not dirty is on the disk.
Clean == \A b \in Bufs : Synced(b) => buf[b].data = disk[buf[b].blockno]

-----------------------------------------------------------------------------
(* Numbers, lists and counts *)

\* A set of positions has a first one, and a last one.
LEMMA MinIsIn ==
  ASSUME NEW S, S \subseteq Nat, S # {}
  PROVE  Min(S) \in S /\ \A j \in S : Min(S) <= j
<1> DEFINE Less == OpToRel(<, Nat)
<1>1. \A i, j \in Nat : i < j => <<i, j>> \in Less
  BY Zenon DEF OpToRel
<1>2. IsWellFoundedOn(Less, Nat)
  BY NatLessThanWellFounded, Zenon
<1> HIDE DEF Less
<1>3. PICK i \in S : \A j \in S : ~ (<<j, i>> \in Less)
  BY <1>2, WFMin, Zenon
<1>4. \A j \in S : ~ (j < i)
  BY <1>1, <1>3, Zenon
<1>5. \A j \in S : i =< j
  BY <1>4
<1> QED
  BY <1>5, Zenon DEF Min

LEMMA MaxIsIn ==
  ASSUME NEW n \in Nat, NEW S, S \subseteq 1 .. n, S # {}
  PROVE  Max(S) \in S
<1> DEFINE T == {n - i : i \in S}
<1>1. T \subseteq Nat
  OBVIOUS
<1>2. T # {} /\ \A j \in S : n - j \in T
  BY Zenon
<1>3. PICK i \in S : Min(T) = n - i
  BY <1>1, <1>2, MinIsIn, Zenon
<1> HIDE DEF T
<1>4. \A j \in S : n - i <= n - j
  BY <1>1, <1>2, <1>3, MinIsIn, Zenon
<1>5. \A j \in S : i >= j
  BY <1>4
<1> QED
  BY <1>5, Zenon DEF Max

\* The buffers of the list are all buffers.
LEMMA ListFacts ==
  ASSUME TypeOK
  PROVE  /\ Cardinality(Bufs) \in Nat
         /\ DOMAIN lru = 1 .. Cardinality(Bufs)
         /\ \A i \in DOMAIN lru : lru[i] \in Bufs
         /\ \A b \in Bufs : \E i \in DOMAIN lru : lru[i] = b
         /\ \A i, j \in DOMAIN lru : lru[i] = lru[j] => i = j
<1>1. Cardinality(Bufs) \in Nat
  BY BcacheConstants, FS_CardinalityType, Zenon
<1> QED
  BY <1>1, Zenon DEF TypeOK, Bijection, Injection, Surjection, IsInjective

\* What the first loop of bget() finds, and what the second.
LEMMA CachedFound ==
  ASSUME TypeOK, NEW n, Cached(n) # {}
  PROVE  lru[Min(Cached(n))] \in Bufs /\ buf[lru[Min(Cached(n))]].blockno = n
<1>1. Cached(n) \subseteq DOMAIN lru /\ Cached(n) \subseteq Nat
  BY ListFacts DEF Cached
<1>2. Min(Cached(n)) \in Cached(n)
  BY <1>1, MinIsIn, Zenon
<1> QED
  BY <1>2, ListFacts, Zenon DEF Cached

LEMMA RecyclableFound ==
  ASSUME TypeOK, Recyclable # {}
  PROVE  lru[Max(Recyclable)] \in Bufs /\ Unused(lru[Max(Recyclable)])
<1>1. Cardinality(Bufs) \in Nat /\ Recyclable \subseteq 1 .. Cardinality(Bufs)
  BY ListFacts, Zenon DEF Recyclable
<1>2. Max(Recyclable) \in Recyclable
  BY <1>1, MaxIsIn, Zenon
<1> QED
  BY <1>2, ListFacts, Zenon DEF Recyclable

\* brelse() keeps every buffer in the list.
LEMMA ListKept ==
  ASSUME TypeOK, NEW b \in Bufs
  PROVE  MostRecent(b) \in Bijection(1 .. Cardinality(Bufs), Bufs)
<1> DEFINE at == CHOOSE i \in DOMAIN lru : lru[i] = b
           new == MostRecent(b)
           D == 1 .. Cardinality(Bufs)
<1>1. at \in D /\ lru[at] = b /\ Cardinality(Bufs) \in Nat
  BY ListFacts, Zenon
<1>2. new = [i \in D |-> IF i = 1 THEN b ELSE IF i <= at THEN lru[i - 1] ELSE lru[i]]
  BY ListFacts, Zenon DEF MostRecent
<1> HIDE DEF at, new
<1>3. new \in [D -> Bufs]
  BY <1>1, <1>2, ListFacts
<1>4. ASSUME NEW c \in Bufs
      PROVE  \E i \in D : new[i] = c
  <2>1. PICK j \in D : lru[j] = c
    BY ListFacts, Zenon
  <2>2. CASE j = at
    BY <1>1, <1>2, <2>1, <2>2
  <2>3. CASE j < at
    <3>1. j + 1 \in D /\ j + 1 # 1 /\ j + 1 <= at /\ j + 1 - 1 = j
      BY <1>1, <2>3
    <3>2. new[j + 1] = c
      BY <1>2, <2>1, <3>1
    <3> QED
      BY <3>1, <3>2, Zenon
  <2>4. CASE j > at
    <3>1. j # 1 /\ ~(j <= at)
      BY <1>1, <2>4
    <3> QED
      BY <1>2, <2>1, <3>1, Zenon
  <2> QED
    BY <1>1, <2>2, <2>3, <2>4
<1>5. new \in Surjection(D, Bufs)
  BY <1>3, <1>4, Zenon DEF Surjection
<1>6. IsFiniteSet(D) /\ Cardinality(D) = Cardinality(Bufs)
  BY <1>1, FS_Interval
<1>7. new \in Injection(D, Bufs)
  BY <1>5, <1>6, FS_SurjSameCardinalityImpliesInj, Zenon
<1> QED
  BY <1>5, <1>7, Zenon DEF Bijection, new

\* The queue when a buffer enters it, and when its head leaves.
LEMMA Entered ==
  ASSUME NEW q \in Seq(Bufs), IsInjective(q), NEW b \in Bufs, b \notin Range(q)
  PROVE  LET r == Append(q, b) IN
         /\ r \in Seq(Bufs) /\ IsInjective(r) /\ Range(r) = Range(q) \cup {b}
         /\ r # <<>> /\ Len(r) = Len(q) + 1
         /\ Head(r) = IF q = <<>> THEN b ELSE Head(q)
<1> DEFINE r == Append(q, b)
<1>1. /\ r \in Seq(Bufs) /\ Len(r) = Len(q) + 1 /\ Len(q) \in Nat
      /\ DOMAIN r = 1 .. Len(q) + 1 /\ DOMAIN q = 1 .. Len(q)
      /\ \A i \in 1 .. Len(q) : r[i] = q[i]
      /\ r[Len(q) + 1] = b
  OBVIOUS
<1> HIDE DEF r
<1>2. Range(r) = Range(q) \cup {b}
  <2>1. Range(r) \subseteq Range(q) \cup {b}
    BY <1>1 DEF Range
  <2>2. b \in Range(r)
    BY <1>1 DEF Range
  <2>3. Range(q) \subseteq Range(r)
    BY <1>1 DEF Range
  <2> QED
    BY <2>1, <2>2, <2>3, Zenon
<1>3. IsInjective(r)
  <2> SUFFICES ASSUME NEW i \in DOMAIN r, NEW j \in DOMAIN r, r[i] = r[j]
               PROVE  i = j
    BY Zenon DEF IsInjective
  <2>1. CASE i \in 1 .. Len(q) /\ j \in 1 .. Len(q)
    BY <1>1, <2>1, Zenon DEF IsInjective
  <2>2. CASE i \notin 1 .. Len(q) \/ j \notin 1 .. Len(q)
    <3>1. \A k \in 1 .. Len(q) : r[k] # b
      BY <1>1, Zenon DEF Range
    <3> QED
      BY <1>1, <2>2, <3>1
  <2> QED
    BY <2>1, <2>2, Zenon
<1>4. r # <<>> /\ Head(r) = IF q = <<>> THEN b ELSE Head(q)
  <2>1. r # <<>> /\ Head(r) = r[1]
    BY <1>1
  <2>2. CASE q = <<>>
    BY <1>1, <2>1, <2>2
  <2>3. CASE q # <<>>
    <3>1. Len(q) > 0 /\ Head(q) = q[1]
      BY <2>3
    <3> QED
      BY <1>1, <2>1, <2>3, <3>1
  <2> QED
    BY <2>2, <2>3, Zenon
<1> QED
  BY <1>1, <1>2, <1>3, <1>4, Zenon DEF r

LEMMA HeadLeft ==
  ASSUME NEW q \in Seq(Bufs), q # <<>>, IsInjective(q)
  PROVE  /\ Head(q) \in Bufs /\ Head(q) \in Range(q)
         /\ Tail(q) \in Seq(Bufs) /\ IsInjective(Tail(q))
         /\ Range(Tail(q)) = Range(q) \ {Head(q)}
<1>1. /\ Len(q) \in Nat \ {0} /\ DOMAIN q = 1 .. Len(q) /\ Head(q) = q[1]
      /\ Tail(q) \in Seq(Bufs) /\ DOMAIN Tail(q) = 1 .. Len(q) - 1
      /\ \A i \in 1 .. Len(q) - 1 : Tail(q)[i] = q[i + 1]
  OBVIOUS
<1>2. Head(q) \in Bufs /\ Head(q) \in Range(q)
  BY <1>1 DEF Range
<1>3. IsInjective(Tail(q))
  BY <1>1 DEF IsInjective
<1>4. Range(Tail(q)) \subseteq Range(q) \ {Head(q)}
  BY <1>1 DEF Range, IsInjective
<1>5. ASSUME NEW b \in Range(q) \ {Head(q)}
      PROVE  b \in Range(Tail(q))
  <2>1. PICK i \in DOMAIN q : q[i] = b
    BY Zenon DEF Range
  <2>2. i - 1 \in DOMAIN Tail(q) /\ Tail(q)[i - 1] = b
    BY <1>1, <1>5, <2>1
  <2> QED
    BY <2>2, Zenon DEF Range
<1> QED
  BY <1>1, <1>2, <1>3, <1>4, <1>5, Zenon

\* The processes that have a buffer, when p gets one and when it gives it back.
LEMMA Counted ==
  ASSUME NEW b \in Bufs, TypeOK
  PROVE  IsFiniteSet(Having(b)) /\ Cardinality(Having(b)) \in Nat
BY BcacheConstants, FS_Subset, FS_CardinalityType, Zenon DEF Having

LEMMA Taken ==
  ASSUME TypeOK, NEW p \in Procs, NEW b \in Bufs, mine[p] = None,
         mine' = [mine EXCEPT ![p] = b], NEW c \in Bufs
  PROVE  Cardinality(Having(c)') =
           IF c = b THEN Cardinality(Having(c)) + 1 ELSE Cardinality(Having(c))
<1>1. Having(c)' = IF c = b THEN Having(c) \cup {p} ELSE Having(c)
  BY BcacheConstants DEF Having, TypeOK
<1>2. p \notin Having(c)
  BY BcacheConstants, Zenon DEF Having
<1> QED
  BY <1>1, <1>2, Counted, FS_AddElement, Zenon

LEMMA Given ==
  ASSUME TypeOK, NEW p \in Procs, mine[p] \in Bufs,
         mine' = [mine EXCEPT ![p] = None], NEW c \in Bufs
  PROVE  Cardinality(Having(c)') =
           IF c = mine[p] THEN Cardinality(Having(c)) - 1 ELSE Cardinality(Having(c))
<1>1. Having(c)' = IF c = mine[p] THEN Having(c) \ {p} ELSE Having(c)
  BY BcacheConstants, Zenon DEF Having, TypeOK
<1>2. c = mine[p] => p \in Having(c)
  BY Zenon DEF Having
<1> QED
  BY <1>1, <1>2, Counted, FS_RemoveElement, Zenon

-----------------------------------------------------------------------------
(* The steps *)

\* The first state.
LEMMA InitInv == Init => IInv /\ Clean
<1> SUFFICES ASSUME Init PROVE IInv /\ Clean
  BY Zenon
<1> USE BcacheConstants
<1>1. PICK v \in Values : buf = [b \in Bufs |->
        [blockno |-> None, valid |-> FALSE, dirty |-> FALSE, refcnt |-> 0, data |-> v]]
  BY Zenon DEF Init
<1>2. TypeOK
  BY <1>1 DEF Init, TypeOK, BufType, CmdType, Idle, Locations
<1>3. Refs
  <2>1. \A b \in Bufs : Having(b) = {}
    BY Zenon DEF Init, Having
  <2> QED
    BY <1>1, <2>1, FS_EmptySet, Zenon DEF Init, Refs
<1>4. Locks
  BY Zenon DEF Init, Locks, Locked
<1>5. Flags
  BY <1>1, Zenon DEF Init, Flags, Synced
<1>6. Queued /\ Commanded
  BY DEF Init, Queued, Commanded, IsInjective, Range
<1>7. Clean
  BY <1>1, Zenon DEF Clean, Synced
<1> QED
  BY <1>2, <1>3, <1>4, <1>5, <1>6, <1>7, Zenon DEF IInv

\* A step that changes no reference and no count.
LEMMA CountsKept ==
  ASSUME Refs, mine' = mine, \A c \in Bufs : buf'[c].refcnt = buf[c].refcnt
  PROVE  \A c \in Bufs : buf'[c].refcnt = Cardinality(Having(c)')
<1>1. \A c \in Bufs : Having(c)' = Having(c)
  BY Zenon DEF Having
<1> QED
  BY <1>1, Zenon DEF Refs

\* The fields of a buffer that is written, that bread() fills, and whose count changes.
LEMMA Dirtied ==
  ASSUME NEW r \in BufType, NEW v \in Values
  PROVE  LET new == [r EXCEPT !.data = v, !.dirty = TRUE] IN
         /\ new \in BufType /\ new.data = v /\ new.dirty
         /\ new.blockno = r.blockno /\ new.refcnt = r.refcnt /\ new.valid = r.valid
BY Zenon DEF BufType

LEMMA Filled ==
  ASSUME NEW r \in BufType, NEW v \in Values
  PROVE  LET new == [r EXCEPT !.data = v, !.valid = TRUE, !.dirty = FALSE] IN
         /\ new \in BufType /\ new.data = v /\ new.valid /\ ~new.dirty
         /\ new.blockno = r.blockno /\ new.refcnt = r.refcnt
BY Zenon DEF BufType

LEMMA Recounted ==
  ASSUME NEW r \in BufType, NEW k \in Nat
  PROVE  LET new == [r EXCEPT !.refcnt = k] IN
         /\ new \in BufType /\ new.refcnt = k /\ new.blockno = r.blockno
         /\ new.valid = r.valid /\ new.dirty = r.dirty /\ new.data = r.data
BY Zenon DEF BufType

\* Who holds the lock of a buffer has it alone.
LEMMA Alone ==
  ASSUME IInv, NEW p \in Procs, pc[p] \in Locked
  PROVE  /\ mine[p] \in Bufs
         /\ \A q \in Procs \ {p} : mine[q] = mine[p] => pc[q] \notin Locked
         /\ pc[p] # "iosleep" => mine[p] \notin Range(idequeue)
<1>1. mine[p] \in Bufs
  BY Zenon DEF IInv, TypeOK, Refs, Locked
<1>2. \A q \in Procs \ {p} : mine[q] = mine[p] => pc[q] \notin Locked
  BY <1>1 DEF IInv, Locks
<1>3. pc[p] # "iosleep" => mine[p] \notin Range(idequeue)
  BY <1>1, <1>2 DEF IInv, Queued, Locked
<1> QED
  BY <1>1, <1>2, <1>3, Zenon

\* The head of the queue.
LEMMA HeadFacts ==
  ASSUME IInv, idequeue # <<>>
  PROVE  /\ Head(idequeue) \in Bufs /\ Head(idequeue) \in Range(idequeue)
         /\ buf[Head(idequeue)].blockno \in Blocks
<1>1. Head(idequeue) \in Bufs /\ Head(idequeue) \in Range(idequeue)
  BY HeadLeft, Zenon DEF IInv, TypeOK, Queued
<1>2. PICK q \in Procs : mine[q] = Head(idequeue) /\ pc[q] = "iosleep"
  BY <1>1, Zenon DEF IInv, Queued
<1> QED
  BY <1>1, <1>2, Zenon DEF IInv, Refs

\* A step that leaves buffers and driver alone, and nobody's use of them begins or ends.
LEMMA OthersKept ==
  ASSUME IInv, UNCHANGED <<buf, lru, idequeue, cmd, disk, mine, want>>,
         owner' \in [Bufs -> Procs \cup {Nobody}], pc' \in [Procs -> Locations],
         \A q \in Procs : /\ pc'[q] \in {"idle", "nobufs"} <=> pc[q] \in {"idle", "nobufs"}
                          /\ pc'[q] = "iosleep" <=> pc[q] = "iosleep"
  PROVE  TypeOK' /\ Refs' /\ Queued' /\ Commanded'
<1>1. TypeOK'
  BY Zenon DEF IInv, TypeOK
<1>2. Refs'
  BY Zenon DEF IInv, Refs, Having
<1>3. Queued'
  BY DEF IInv, Queued
<1>4. Commanded'
  BY Zenon DEF IInv, Commanded
<1> QED
  BY <1>1, <1>2, <1>3, <1>4, Zenon

\* acquiresleep() gets the lock, or sleeps.
LEMMA AcquireSleepStep ==
  ASSUME IInv, NEW p \in Procs, AcquireSleep(p)
  PROVE  IInv'
<1>1. mine[p] \in Bufs /\ pc[p] = "lock"
  BY Zenon DEF AcquireSleep, IInv, TypeOK, Refs
<1>2. CASE owner[mine[p]] = Nobody
  <2>1. /\ owner' = [owner EXCEPT ![mine[p]] = p] /\ pc' = [pc EXCEPT ![p] = "bread"]
        /\ UNCHANGED <<buf, lru, idequeue, cmd, disk, mine, want>>
    BY <1>2, Zenon DEF AcquireSleep, Goto
  <2>2. TypeOK' /\ Refs' /\ Queued' /\ Commanded'
    BY <1>1, <2>1, OthersKept, Zenon DEF IInv, TypeOK, Locations
  <2>3. Locks'
    BY <1>1, <1>2, <2>1, BcacheConstants DEF IInv, TypeOK, Locks, Locked
  <2>4. Flags'
    BY <1>1, <2>1, Zenon DEF IInv, TypeOK, Flags, Synced
  <2> QED
    BY <2>2, <2>3, <2>4, Zenon DEF IInv
<1>3. CASE owner[mine[p]] # Nobody
  <2>1. /\ pc' = [pc EXCEPT ![p] = "locksleep"]
        /\ UNCHANGED <<buf, lru, owner, idequeue, cmd, disk, mine, want>>
    BY <1>3, Zenon DEF AcquireSleep, Goto
  <2>2. TypeOK' /\ Refs' /\ Queued' /\ Commanded'
    BY <1>1, <2>1, OthersKept, Zenon DEF IInv, TypeOK, Locations
  <2>3. Locks'
    BY <1>1, <1>3, <2>1 DEF IInv, TypeOK, Locks, Locked
  <2>4. Flags'
    BY <1>1, <2>1, Zenon DEF IInv, TypeOK, Flags, Synced
  <2> QED
    BY <2>2, <2>3, <2>4, Zenon DEF IInv
<1> QED
  BY <1>2, <1>3, Zenon

\* bread() looks whether the block is there.
LEMMA BreadStep ==
  ASSUME IInv, NEW p \in Procs, Bread(p)
  PROVE  IInv'
<1>1. pc[p] = "bread" /\ mine[p] \in Bufs
  BY Alone, Zenon DEF Bread, Locked
<1>2. PICK loc \in {"use", "iderw"} :
        /\ loc = "use" <=> buf[mine[p]].valid
        /\ pc' = [pc EXCEPT ![p] = loc]
  BY Zenon DEF Bread, Goto
<1>3. UNCHANGED <<buf, lru, owner, idequeue, cmd, disk, mine, want>>
  BY Zenon DEF Bread
<1>4. TypeOK' /\ Refs' /\ Queued' /\ Commanded'
  BY <1>1, <1>2, <1>3, OthersKept, Zenon DEF IInv, TypeOK, Locations
<1>5. Locks'
  BY <1>1, <1>2, <1>3 DEF IInv, TypeOK, Locks, Locked
<1>6. Flags'
  BY <1>1, <1>2, <1>3, Zenon DEF IInv, TypeOK, Flags, Synced
<1> QED
  BY <1>4, <1>5, <1>6, Zenon DEF IInv

\* iderw() after its sleep: it does not sleep again.
LEMMA IderwWokenStep ==
  ASSUME IInv, NEW p \in Procs, IderwWoken(p)
  PROVE  IInv' /\ pc' = [pc EXCEPT ![p] = "use"]
<1>1. pc[p] = "iowoken" /\ mine[p] \in Bufs /\ Synced(mine[p])
  BY Alone, Zenon DEF IderwWoken, Locked, IInv, Flags
<1>2. /\ pc' = [pc EXCEPT ![p] = "use"]
      /\ UNCHANGED <<buf, lru, owner, idequeue, cmd, disk, mine, want>>
  BY <1>1, Zenon DEF IderwWoken, Goto
<1>3. TypeOK' /\ Refs' /\ Queued' /\ Commanded'
  BY <1>1, <1>2, OthersKept, Zenon DEF IInv, TypeOK, Locations
<1>4. Locks'
  BY <1>1, <1>2 DEF IInv, TypeOK, Locks, Locked
<1>5. Flags'
  BY <1>1, <1>2, Zenon DEF IInv, TypeOK, Flags, Synced
<1> QED
  BY <1>2, <1>3, <1>4, <1>5, Zenon DEF IInv

\* releasesleep() wakes those who wait for the lock.
LEMMA ReleaseSleepStep ==
  ASSUME IInv, NEW p \in Procs, ReleaseSleep(p)
  PROVE  IInv'
<1>1. /\ pc[p] = "use" /\ mine[p] \in Bufs
      /\ \A q \in Procs \ {p} : mine[q] = mine[p] => pc[q] \notin Locked
  BY Alone, Zenon DEF ReleaseSleep, Locked
<1>2. /\ owner' = [owner EXCEPT ![mine[p]] = Nobody]
      /\ UNCHANGED <<buf, lru, idequeue, cmd, disk, mine, want>>
  BY Zenon DEF ReleaseSleep
<1>3. /\ pc' \in [Procs -> Locations] /\ pc'[p] = "deref"
      /\ \A q \in Procs \ {p} :
           pc'[q] = IF pc[q] = "locksleep" /\ mine[q] = mine[p] THEN "lock" ELSE pc[q]
  BY Zenon DEF ReleaseSleep, LockWaitersWoken, IInv, TypeOK, Locations
<1>4. TypeOK' /\ Refs' /\ Queued' /\ Commanded'
  <2>1. \A q \in Procs : /\ pc'[q] \in {"idle", "nobufs"} <=> pc[q] \in {"idle", "nobufs"}
                         /\ pc'[q] = "iosleep" <=> pc[q] = "iosleep"
    BY <1>1, <1>3, Zenon
  <2>2. owner' \in [Bufs -> Procs \cup {Nobody}]
    BY <1>2, Zenon DEF IInv, TypeOK
  <2> QED
    BY <1>2, <1>3, <2>1, <2>2, OthersKept, Zenon
<1>5. Locks'
  <2>1. ASSUME NEW q \in Procs, NEW b \in Bufs
        PROVE  owner'[b] = q <=> mine'[q] = b /\ pc'[q] \in Locked
    <3>1. CASE b = mine[p]
      BY <1>1, <1>2, <1>3, <3>1, BcacheConstants, Zenon DEF IInv, TypeOK, Locked
    <3>2. CASE b # mine[p]
      BY <1>1, <1>2, <1>3, <3>2 DEF IInv, TypeOK, Locks, Locked
    <3> QED
      BY <3>1, <3>2, Zenon
  <2>2. \A q \in Procs : pc'[q] = "locksleep" => owner'[mine'[q]] # Nobody
    BY <1>1, <1>2, <1>3 DEF IInv, TypeOK, Locks
  <2> QED
    BY <2>1, <2>2, Zenon DEF Locks
<1>6. Flags'
  BY <1>1, <1>2, <1>3, Zenon DEF IInv, Flags, Synced
<1> QED
  BY <1>4, <1>5, <1>6, Zenon DEF IInv

\* bwrite() and log_write(): the holder's buffer has the data, and is dirty.
LEMMA WriteDirties ==
  ASSUME IInv, NEW p \in Procs, NEW v \in Values, Bwrite(p, v) \/ LogWrite(p, v)
  PROVE  /\ buf' \in [Bufs -> BufType]
         /\ \A c \in Bufs : /\ c # mine[p] => buf'[c] = buf[c]
                            /\ buf'[c].blockno = buf[c].blockno
                            /\ buf'[c].refcnt = buf[c].refcnt
                            /\ buf'[c].valid = buf[c].valid
         /\ buf'[mine[p]].dirty /\ buf'[mine[p]].data = v
<1> DEFINE b == mine[p]
           new == [buf[b] EXCEPT !.data = v, !.dirty = TRUE]
<1>1. b \in Bufs
  BY Alone, Zenon DEF Bwrite, LogWrite, Locked
<1>2. buf \in [Bufs -> BufType] /\ buf[b] \in BufType
  BY <1>1, Zenon DEF IInv, TypeOK
<1>3. /\ new \in BufType /\ new.dirty /\ new.data = v /\ new.blockno = buf[b].blockno
      /\ new.refcnt = buf[b].refcnt /\ new.valid = buf[b].valid
  BY <1>2, Dirtied, Zenon
<1>4. buf' = [buf EXCEPT ![b] = new]
  BY <1>1, <1>2, Zenon DEF Bwrite, LogWrite
<1> HIDE DEF b, new
<1>5. /\ buf' \in [Bufs -> BufType]
      /\ \A c \in Bufs : /\ c # b => buf'[c] = buf[c]
                         /\ buf'[c].blockno = buf[c].blockno
                         /\ buf'[c].refcnt = buf[c].refcnt
                         /\ buf'[c].valid = buf[c].valid
      /\ buf'[b].dirty /\ buf'[b].data = v
  BY <1>1, <1>2, <1>3, <1>4, Zenon
<1> QED
  BY <1>5, Zenon DEF b

LEMMA WriteStep ==
  ASSUME IInv, NEW p \in Procs, NEW v \in Values, Bwrite(p, v) \/ LogWrite(p, v)
  PROVE  IInv'
<1> DEFINE b == mine[p]
<1>1. /\ pc[p] = "use" /\ b \in Bufs
      /\ \A q \in Procs \ {p} : mine[q] = b => pc[q] \notin Locked
      /\ b \notin Range(idequeue)
  BY Alone, Zenon DEF Bwrite, LogWrite, Locked
<1>2. PICK loc \in {"use", "iderw"} : pc' = [pc EXCEPT ![p] = loc]
  BY DEF Bwrite, LogWrite, Goto, IInv, TypeOK
<1>3. UNCHANGED <<lru, owner, idequeue, cmd, disk, mine, want>>
  BY Zenon DEF Bwrite, LogWrite
<1>4. /\ buf' \in [Bufs -> BufType]
      /\ \A c \in Bufs : /\ c # b => buf'[c] = buf[c]
                         /\ buf'[c].blockno = buf[c].blockno
                         /\ buf'[c].refcnt = buf[c].refcnt
                         /\ buf'[c].valid = buf[c].valid
      /\ buf'[b].dirty
  BY WriteDirties, Zenon
<1> HIDE DEF b
<1>5. TypeOK'
  BY <1>2, <1>3, <1>4, Zenon DEF IInv, TypeOK, Locations
<1>6. Refs'
  <2>1. \A c \in Bufs : buf'[c].refcnt = Cardinality(Having(c)')
    BY <1>3, <1>4, CountsKept, Zenon DEF IInv
  <2>2. \A q \in Procs : mine'[q] = None <=> pc'[q] \in {"idle", "nobufs"}
    BY <1>1, <1>2, <1>3, Zenon DEF IInv, TypeOK, Refs
  <2>3. \A q \in Procs : mine'[q] # None =>
          want'[q] \in Blocks /\ buf'[mine'[q]].blockno = want'[q]
    BY <1>3, <1>4 DEF IInv, TypeOK, Refs
  <2>4. \A c, d \in Bufs :
          buf'[c].blockno = buf'[d].blockno /\ buf'[c].blockno # None => c = d
    BY <1>4 DEF IInv, Refs
  <2> QED
    BY <2>1, <2>2, <2>3, <2>4, Zenon DEF Refs
<1>7. Locks'
  BY <1>1, <1>2, <1>3 DEF IInv, TypeOK, Locks, Locked
<1>8. Flags'
  <2>1. \A c \in Bufs : /\ buf'[c].dirty => buf'[c].valid
                        /\ buf'[c].valid => buf'[c].blockno # None
    BY <1>1, <1>4, Zenon DEF IInv, Flags, b
  <2>2. ASSUME NEW q \in Procs
        PROVE  /\ pc'[q] = "use" => buf'[mine'[q]].valid
               /\ pc'[q] = "iowoken" => Synced(mine[q])'
               /\ pc'[q] \in {"iderw", "iosleep"} => ~Synced(mine[q])'
    <3>1. CASE q = p
      BY <1>1, <1>2, <1>3, <1>4, <3>1, Zenon DEF IInv, TypeOK, Flags, Synced, b
    <3>2. CASE q # p /\ pc[q] \in {"use", "iowoken", "iderw", "iosleep"}
      <4>1. mine[q] \in Bufs /\ mine[q] # b
        BY <1>1, <3>2, Alone, Zenon DEF Locked
      <4> QED
        BY <1>2, <1>3, <1>4, <3>2, <4>1 DEF IInv, TypeOK, Flags, Synced
    <3>3. CASE q # p /\ pc[q] \notin {"use", "iowoken", "iderw", "iosleep"}
      BY <1>2, <3>3, Zenon DEF IInv, TypeOK
    <3> QED
      BY <3>1, <3>2, <3>3, Zenon
  <2> QED
    BY <1>3, <2>1, <2>2, Zenon DEF Flags
<1>9. Queued'
  BY <1>1, <1>2, <1>3, Zenon DEF IInv, TypeOK, Queued
<1>10. Commanded'
  <2>1. idequeue # <<>> => Head(idequeue) \in Bufs /\ Head(idequeue) # b
    BY <1>1, HeadFacts, Zenon
  <2> QED
    BY <1>3, <1>4, <2>1, Zenon DEF IInv, Commanded
<1> QED
  BY <1>5, <1>6, <1>7, <1>8, <1>9, <1>10, Zenon DEF IInv

\* brelse() gives the reference back; it had one.
LEMMA BrelseKeeps ==
  ASSUME IInv, NEW p \in Procs, Brelse(p)
  PROVE  /\ buf' \in [Bufs -> BufType]
         /\ \A c \in Bufs :
              /\ buf'[c].refcnt = IF c = mine[p] THEN buf[c].refcnt - 1 ELSE buf[c].refcnt
              /\ buf'[c].blockno = buf[c].blockno /\ buf'[c].valid = buf[c].valid
              /\ buf'[c].dirty = buf[c].dirty /\ buf'[c].data = buf[c].data
<1> DEFINE b == mine[p]
           new == [buf[b] EXCEPT !.refcnt = buf[b].refcnt - 1]
<1>1. b \in Bufs
  BY Zenon DEF Brelse, IInv, TypeOK, Refs
<1>2. buf[b].refcnt - 1 \in Nat
  <2>1. p \in Having(b)
    BY Zenon DEF Having
  <2>2. Cardinality(Having(b)) \in Nat /\ Cardinality(Having(b)) # 0
    BY <1>1, <2>1, Counted, FS_EmptySet, Zenon DEF IInv
  <2> QED
    BY <1>1, <2>2 DEF IInv, Refs
<1>3. buf \in [Bufs -> BufType] /\ buf[b] \in BufType
  BY <1>1, Zenon DEF IInv, TypeOK
<1>4. /\ new \in BufType /\ new.refcnt = buf[b].refcnt - 1
      /\ new.blockno = buf[b].blockno /\ new.valid = buf[b].valid
      /\ new.dirty = buf[b].dirty /\ new.data = buf[b].data
  BY <1>2, <1>3, Recounted, Zenon
<1>5. buf' = [buf EXCEPT ![b] = new]
  BY Zenon DEF Brelse
<1> HIDE DEF b, new
<1>6. /\ buf' \in [Bufs -> BufType] /\ buf'[b] = new
      /\ \A c \in Bufs \ {b} : buf'[c] = buf[c]
  BY <1>1, <1>3, <1>4, <1>5, Zenon
<1> QED
  BY <1>4, <1>6, Zenon DEF b

LEMMA BrelseStep ==
  ASSUME IInv, NEW p \in Procs, Brelse(p)
  PROVE  IInv'
<1> DEFINE b == mine[p]
<1>1. pc[p] = "deref" /\ b \in Bufs
  BY Zenon DEF Brelse, IInv, TypeOK, Refs
<1>2. /\ pc' = [pc EXCEPT ![p] = "idle"] /\ mine' = [mine EXCEPT ![p] = None]
      /\ want' = [want EXCEPT ![p] = None]
      /\ UNCHANGED <<owner, idequeue, cmd, disk>>
  BY Zenon DEF Brelse, Goto
<1>4. /\ buf' \in [Bufs -> BufType]
      /\ \A c \in Bufs : /\ buf'[c].refcnt = IF c = b THEN buf[c].refcnt - 1 ELSE buf[c].refcnt
                         /\ buf'[c].blockno = buf[c].blockno
                         /\ buf'[c].valid = buf[c].valid
                         /\ buf'[c].dirty = buf[c].dirty
                         /\ buf'[c].data = buf[c].data
  BY BrelseKeeps
<1>5. lru' \in Bijection(1 .. Cardinality(Bufs), Bufs)
  BY <1>1, ListKept, Zenon DEF Brelse, IInv, TypeOK
<1> HIDE DEF b
<1>6. TypeOK'
  BY <1>2, <1>4, <1>5, Zenon DEF IInv, TypeOK, Locations
<1>7. Refs'
  <2>1. \A c \in Bufs : buf'[c].refcnt = Cardinality(Having(c)')
    <3>1. \A c \in Bufs : Cardinality(Having(c)') =
            IF c = b THEN Cardinality(Having(c)) - 1 ELSE Cardinality(Having(c))
      BY <1>1, <1>2, Given, Zenon DEF IInv, b
    <3> QED
      BY <1>4, <3>1 DEF IInv, Refs
  <2>2. \A q \in Procs : mine'[q] = None <=> pc'[q] \in {"idle", "nobufs"}
    BY <1>2, Zenon DEF IInv, TypeOK, Refs
  <2>3. \A q \in Procs : mine'[q] # None =>
          want'[q] \in Blocks /\ buf'[mine'[q]].blockno = want'[q]
    BY <1>2, <1>4 DEF IInv, TypeOK, Refs
  <2>4. \A c, d \in Bufs :
          buf'[c].blockno = buf'[d].blockno /\ buf'[c].blockno # None => c = d
    BY <1>4 DEF IInv, Refs
  <2> QED
    BY <2>1, <2>2, <2>3, <2>4, Zenon DEF Refs
<1>8. Locks'
  BY <1>1, <1>2, BcacheConstants DEF IInv, TypeOK, Locks, Locked
<1>9. Flags'
  <2>1. \A q \in Procs : pc'[q] \in {"use", "iowoken", "iderw", "iosleep"} =>
          q # p /\ mine'[q] = mine[q] /\ pc'[q] = pc[q] /\ mine[q] \in Bufs
    BY <1>2, Alone, Zenon DEF IInv, TypeOK, Locked
  <2> QED
    BY <1>4, <2>1 DEF IInv, Flags, Synced
<1>10. Queued'
  BY <1>1, <1>2, Zenon DEF IInv, TypeOK, Queued
<1>11. Commanded'
  <2>1. idequeue # <<>> => Head(idequeue) \in Bufs
    BY HeadFacts, Zenon
  <2> QED
    BY <1>2, <1>4, <2>1, Zenon DEF IInv, Commanded
<1> QED
  BY <1>6, <1>7, <1>8, <1>9, <1>10, <1>11, Zenon DEF IInv

\* The disk does its command.
LEMMA DiskStep ==
  ASSUME IInv, Disk
  PROVE  IInv'
<1>1. UNCHANGED <<buf, lru, owner, idequeue, pc, mine, want>>
  BY Zenon DEF Disk
<1>2. idequeue # <<>> /\ Head(idequeue) \in Bufs /\ cmd.block \in Blocks
  BY HeadFacts DEF Disk, IInv, Commanded, Idle
<1>3. cmd \in CmdType /\ disk \in [Blocks -> Values] /\ buf[Head(idequeue)].data \in Values
  BY <1>2, Zenon DEF IInv, TypeOK, BufType
<1>4. CASE cmd.op = "write"
  <2>1. /\ disk' = [disk EXCEPT ![cmd.block] = cmd.value] /\ cmd' = [cmd EXCEPT !.done = TRUE]
        /\ cmd.value = buf[Head(idequeue)].data
    BY <1>2, <1>4, Zenon DEF Disk, IInv, Commanded
  <2>2. disk' \in [Blocks -> Values] /\ cmd' \in CmdType
    BY <1>3, <2>1, Zenon DEF CmdType
  <2>3. Commanded'
    BY <1>1, <1>2, <1>3, <2>1, Zenon DEF IInv, Commanded, CmdType
  <2> QED
    BY <1>1, <2>2, <2>3
    DEF IInv, TypeOK, Refs, Having, Locks, Flags, Synced, Queued
<1>5. CASE cmd.op # "write"
  <2>1. disk' = disk /\ cmd' = [cmd EXCEPT !.done = TRUE, !.value = disk[cmd.block]]
    BY <1>5, Zenon DEF Disk
  <2>2. cmd' \in CmdType
    BY <1>2, <1>3, <2>1, Zenon DEF CmdType
  <2>3. Commanded'
    BY <1>1, <1>2, <1>3, <1>5, <2>1, Zenon DEF IInv, Commanded, CmdType
  <2> QED
    BY <1>1, <2>1, <2>2, <2>3
    DEF IInv, TypeOK, Refs, Having, Locks, Flags, Synced, Queued
<1> QED
  BY <1>4, <1>5, Zenon

\* bget() finds the block, or recycles a buffer that nobody has; the other fields of
\* a buffer that somebody has stay as they are.
LEMMA BgetFinds ==
  ASSUME IInv, NEW p \in Procs, NEW n \in Blocks, Bget(p, n), pc'[p] # "nobufs"
  PROVE  \E b \in Bufs :
           /\ mine' = [mine EXCEPT ![p] = b] /\ pc' = [pc EXCEPT ![p] = "lock"]
           /\ buf' \in [Bufs -> BufType]
           /\ \A c \in Bufs \ {b} : buf'[c] = buf[c] /\ buf[c].blockno # n
           /\ buf'[b].blockno = n /\ buf'[b].refcnt = buf[b].refcnt + 1
           /\ \/ /\ buf[b].blockno = n /\ buf'[b].valid = buf[b].valid
                 /\ buf'[b].dirty = buf[b].dirty /\ buf'[b].data = buf[b].data
              \/ /\ Having(b) = {} /\ ~buf'[b].valid /\ ~buf'[b].dirty /\ ~buf[b].dirty
                 /\ buf[b].blockno # n
<1>1. TypeOK /\ buf \in [Bufs -> BufType] /\ n # None
  BY BcacheConstants, Zenon DEF IInv, TypeOK
<1>2. CASE Cached(n) # {}
  <2> DEFINE b == lru[Min(Cached(n))]
             new == [buf[b] EXCEPT !.refcnt = buf[b].refcnt + 1]
  <2>1. b \in Bufs /\ buf[b].blockno = n
    BY <1>1, <1>2, CachedFound, Zenon
  <2>2. /\ mine' = [mine EXCEPT ![p] = b] /\ pc' = [pc EXCEPT ![p] = "lock"]
        /\ buf' = [buf EXCEPT ![b] = new]
    BY <1>2, Zenon DEF Bget, Goto
  <2>3. buf[b].refcnt + 1 \in Nat
    BY <1>1, <2>1 DEF BufType
  <2>4. /\ new \in BufType /\ new.blockno = n /\ new.refcnt = buf[b].refcnt + 1
        /\ new.valid = buf[b].valid /\ new.dirty = buf[b].dirty /\ new.data = buf[b].data
    BY <1>1, <2>1, <2>3, Recounted, Zenon
  <2>5. \A c \in Bufs \ {b} : buf[c].blockno # n
    BY <1>1, <2>1, Zenon DEF IInv, Refs
  <2> HIDE DEF b, new
  <2>6. /\ buf' \in [Bufs -> BufType] /\ buf'[b] = new
        /\ \A c \in Bufs \ {b} : buf'[c] = buf[c]
    BY <1>1, <2>1, <2>2, <2>4, Zenon
  <2> QED
    BY <2>1, <2>2, <2>4, <2>5, <2>6, Zenon
<1>3. CASE Cached(n) = {} /\ Recyclable # {}
  <2> DEFINE b == lru[Max(Recyclable)]
             new == Recycled(b, n)
  <2>1. b \in Bufs /\ buf[b].refcnt = 0 /\ ~buf[b].dirty
    BY <1>1, <1>3, RecyclableFound, Zenon DEF Unused
  <2>2. /\ mine' = [mine EXCEPT ![p] = b] /\ pc' = [pc EXCEPT ![p] = "lock"]
        /\ buf' = [buf EXCEPT ![b] = new]
    BY <1>3, Zenon DEF Bget, Goto
  <2>3. /\ new \in BufType /\ new.blockno = n /\ new.refcnt = buf[b].refcnt + 1
        /\ ~new.valid /\ ~new.dirty
    BY <1>1, <2>1 DEF Recycled, BufType
  <2>4. \A c \in Bufs : buf[c].blockno # n
    BY <1>1, <1>3, ListFacts, Zenon DEF Cached
  <2>5. Having(b) = {}
    BY <1>1, <2>1, Counted, FS_EmptySet, Zenon DEF IInv, Refs
  <2> HIDE DEF b, new
  <2>6. /\ buf' \in [Bufs -> BufType] /\ buf'[b] = new
        /\ \A c \in Bufs \ {b} : buf'[c] = buf[c]
    BY <1>1, <2>1, <2>2, <2>3, Zenon
  <2> QED
    BY <2>1, <2>2, <2>3, <2>4, <2>5, <2>6, Zenon
<1>4. CASE Cached(n) = {} /\ Recyclable = {}
  BY <1>4, Zenon DEF Bget, Goto, IInv, TypeOK
<1> QED
  BY <1>2, <1>3, <1>4, Zenon

LEMMA BgetStep ==
  ASSUME IInv, NEW p \in Procs, NEW n \in Blocks, Bget(p, n)
  PROVE  IInv'
<1>1. /\ pc[p] = "idle" /\ mine[p] = None /\ n # None
      /\ want' = [want EXCEPT ![p] = n] /\ UNCHANGED <<lru, owner, idequeue, cmd, disk>>
  BY BcacheConstants, Zenon DEF Bget, IInv, Refs
<1>2. CASE pc'[p] = "nobufs"
  <2>1. pc' = [pc EXCEPT ![p] = "nobufs"] /\ UNCHANGED <<buf, mine>>
    BY <1>2, Zenon DEF Bget, Goto, IInv, TypeOK
  <2>2. TypeOK'
    BY <1>1, <2>1, Zenon DEF IInv, TypeOK, Locations
  <2>3. Refs'
    BY <1>1, <2>1 DEF IInv, TypeOK, Refs, Having
  <2>4. Locks'
    BY <1>1, <2>1 DEF IInv, TypeOK, Locks, Locked
  <2>5. Flags'
    BY <1>1, <2>1, Zenon DEF IInv, TypeOK, Flags, Synced
  <2>6. Queued' /\ Commanded'
    BY <1>1, <2>1, Zenon DEF IInv, TypeOK, Queued, Commanded
  <2> QED
    BY <2>2, <2>3, <2>4, <2>5, <2>6, Zenon DEF IInv
<1>3. CASE pc'[p] # "nobufs"
  <2>1. PICK b \in Bufs :
           /\ mine' = [mine EXCEPT ![p] = b] /\ pc' = [pc EXCEPT ![p] = "lock"]
           /\ buf' \in [Bufs -> BufType]
           /\ \A c \in Bufs \ {b} : buf'[c] = buf[c] /\ buf[c].blockno # n
           /\ buf'[b].blockno = n /\ buf'[b].refcnt = buf[b].refcnt + 1
           /\ \/ /\ buf[b].blockno = n /\ buf'[b].valid = buf[b].valid
                 /\ buf'[b].dirty = buf[b].dirty /\ buf'[b].data = buf[b].data
              \/ /\ Having(b) = {} /\ ~buf'[b].valid /\ ~buf'[b].dirty /\ ~buf[b].dirty
                 /\ buf[b].blockno # n
    BY <1>3, BgetFinds
  <2>2. \A q \in Procs : mine[q] \in Bufs =>
          /\ buf'[mine[q]].blockno = buf[mine[q]].blockno
          /\ buf'[mine[q]].valid = buf[mine[q]].valid
          /\ buf'[mine[q]].dirty = buf[mine[q]].dirty
          /\ buf'[mine[q]].data = buf[mine[q]].data
    BY <2>1, Zenon DEF Having
  <2>3. TypeOK'
    BY <1>1, <2>1, Zenon DEF IInv, TypeOK, Locations
  <2>4. Refs'
    <3>1. \A c \in Bufs : buf'[c].refcnt = Cardinality(Having(c)')
      <4>1. \A c \in Bufs : Cardinality(Having(c)') =
              IF c = b THEN Cardinality(Having(c)) + 1 ELSE Cardinality(Having(c))
        BY <1>1, <2>1, Taken, Zenon DEF IInv
      <4> QED
        BY <2>1, <4>1, Zenon DEF IInv, Refs
    <3>2. \A q \in Procs : mine'[q] = None <=> pc'[q] \in {"idle", "nobufs"}
      BY <1>1, <2>1, BcacheConstants, Zenon DEF IInv, TypeOK, Refs
    <3>3. \A q \in Procs : mine'[q] # None =>
            want'[q] \in Blocks /\ buf'[mine'[q]].blockno = want'[q]
      BY <1>1, <2>1, <2>2 DEF IInv, TypeOK, Refs
    <3>4. \A c, d \in Bufs :
            buf'[c].blockno = buf'[d].blockno /\ buf'[c].blockno # None => c = d
      BY <2>1 DEF IInv, Refs
    <3> QED
      BY <3>1, <3>2, <3>3, <3>4, Zenon DEF Refs
  <2>5. Locks'
    <3>1. /\ pc[p] = "idle" /\ pc'[p] = "lock"
          /\ \A q \in Procs \ {p} : pc'[q] = pc[q] /\ mine'[q] = mine[q]
      BY <1>1, <2>1, Zenon DEF IInv, TypeOK
    <3> QED
      BY <1>1, <2>1, <3>1, BcacheConstants DEF IInv, TypeOK, Locks, Locked
  <2>6. Flags'
    <3>1. \A c \in Bufs : /\ buf'[c].dirty => buf'[c].valid
                          /\ buf'[c].valid => buf'[c].blockno # None
      BY <1>1, <2>1 DEF IInv, Flags
    <3>2. \A q \in Procs : pc'[q] \in {"use", "iowoken", "iderw", "iosleep"} =>
            q # p /\ mine'[q] = mine[q] /\ pc'[q] = pc[q] /\ mine[q] \in Bufs
      BY <2>1, Alone, Zenon DEF IInv, TypeOK, Locked
    <3> QED
      BY <2>2, <3>1, <3>2 DEF IInv, Flags, Synced
  <2>7. Queued'
    BY <1>1, <2>1, Zenon DEF IInv, TypeOK, Queued
  <2>8. Commanded'
    <3>1. idequeue # <<>> => \E q \in Procs : mine[q] = Head(idequeue) /\ mine[q] \in Bufs
      BY HeadFacts, Zenon DEF IInv, Queued
    <3> QED
      BY <1>1, <2>2, <3>1 DEF IInv, Commanded
  <2> QED
    BY <2>3, <2>4, <2>5, <2>6, <2>7, <2>8, Zenon DEF IInv
<1> QED
  BY <1>2, <1>3, Zenon

\* iderw() puts the buffer into the queue; it has a reason to.
LEMMA IderwStep ==
  ASSUME IInv, NEW p \in Procs, Iderw(p)
  PROVE  IInv' /\ pc' = [pc EXCEPT ![p] = "iosleep"]
<1> DEFINE b == mine[p]
           q == Append(idequeue, b)
<1>1. /\ pc[p] = "iderw" /\ b \in Bufs /\ b \notin Range(idequeue) /\ owner[b] = p
      /\ ~Synced(b) /\ buf[b].blockno \in Blocks
  BY Alone DEF Iderw, Locked, IInv, Locks, Flags, Refs
<1>2. /\ idequeue' = q /\ pc' = [pc EXCEPT ![p] = "iosleep"]
      /\ cmd' = IF StartNow(q) THEN Idestart(b) ELSE cmd
      /\ UNCHANGED <<buf, lru, owner, disk, mine, want>>
  BY <1>1, Zenon DEF Iderw, Goto
<1>3. idequeue \in Seq(Bufs) /\ IsInjective(idequeue)
  BY Zenon DEF IInv, TypeOK, Queued
<1>4. /\ q \in Seq(Bufs) /\ IsInjective(q) /\ Range(q) = Range(idequeue) \cup {b}
      /\ q # <<>> /\ Len(q) = Len(idequeue) + 1
      /\ Head(q) = IF idequeue = <<>> THEN b ELSE Head(idequeue)
  BY <1>1, <1>3, Entered, Zenon
<1>5. StartNow(q) <=> idequeue = <<>>
  <2>1. Len(idequeue) = 0 <=> idequeue = <<>>
    BY <1>3
  <2> QED
    BY <1>3, <1>4, <2>1 DEF StartNow
<1> HIDE DEF b, q
<1>6. Idestart(b) \in CmdType
  BY <1>1, Zenon DEF IInv, TypeOK, BufType, CmdType, Idestart
<1>7. TypeOK'
  BY <1>2, <1>4, <1>6, Zenon DEF IInv, TypeOK, Locations
<1>8. Refs'
  <2>1. \A c \in Bufs : buf'[c].refcnt = Cardinality(Having(c)')
    BY <1>2, CountsKept, Zenon DEF IInv
  <2>2. \A r \in Procs : mine'[r] = None <=> pc'[r] \in {"idle", "nobufs"}
    BY <1>1, <1>2, Zenon DEF IInv, TypeOK, Refs
  <2>3. \A r \in Procs : mine'[r] # None =>
          want'[r] \in Blocks /\ buf'[mine'[r]].blockno = want'[r]
    BY <1>2, Zenon DEF IInv, Refs
  <2>4. \A c, e \in Bufs :
          buf'[c].blockno = buf'[e].blockno /\ buf'[c].blockno # None => c = e
    BY <1>2, Zenon DEF IInv, Refs
  <2> QED
    BY <2>1, <2>2, <2>3, <2>4, Zenon DEF Refs
<1>9. Locks'
  BY <1>1, <1>2 DEF IInv, TypeOK, Locks, Locked
<1>10. Flags'
  BY <1>1, <1>2, Zenon DEF IInv, TypeOK, Flags, Synced, b
<1>11. Queued'
  BY <1>1, <1>2, <1>4 DEF IInv, TypeOK, Queued, b
<1>12. Commanded'
  BY <1>1, <1>2, <1>4, <1>5, Zenon DEF IInv, Commanded, Idestart
<1> QED
  BY <1>2, <1>7, <1>8, <1>9, <1>10, <1>11, <1>12, Zenon DEF IInv

\* ideintr() ends the request of the head of the queue.
LEMMA IdeintrFills ==
  ASSUME IInv, NEW st \in ReadStatus, Ideintr(st)
  PROVE  /\ idequeue # <<>> /\ Head(idequeue) \in Bufs
         /\ \E q \in Procs :
              /\ mine[q] = Head(idequeue) /\ pc[q] = "iosleep"
              /\ pc' = [pc EXCEPT ![q] = "iowoken"]
              /\ \A r \in Procs \ {q} : mine[r] = Head(idequeue) => pc[r] \notin Locked
         /\ buf' \in [Bufs -> BufType]
         /\ \A c \in Bufs \ {Head(idequeue)} : buf'[c] = buf[c]
         /\ LET b == Head(idequeue) IN
            /\ buf'[b].blockno = buf[b].blockno /\ buf'[b].refcnt = buf[b].refcnt
            /\ buf'[b].valid /\ ~buf'[b].dirty
            /\ buf'[b].data = IF ~buf[b].dirty /\ st = "good" THEN disk[buf[b].blockno]
                                                              ELSE buf[b].data
<1> DEFINE b == Head(idequeue)
           d == IF ~buf[b].dirty /\ st = "good" THEN disk[buf[b].blockno] ELSE buf[b].data
           new == [buf[b] EXCEPT !.data = d, !.valid = TRUE, !.dirty = FALSE]
<1>1. /\ idequeue # <<>> /\ b \in Bufs /\ b \in Range(idequeue) /\ buf[b].blockno \in Blocks
      /\ cmd.value = disk[buf[b].blockno]
  BY HeadFacts DEF Ideintr, IInv, Commanded, Idle
<1>2. PICK q \in Procs : mine[q] = b /\ pc[q] = "iosleep"
  BY <1>1, Zenon DEF IInv, Queued
<1>3. \A r \in Procs \ {q} : mine[r] = b => pc[r] \notin Locked
  BY <1>2, Alone, Zenon DEF Locked
<1>4. pc' = [pc EXCEPT ![q] = "iowoken"]
  BY <1>2, <1>3, Zenon DEF Ideintr, IoWaitersWoken, IInv, TypeOK, Locked
<1>5. buf[b] \in BufType /\ buf \in [Bufs -> BufType] /\ d \in Values
  BY <1>1, Zenon DEF IInv, TypeOK, BufType
<1>6. buf' = [buf EXCEPT ![b] = new]
  BY <1>1, <1>5, Zenon DEF Ideintr
<1> HIDE DEF d
<1>7. /\ new \in BufType /\ new.data = d /\ new.valid /\ ~new.dirty
      /\ new.blockno = buf[b].blockno /\ new.refcnt = buf[b].refcnt
  BY <1>5, Filled, Zenon
<1> HIDE DEF b, new
<1>8. /\ buf' \in [Bufs -> BufType] /\ buf'[b] = new
      /\ \A c \in Bufs \ {b} : buf'[c] = buf[c]
  BY <1>1, <1>5, <1>6, <1>7, Zenon
<1> QED
  BY <1>1, <1>2, <1>3, <1>4, <1>7, <1>8, Zenon DEF b, d

LEMMA IdeintrStep ==
  ASSUME IInv, NEW st \in ReadStatus, Ideintr(st)
  PROVE  IInv'
<1> DEFINE b == Head(idequeue)
<1>1. /\ idequeue # <<>> /\ b \in Bufs
      /\ buf' \in [Bufs -> BufType]
      /\ \A c \in Bufs \ {b} : buf'[c] = buf[c]
      /\ buf'[b].blockno = buf[b].blockno /\ buf'[b].refcnt = buf[b].refcnt
      /\ buf'[b].valid /\ ~buf'[b].dirty
  BY IdeintrFills, Zenon
<1>2. PICK q \in Procs :
        /\ mine[q] = b /\ pc[q] = "iosleep" /\ pc' = [pc EXCEPT ![q] = "iowoken"]
        /\ \A r \in Procs \ {q} : mine[r] = b => pc[r] \notin Locked
  BY IdeintrFills, Zenon
<1>3. /\ idequeue' = Tail(idequeue) /\ cmd' = NextCommand(Tail(idequeue))
      /\ UNCHANGED <<lru, owner, disk, mine, want>>
  BY Zenon DEF Ideintr
<1>4. /\ Tail(idequeue) \in Seq(Bufs) /\ IsInjective(Tail(idequeue))
      /\ Range(Tail(idequeue)) = Range(idequeue) \ {b}
  BY <1>1, HeadLeft, Zenon DEF IInv, TypeOK, Queued
<1>5. Tail(idequeue) # <<>> =>
        LET h == Head(Tail(idequeue)) IN
        h \in Bufs /\ h # b /\ buf[h].blockno \in Blocks
  <2> HAVE Tail(idequeue) # <<>>
  <2>1. Head(Tail(idequeue)) \in Bufs /\ Head(Tail(idequeue)) \in Range(Tail(idequeue))
    BY <1>4, HeadLeft, Zenon
  <2>2. PICK r \in Procs : mine[r] = Head(Tail(idequeue)) /\ pc[r] = "iosleep"
    BY <1>4, <2>1, Zenon DEF IInv, Queued
  <2> QED
    BY <1>4, <2>1, <2>2, Zenon DEF IInv, Refs
<1> HIDE DEF b
<1>6. TypeOK'
  <2>1. cmd' \in CmdType
    BY <1>3, <1>5, Zenon DEF NextCommand, Idestart, Idle, IInv, TypeOK, BufType, CmdType
  <2> QED
    BY <1>1, <1>2, <1>3, <1>4, <2>1, Zenon DEF IInv, TypeOK, Locations
<1>7. Refs'
  <2>1. \A c \in Bufs : buf'[c].refcnt = Cardinality(Having(c)')
    <3>1. \A c \in Bufs : buf'[c].refcnt = buf[c].refcnt
      BY <1>1, Zenon
    <3> QED
      BY <1>3, <3>1, CountsKept, Zenon DEF IInv
  <2>2. \A r \in Procs : mine'[r] = None <=> pc'[r] \in {"idle", "nobufs"}
    BY <1>2, <1>3, Zenon DEF IInv, TypeOK, Refs
  <2>3. \A r \in Procs : mine'[r] # None =>
          want'[r] \in Blocks /\ buf'[mine'[r]].blockno = want'[r]
    <3>1. \A c \in Bufs : buf'[c].blockno = buf[c].blockno
      BY <1>1, Zenon
    <3> QED
      BY <1>3, <3>1, Zenon DEF IInv, TypeOK, Refs
  <2>4. \A c, d \in Bufs :
          buf'[c].blockno = buf'[d].blockno /\ buf'[c].blockno # None => c = d
    BY <1>1 DEF IInv, Refs
  <2> QED
    BY <2>1, <2>2, <2>3, <2>4, Zenon DEF Refs
<1>8. Locks'
  BY <1>2, <1>3 DEF IInv, TypeOK, Locks, Locked
<1>9. Flags'
  <2>1. \A c \in Bufs : /\ buf'[c].dirty => buf'[c].valid
                        /\ buf'[c].valid => buf'[c].blockno # None
    <3>1. buf[b].blockno # None
      BY <1>1, HeadFacts, BcacheConstants, Zenon DEF b
    <3> QED
      BY <1>1, <3>1, Zenon DEF IInv, Flags
  <2>2. ASSUME NEW r \in Procs, pc'[r] \in {"use", "iowoken", "iderw", "iosleep"}
        PROVE  /\ pc'[r] = "use" => buf'[mine'[r]].valid
               /\ pc'[r] = "iowoken" => Synced(mine[r])'
               /\ pc'[r] \in {"iderw", "iosleep"} => ~Synced(mine[r])'
    <3>1. CASE r = q
      BY <1>1, <1>2, <1>3, <3>1, Zenon DEF IInv, TypeOK, Synced
    <3>2. CASE r # q
      <4>1. pc'[r] = pc[r]
        BY <1>2, <3>2, Zenon DEF IInv, TypeOK
      <4>2. mine[r] \in Bufs /\ mine[r] # b
        BY <1>2, <2>2, <3>2, <4>1, Alone, Zenon DEF Locked
      <4> QED
        BY <1>1, <1>3, <4>1, <4>2, Zenon DEF IInv, Flags, Synced
    <3> QED
      BY <3>1, <3>2, Zenon
  <2> QED
    BY <1>3, <2>1, <2>2, Zenon DEF Flags
<1>10. Queued'
  <2>1. \A r \in Procs : pc'[r] = "iosleep" => mine[r] \in Range(Tail(idequeue))
    <3>1. ASSUME NEW r \in Procs, pc'[r] = "iosleep"
          PROVE  mine[r] \in Range(Tail(idequeue))
      <4>1. r # q /\ pc[r] = "iosleep"
        BY <1>2, <3>1, Zenon DEF IInv, TypeOK
      <4>2. mine[r] # b
        BY <1>2, <4>1, Zenon DEF Locked
      <4> QED
        BY <1>4, <4>1, <4>2, Zenon DEF IInv, Queued
    <3> QED
      BY <3>1, Zenon
  <2>2. \A c \in Range(Tail(idequeue)) : \E r \in Procs : mine[r] = c /\ pc'[r] = "iosleep"
    BY <1>2, <1>4, Zenon DEF IInv, TypeOK, Queued
  <2> QED
    BY <1>3, <1>4, <2>1, <2>2, Zenon DEF Queued
<1>11. Commanded'
  <2>1. CASE Tail(idequeue) = <<>>
    BY <1>3, <2>1, Zenon DEF Commanded, NextCommand
  <2>2. CASE Tail(idequeue) # <<>>
    <3>1. cmd' = Idestart(Head(Tail(idequeue)))
      BY <1>3, <2>2, Zenon DEF NextCommand
    <3>2. buf'[Head(Tail(idequeue))] = buf[Head(Tail(idequeue))]
      BY <1>1, <1>5, <2>2, Zenon
    <3> QED
      BY <1>3, <2>2, <3>1, <3>2 DEF Commanded, Idestart
  <2> QED
    BY <2>1, <2>2, Zenon
<1> QED
  BY <1>6, <1>7, <1>8, <1>9, <1>10, <1>11, Zenon DEF IInv

\* A step that changes nothing.
LEMMA StutterInv ==
  ASSUME IInv, UNCHANGED vars
  PROVE  IInv'
<1>1. TypeOK' /\ Refs'
  BY Zenon DEF vars, IInv, TypeOK, Refs, Having
<1>2. Locks' /\ Flags'
  BY Zenon DEF vars, IInv, Locks, Flags, Synced
<1>3. Queued' /\ Commanded'
  BY Zenon DEF vars, IInv, Queued, Commanded
<1> QED
  BY <1>1, <1>2, <1>3, Zenon DEF IInv

-----------------------------------------------------------------------------
(* The theorems *)

LEMMA StepInv ==
  ASSUME IInv, [Next]_vars
  PROVE  IInv'
<1>1. ASSUME NEW p \in Procs, Kernel(p)
      PROVE  IInv'
  BY <1>1, AcquireSleepStep, BreadStep, ReleaseSleepStep, BrelseStep, IderwStep,
     IderwWokenStep, Zenon DEF Kernel
<1>2. ASSUME NEW p \in Procs, NEW n \in Blocks, Bget(p, n)
      PROVE  IInv'
  BY <1>2, BgetStep, Zenon
<1>3. ASSUME NEW p \in Procs, NEW v \in Values, Bwrite(p, v) \/ LogWrite(p, v)
      PROVE  IInv'
  BY <1>3, WriteStep, Zenon
<1>4. CASE Device
  BY <1>4, DiskStep, IdeintrStep, Zenon DEF Device
<1>5. CASE UNCHANGED vars
  BY <1>5, StutterInv, Zenon
<1> QED
  BY <1>1, <1>2, <1>3, <1>4, <1>5, Zenon DEF Next

\* The inductive invariant holds in every state that the code of the cache reaches.
THEOREM Invariance == Spec => []IInv
BY InitInv, StepInv, PTL DEF Spec

\* Whatever the interleaving of processes, disk and interrupts, a process works on the
\* one buffer of the block it asked for, bget()'s counts are exact, and no buffer is
\* lost from the list or queued twice.
THEOREM BufferIsRight == Spec => []RightBuffer
<1>1. IInv => RightBuffer
  <2> HAVE IInv
  <2>1. ASSUME NEW p \in Procs, mine[p] # None, NEW b \in Bufs
        PROVE  buf[b].blockno = want[p] <=> b = mine[p]
    BY <2>1, BcacheConstants DEF IInv, TypeOK, Refs
  <2> QED
    BY <2>1, Zenon DEF RightBuffer, IInv, TypeOK, Refs, Having, Queued
<1> QED
  BY <1>1, Invariance, PTL

\* No wakeup of releasesleep() or ideintr() is lost, and the disk is never idle while
\* a request is queued.
THEOREM NoLostWakeup == Spec => []SleepersHaveReason
<1>1. IInv => SleepersHaveReason
  <2> HAVE IInv
  <2>1. \A p \in Procs : /\ pc[p] = "locksleep" => owner[mine[p]] # Nobody
                         /\ pc[p] = "iosleep" => mine[p] \in Range(idequeue)
    BY Zenon DEF IInv, Locks, Queued
  <2>2. idequeue # <<>> => cmd.op # "none" /\ cmd.block = buf[Head(idequeue)].blockno
    BY Zenon DEF IInv, Commanded
  <2> QED
    BY <2>1, <2>2, Zenon DEF SleepersHaveReason
<1> QED
  BY <1>1, Invariance, PTL

\* iderw() is called only by the holder of the lock, for a buffer that has something to
\* read or write.
THEOREM NeverPanics == Spec => []NoPanic
<1>1. IInv => NoPanic
  BY DEF IInv, TypeOK, Locations, NoPanic
<1> QED
  BY <1>1, Invariance, PTL

-----------------------------------------------------------------------------
(* The cache implements a store of blocks *)

Memory == [n \in Blocks |-> Content(n)]
Users == [n \in Blocks |-> User(n)]

Copy(b, n) == buf[b].blockno = n /\ buf[b].valid

IsUser(p, n) ==
  want[p] = n /\ pc[p] \in {"use", "iderw", "iosleep", "iowoken"} /\ buf[mine[p]].valid

\* The content of a block is in its one valid copy, or else on the disk; and the user
\* of a block is the one process that has it.
ContentFound ==
  \A n \in Blocks :
    /\ \A b \in Bufs : Copy(b, n) => Content(n) = buf[b].data
    /\ (\A b \in Bufs : ~Copy(b, n)) => Content(n) = disk[n]

UserFound ==
  \A n \in Blocks :
    /\ \A p \in Procs : IsUser(p, n) => User(n) = p
    /\ (\A p \in Procs : ~IsUser(p, n)) => User(n) = Nobody

LEMMA ContentIs == IInv => ContentFound
<1> SUFFICES ASSUME IInv, NEW n \in Blocks
             PROVE  /\ \A b \in Bufs : Copy(b, n) => Content(n) = buf[b].data
                    /\ (\A b \in Bufs : ~Copy(b, n)) => Content(n) = disk[n]
  BY Zenon DEF ContentFound
<1> DEFINE copies == {b \in Bufs : buf[b].blockno = n /\ buf[b].valid}
<1>1. Content(n) = IF copies = {} THEN disk[n] ELSE buf[CHOOSE b \in copies : TRUE].data
  BY Zenon DEF Content
<1>2. \A b \in copies : copies = {b}
  BY BcacheConstants DEF IInv, Refs
<1> QED
  BY <1>1, <1>2, Zenon DEF Copy

\* A block has at most one user.
LEMMA OneUser ==
  ASSUME IInv, NEW n \in Blocks, NEW p \in Procs, NEW q \in Procs, want[p] = n, want[q] = n,
         pc[p] \in Locked, pc[q] \in Locked
  PROVE  p = q
<1>1. mine[p] \in Bufs /\ mine[q] \in Bufs
  BY Alone, Zenon
<1>2. mine[p] = mine[q]
  BY <1>1, BcacheConstants DEF IInv, Refs
<1> QED
  BY <1>2, Alone, Zenon

LEMMA UserIs == IInv => UserFound
<1> SUFFICES ASSUME IInv, NEW n \in Blocks
             PROVE  /\ \A p \in Procs : IsUser(p, n) => User(n) = p
                    /\ (\A p \in Procs : ~IsUser(p, n)) => User(n) = Nobody
  BY Zenon DEF UserFound
<1> DEFINE users == {p \in Procs : want[p] = n
                       /\ pc[p] \in {"use", "iderw", "iosleep", "iowoken"}
                       /\ buf[mine[p]].valid}
<1>1. User(n) = IF users = {} THEN Nobody ELSE CHOOSE p \in users : TRUE
  BY Zenon DEF User
<1>2. \A p \in users : users = {p}
  BY OneUser, Zenon DEF Locked
<1> QED
  BY <1>1, <1>2, Zenon DEF IsUser

\* The content of a block whose copy stays as it is.
LEMMA ContentKept ==
  ASSUME IInv, IInv', NEW n \in Blocks,
         \A b \in Bufs : Copy(b, n)' <=> Copy(b, n),
         \A b \in Bufs : Copy(b, n) => buf'[b].data = buf[b].data,
         (\A b \in Bufs : ~Copy(b, n)) => disk'[n] = disk[n]
  PROVE  Content(n)' = Content(n)
<1>1. (IInv => ContentFound)'
  BY ContentIs, PTL
<1>2. /\ \A b \in Bufs : Copy(b, n)' => Content(n)' = buf'[b].data
      /\ (\A b \in Bufs : ~Copy(b, n)') => Content(n)' = disk'[n]
  BY <1>1, Zenon DEF ContentFound
<1> QED
  BY <1>2, ContentIs DEF ContentFound

LEMMA UserKept ==
  ASSUME IInv, IInv', NEW n \in Blocks, \A p \in Procs : IsUser(p, n)' <=> IsUser(p, n)
  PROVE  User(n)' = User(n)
<1>1. (IInv => UserFound)'
  BY UserIs, PTL
<1>2. /\ \A p \in Procs : IsUser(p, n)' => User(n)' = p
      /\ (\A p \in Procs : ~IsUser(p, n)') => User(n)' = Nobody
  BY <1>1, Zenon DEF UserFound
<1> QED
  BY <1>2, UserIs, Zenon DEF UserFound

\* What is valid and clean stays what is on the disk, if no read fails.
LEMMA CleanStep ==
  ASSUME IInv, Clean, "bad" \notin ReadStatus, [Next]_vars
  PROVE  Clean'
<1>1. ASSUME UNCHANGED <<buf, disk>>
      PROVE  Clean'
  BY <1>1, Zenon DEF Clean, Synced
<1>2. ASSUME NEW p \in Procs, Kernel(p)
      PROVE  Clean'
  <2>1. CASE Brelse(p)
    <3>1. disk' = disk
      BY <2>1, Zenon DEF Brelse
    <3> QED
      BY <2>1, <3>1, BrelseKeeps DEF Clean, Synced
  <2>2. CASE ~Brelse(p)
    BY <1>1, <1>2, <2>2, Zenon
    DEF Kernel, AcquireSleep, Bread, ReleaseSleep, Iderw, IderwWoken
  <2> QED
    BY <2>1, <2>2, Zenon
<1>3. ASSUME NEW p \in Procs, NEW n \in Blocks, Bget(p, n)
      PROVE  Clean'
  <2>1. CASE pc'[p] = "nobufs"
    <3>1. UNCHANGED <<buf, disk>>
      BY <1>3, <2>1, Zenon DEF Bget, Goto, IInv, TypeOK
    <3> QED
      BY <1>1, <3>1, Zenon
  <2>2. CASE pc'[p] # "nobufs"
    <3>1. disk' = disk
      BY <1>3, Zenon DEF Bget
    <3>2. PICK b \in Bufs :
            /\ \A c \in Bufs \ {b} : buf'[c] = buf[c]
            /\ buf'[b].blockno = n
            /\ \/ /\ buf[b].blockno = n /\ buf'[b].valid = buf[b].valid
                  /\ buf'[b].dirty = buf[b].dirty /\ buf'[b].data = buf[b].data
               \/ ~buf'[b].valid
      BY <1>3, <2>2, BgetFinds
    <3> QED
      BY <3>1, <3>2, Zenon DEF Clean, Synced
  <2> QED
    BY <2>1, <2>2, Zenon
<1>4. ASSUME NEW p \in Procs, NEW v \in Values, Bwrite(p, v) \/ LogWrite(p, v)
      PROVE  Clean'
  <2>1. disk' = disk
    BY <1>4, Zenon DEF Bwrite, LogWrite
  <2> QED
    BY <1>4, <2>1, WriteDirties, Zenon DEF Clean, Synced
<1>5. CASE Disk
  <2>1. /\ buf' = buf /\ disk \in [Blocks -> Values]
        /\ cmd.op = "write" => disk' = [disk EXCEPT ![cmd.block] = cmd.value]
        /\ cmd.op # "write" => disk' = disk
    BY <1>5, Zenon DEF Disk, IInv, TypeOK
  <2>2. /\ idequeue # <<>> /\ Head(idequeue) \in Bufs /\ cmd.block = buf[Head(idequeue)].blockno
        /\ cmd.block \in Blocks
    BY <1>5, HeadFacts DEF Disk, IInv, Commanded, Idle
  <2>3. CASE cmd.op = "write"
    <3>1. buf[Head(idequeue)].dirty
      BY <2>2, <2>3, Zenon DEF IInv, Commanded
    <3>2. ASSUME NEW b \in Bufs, Synced(b)
          PROVE  buf[b].blockno # cmd.block /\ buf[b].blockno \in Blocks
      BY <2>2, <3>1, <3>2, BcacheConstants DEF IInv, TypeOK, BufType, Refs, Flags, Synced
    <3> QED
      BY <2>1, <2>3, <3>2, Zenon DEF Clean, Synced
  <2>4. CASE cmd.op # "write"
    BY <1>1, <2>1, <2>4, Zenon
  <2> QED
    BY <2>3, <2>4, Zenon
<1>6. ASSUME NEW st \in ReadStatus, Ideintr(st)
      PROVE  Clean'
  <2>1. disk' = disk /\ st = "good"
    BY <1>6, BcacheConstants, Zenon DEF Ideintr
  <2>2. /\ idequeue # <<>> /\ Head(idequeue) \in Bufs
        /\ buf[Head(idequeue)].dirty =>
             buf[Head(idequeue)].data = disk[buf[Head(idequeue)].blockno]
    BY <1>6, IdeintrFills, Zenon DEF Ideintr, IInv, Commanded
  <2>3. PICK b \in Bufs :
          /\ b = Head(idequeue) /\ \A c \in Bufs \ {b} : buf'[c] = buf[c]
          /\ buf'[b].blockno = buf[b].blockno
          /\ buf'[b].data = IF ~buf[b].dirty THEN disk[buf[b].blockno] ELSE buf[b].data
    BY <1>6, <2>1, IdeintrFills, Zenon
  <2>4. buf'[b].data = disk[buf'[b].blockno]
    BY <2>2, <2>3, Zenon
  <2>5. \A c \in Bufs \ {b} : Synced(c)' => buf'[c].data = disk[buf'[c].blockno]
    BY <1>1, <2>3, Zenon DEF Clean, Synced
  <2> QED
    BY <2>1, <2>4, <2>5, Zenon DEF Clean
<1>7. CASE UNCHANGED vars
  BY <1>1, <1>7, Zenon DEF vars
<1> QED
  BY <1>2, <1>3, <1>4, <1>5, <1>6, <1>7, Zenon DEF Next, Device

\* The steps of the store, from what they do to users and contents.
LEMMA Unseen ==
  ASSUME IInv, IInv',
         \A n \in Blocks, p \in Procs : IsUser(p, n)' <=> IsUser(p, n),
         \A n \in Blocks : Content(n)' = Content(n)
  PROVE  UNCHANGED <<Memory, Users>>
<1>1. \A n \in Blocks : User(n)' = User(n)
  BY UserKept, Zenon
<1> QED
  BY <1>1, Zenon DEF Memory, Users

LEMMA Takes ==
  ASSUME IInv, IInv', NEW p \in Procs, NEW n \in Blocks,
         \A q \in Procs : ~IsUser(q, n), IsUser(p, n)',
         \A m \in Blocks \ {n}, q \in Procs : IsUser(q, m)' <=> IsUser(q, m),
         \A m \in Blocks : Content(m)' = Content(m)
  PROVE  Store!Next
<1>1. \A m \in Blocks \ {n} : User(m)' = User(m)
  BY UserKept, Zenon
<1>2. (IInv => UserFound)'
  BY UserIs, PTL
<1>3. User(n) = Nobody /\ User(n)' = p
  BY <1>2, UserIs, Zenon DEF UserFound
<1>4. /\ Users[n] = Nobody /\ Users' = [Users EXCEPT ![n] = p]
      /\ UNCHANGED Memory
  BY <1>1, <1>3, Zenon DEF Users, Memory
<1>5. Store!Take(p, n)
  BY <1>4, Zenon DEF Store!Take, Users, Memory
<1> QED
  BY <1>5, Zenon DEF Store!Next

LEMMA Gives ==
  ASSUME IInv, IInv', NEW p \in Procs, NEW n \in Blocks,
         IsUser(p, n), \A q \in Procs : ~IsUser(q, n)',
         \A m \in Blocks \ {n}, q \in Procs : IsUser(q, m)' <=> IsUser(q, m),
         \A m \in Blocks : Content(m)' = Content(m)
  PROVE  Store!Next
<1>1. \A m \in Blocks \ {n} : User(m)' = User(m)
  BY UserKept, Zenon
<1>2. (IInv => UserFound)'
  BY UserIs, PTL
<1>3. User(n) = p /\ User(n)' = Nobody
  BY <1>2, UserIs, Zenon DEF UserFound
<1>4. /\ Users[n] = p /\ Users' = [Users EXCEPT ![n] = Nobody]
      /\ UNCHANGED Memory
  BY <1>1, <1>3, Zenon DEF Users, Memory
<1>5. Store!Give(p, n)
  BY <1>4, Zenon DEF Store!Give, Users, Memory
<1> QED
  BY <1>5, Zenon DEF Store!Next

LEMMA Writes ==
  ASSUME IInv, IInv', NEW p \in Procs, NEW n \in Blocks, NEW v \in Values,
         IsUser(p, n), \A m \in Blocks, q \in Procs : IsUser(q, m)' <=> IsUser(q, m),
         Content(n)' = v, \A m \in Blocks \ {n} : Content(m)' = Content(m)
  PROVE  Store!Next
<1>1. \A m \in Blocks : User(m)' = User(m)
  BY UserKept, Zenon
<1>2. User(n) = p
  BY UserIs, Zenon DEF UserFound
<1>3. Users[n] = p /\ UNCHANGED Users /\ Memory' = [Memory EXCEPT ![n] = v]
  BY <1>1, <1>2, Zenon DEF Users, Memory
<1>4. Store!Write(p, n, v)
  BY <1>3, Zenon DEF Store!Write, Users, Memory
<1> QED
  BY <1>4, Zenon DEF Store!Next

\* A step that leaves buffers and disk alone leaves the contents alone.
LEMMA SameContents ==
  ASSUME IInv, IInv', disk' = disk,
         \A b \in Bufs : /\ buf'[b].blockno = buf[b].blockno /\ buf'[b].valid = buf[b].valid
                         /\ buf'[b].data = buf[b].data
  PROVE  \A n \in Blocks : Content(n)' = Content(n)
<1>1. \A n \in Blocks, b \in Bufs : Copy(b, n)' <=> Copy(b, n)
  BY Zenon DEF Copy
<1> QED
  BY <1>1, ContentKept, Zenon

Seen == Store!Next \/ UNCHANGED <<Memory, Users>>

\* The steps of a process in the kernel: bread() takes the block it finds, brelse()
\* gives it back, and nothing else is seen.
LEMMA KernelSeen ==
  ASSUME IInv, IInv', NEW p \in Procs, Kernel(p)
  PROVE  Seen
<1>1. CASE AcquireSleep(p)
  <2>1. /\ UNCHANGED <<buf, disk, mine, want>> /\ \A q \in Procs \ {p} : pc'[q] = pc[q]
        /\ pc[p] = "lock" /\ pc'[p] \in {"bread", "locksleep"}
    BY <1>1, Zenon DEF AcquireSleep, Goto, IInv, TypeOK
  <2>2. \A n \in Blocks, q \in Procs : IsUser(q, n)' <=> IsUser(q, n)
    BY <2>1, Zenon DEF IsUser
  <2> QED
    BY <2>1, <2>2, SameContents, Unseen, Zenon DEF Seen
<1>2. CASE Bread(p)
  <2>0. PICK n \in Blocks : n = want[p]
    BY <1>2, Zenon DEF Bread, IInv, TypeOK, Refs
  <2>1. /\ UNCHANGED <<buf, disk, mine, want>> /\ \A q \in Procs \ {p} : pc'[q] = pc[q]
        /\ pc[p] = "bread" /\ pc'[p] = IF buf[mine[p]].valid THEN "use" ELSE "iderw"
        /\ mine[p] \in Bufs
    BY <1>2, Alone, Zenon DEF Bread, Goto, IInv, TypeOK, Locked
  <2>2. \A m \in Blocks : Content(m)' = Content(m)
    BY <2>1, SameContents, Zenon
  <2>3. \A m \in Blocks, q \in Procs : q # p \/ m # n => (IsUser(q, m)' <=> IsUser(q, m))
    BY <2>0, <2>1, Zenon DEF IsUser
  <2>4. CASE buf[mine[p]].valid
    <3>1. \A q \in Procs : ~IsUser(q, n)
      BY <2>0, <2>1, OneUser, Zenon DEF IsUser, Locked
    <3>2. IsUser(p, n)'
      BY <2>0, <2>1, <2>4, Zenon DEF IsUser
    <3> QED
      BY <2>2, <2>3, <3>1, <3>2, Takes, Zenon DEF Seen
  <2>5. CASE ~buf[mine[p]].valid
    <3>1. ~IsUser(p, n) /\ ~IsUser(p, n)'
      BY <2>0, <2>1, <2>5, Zenon DEF IsUser
    <3> QED
      BY <2>2, <2>3, <3>1, Unseen, Zenon DEF Seen
  <2> QED
    BY <2>4, <2>5, Zenon
<1>3. CASE ReleaseSleep(p)
  <2>0. PICK n \in Blocks : n = want[p]
    BY <1>3, Zenon DEF ReleaseSleep, IInv, TypeOK, Refs
  <2>1. /\ UNCHANGED <<buf, disk, mine, want>>
        /\ \A q \in Procs \ {p} :
             \/ pc'[q] = pc[q]
             \/ pc'[q] = "lock" /\ pc[q] = "locksleep"
        /\ pc[p] = "use" /\ pc'[p] = "deref" /\ buf[mine[p]].valid
    BY <1>3, Zenon DEF ReleaseSleep, LockWaitersWoken, IInv, TypeOK, Flags
  <2>2. \A m \in Blocks : Content(m)' = Content(m)
    BY <2>1, SameContents, Zenon
  <2>3. \A m \in Blocks, q \in Procs : q # p \/ m # n => (IsUser(q, m)' <=> IsUser(q, m))
    BY <2>0, <2>1, Zenon DEF IsUser
  <2>4. IsUser(p, n) /\ ~IsUser(p, n)'
    BY <2>0, <2>1, Zenon DEF IsUser
  <2>5. \A q \in Procs : ~IsUser(q, n)'
    BY <2>0, <2>1, <2>3, <2>4, OneUser DEF IsUser, Locked
  <2> QED
    BY <2>2, <2>3, <2>4, <2>5, Gives, Zenon DEF Seen
<1>4. CASE Brelse(p)
  <2>1. /\ disk' = disk /\ pc[p] = "deref" /\ pc'[p] = "idle"
        /\ \A q \in Procs \ {p} : pc'[q] = pc[q] /\ mine'[q] = mine[q] /\ want'[q] = want[q]
    BY <1>4, Zenon DEF Brelse, Goto, IInv, TypeOK
  <2>2. \A m \in Blocks : Content(m)' = Content(m)
    BY <1>4, <2>1, BrelseKeeps, SameContents, Zenon
  <2>3. \A q \in Procs : pc[q] \in Locked => mine[q] \in Bufs
    BY Alone, Zenon
  <2>4. \A m \in Blocks, q \in Procs : IsUser(q, m)' <=> IsUser(q, m)
    BY <1>4, <2>1, <2>3, BrelseKeeps DEF IsUser, Locked
  <2> QED
    BY <2>2, <2>4, Unseen, Zenon DEF Seen
<1>5. CASE Iderw(p) \/ IderwWoken(p)
  <2>1. /\ UNCHANGED <<buf, disk, mine, want>> /\ \A q \in Procs \ {p} : pc'[q] = pc[q]
        /\ pc[p] \in {"iderw", "iowoken"} /\ pc'[p] \in {"iosleep", "use"}
    BY <1>5, IderwStep, IderwWokenStep DEF Iderw, IderwWoken, IInv, TypeOK
  <2>2. \A n \in Blocks, q \in Procs : IsUser(q, n)' <=> IsUser(q, n)
    BY <2>1, Zenon DEF IsUser
  <2> QED
    BY <2>1, <2>2, SameContents, Unseen, Zenon DEF Seen
<1> QED
  BY <1>1, <1>2, <1>3, <1>4, <1>5, Zenon DEF Kernel

\* bget() may drop a clean copy, which is on the disk.
LEMMA BgetSeen ==
  ASSUME IInv, IInv', Clean, NEW p \in Procs, NEW n \in Blocks, Bget(p, n)
  PROVE  Seen
<1>1. /\ disk' = disk /\ pc[p] = "idle" /\ pc'[p] \in {"lock", "nobufs"}
      /\ \A q \in Procs \ {p} : pc'[q] = pc[q] /\ mine'[q] = mine[q] /\ want'[q] = want[q]
  BY Zenon DEF Bget, Goto, IInv, TypeOK
<1>2. \A q \in Procs : pc[q] \in Locked => mine[q] \in Bufs
  BY Alone, Zenon
<1>3. CASE pc'[p] = "nobufs"
  <2>1. buf' = buf
    BY <1>3, Zenon DEF Bget, Goto, IInv, TypeOK
  <2>2. \A m \in Blocks, q \in Procs : IsUser(q, m)' <=> IsUser(q, m)
    BY <1>1, <2>1, Zenon DEF IsUser
  <2> QED
    BY <1>1, <2>1, <2>2, SameContents, Unseen, Zenon DEF Seen
<1>4. CASE pc'[p] # "nobufs"
  <2>1. PICK b \in Bufs :
          /\ \A c \in Bufs \ {b} : buf'[c] = buf[c] /\ buf[c].blockno # n
          /\ buf'[b].blockno = n
          /\ \/ /\ buf[b].blockno = n /\ buf'[b].valid = buf[b].valid
                /\ buf'[b].dirty = buf[b].dirty /\ buf'[b].data = buf[b].data
             \/ /\ Having(b) = {} /\ ~buf'[b].valid /\ ~buf'[b].dirty /\ ~buf[b].dirty
                /\ buf[b].blockno # n
    BY <1>4, BgetFinds
  <2>2. \A m \in Blocks, q \in Procs : IsUser(q, m)' <=> IsUser(q, m)
    BY <1>1, <1>2, <2>1 DEF IsUser, Locked, Having
  <2>3. CASE /\ buf[b].blockno = n /\ buf'[b].valid = buf[b].valid
             /\ buf'[b].data = buf[b].data
    BY <1>1, <2>1, <2>2, <2>3, SameContents, Unseen, Zenon DEF Seen
  <2>4. CASE /\ ~buf'[b].valid /\ ~buf[b].dirty /\ buf[b].blockno # n
    <3>1. ASSUME NEW m \in Blocks
          PROVE  Content(m)' = Content(m)
      <4>1. CASE Copy(b, m)
        <5>1. Content(m) = disk[m]
          BY <2>4, <4>1, ContentIs, Zenon DEF ContentFound, Copy, Clean, Synced
        <5>2. \A c \in Bufs : ~Copy(c, m)'
          <6>1. buf[b].blockno = m /\ \A c \in Bufs \ {b} : buf[c].blockno # m
            BY <4>1, BcacheConstants, Zenon DEF Copy, IInv, Refs
          <6> QED
            BY <2>1, <2>4, <6>1, Zenon DEF Copy
        <5>3. (IInv => ContentFound)'
          BY ContentIs, PTL
        <5>4. Content(m)' = disk'[m]
          BY <5>2, <5>3, Zenon DEF ContentFound
        <5> QED
          BY <1>1, <5>1, <5>4, Zenon
      <4>2. CASE ~Copy(b, m)
        <5>1. \A c \in Bufs : Copy(c, m)' <=> Copy(c, m)
          BY <2>1, <2>4, <4>2, Zenon DEF Copy
        <5>2. \A c \in Bufs : Copy(c, m) => buf'[c].data = buf[c].data
          BY <2>1, <4>2, Zenon
        <5> QED
          BY <1>1, <5>1, <5>2, ContentKept, Zenon
      <4> QED
        BY <4>1, <4>2, Zenon
    <3> QED
      BY <2>2, <3>1, Unseen, Zenon DEF Seen
  <2> QED
    BY <2>1, <2>3, <2>4, Zenon
<1> QED
  BY <1>3, <1>4, Zenon

\* bwrite() and log_write() write the holder's block.
LEMMA WriteSeen ==
  ASSUME IInv, IInv', NEW p \in Procs, NEW v \in Values, Bwrite(p, v) \/ LogWrite(p, v)
  PROVE  Seen
<1>0. PICK n \in Blocks, b \in Bufs : n = want[p] /\ b = mine[p]
  BY Alone, Zenon DEF Bwrite, LogWrite, IInv, Refs, Locked
<1>1. /\ UNCHANGED <<disk, mine, want>> /\ \A q \in Procs \ {p} : pc'[q] = pc[q]
      /\ pc[p] = "use" /\ pc'[p] \in {"use", "iderw"}
  BY Zenon DEF Bwrite, LogWrite, Goto, IInv, TypeOK
<1>2. buf[b].valid /\ buf[b].blockno = n
  BY <1>0, <1>1, BcacheConstants, Zenon DEF IInv, Refs, Flags
<1>3. /\ \A c \in Bufs : /\ c # b => buf'[c] = buf[c]
                         /\ buf'[c].blockno = buf[c].blockno
                         /\ buf'[c].valid = buf[c].valid
      /\ buf'[b].data = v
  BY <1>0, WriteDirties, Zenon
<1>4. \A q \in Procs : pc[q] \in Locked => mine[q] \in Bufs
  BY Alone, Zenon
<1>5. \A m \in Blocks, q \in Procs : IsUser(q, m)' <=> IsUser(q, m)
  BY <1>1, <1>3, <1>4 DEF IsUser, Locked
<1>6. IsUser(p, n)
  BY <1>0, <1>1, <1>2, Zenon DEF IsUser
<1>7. Content(n)' = v
  <2>1. (IInv => ContentFound)'
    BY ContentIs, PTL
  <2>2. Copy(b, n)'
    BY <1>2, <1>3, Zenon DEF Copy
  <2> QED
    BY <1>3, <2>1, <2>2, Zenon DEF ContentFound
<1>8. ASSUME NEW m \in Blocks \ {n}
      PROVE  Content(m)' = Content(m)
  <2>1. \A c \in Bufs : Copy(c, m)' <=> Copy(c, m)
    BY <1>3, Zenon DEF Copy
  <2>2. \A c \in Bufs : Copy(c, m) => buf'[c].data = buf[c].data
    BY <1>2, <1>3, Zenon DEF Copy
  <2> QED
    BY <1>1, <2>1, <2>2, ContentKept, Zenon
<1>9. Store!Next
  BY <1>5, <1>6, <1>7, <1>8, Writes, Zenon
<1> QED
  BY <1>9, Zenon DEF Seen

\* The disk writes what is in the cache, and ideintr() after a read gives the block to
\* the process that waits for it.
LEMMA DeviceSeen ==
  ASSUME IInv, IInv', "bad" \notin ReadStatus, Device
  PROVE  Seen
<1>1. CASE Disk
  <2>1. /\ UNCHANGED <<buf, pc, mine, want>> /\ disk \in [Blocks -> Values]
        /\ cmd.op = "write" => disk' = [disk EXCEPT ![cmd.block] = cmd.value]
        /\ cmd.op # "write" => disk' = disk
    BY <1>1, Zenon DEF Disk, IInv, TypeOK
  <2>2. \A m \in Blocks, q \in Procs : IsUser(q, m)' <=> IsUser(q, m)
    BY <2>1, Zenon DEF IsUser
  <2>3. cmd.op = "write" => \E b \in Bufs : Copy(b, cmd.block)
    BY <1>1, HeadFacts DEF Disk, Copy, IInv, Commanded, Idle, Flags
  <2>4. ASSUME NEW m \in Blocks
        PROVE  Content(m)' = Content(m)
    <3>1. \A b \in Bufs : Copy(b, m)' <=> Copy(b, m)
      BY <2>1, Zenon DEF Copy
    <3>2. (\A b \in Bufs : ~Copy(b, m)) => disk'[m] = disk[m]
      BY <2>1, <2>3, Zenon
    <3> QED
      BY <2>1, <3>1, <3>2, ContentKept, Zenon
  <2> QED
    BY <2>2, <2>4, Unseen, Zenon DEF Seen
<1>2. ASSUME NEW st \in ReadStatus, Ideintr(st)
      PROVE  Seen
  <2>1. st = "good" /\ UNCHANGED <<disk, mine, want>>
    BY <1>2, BcacheConstants, Zenon DEF Ideintr
  <2>2. PICK b \in Bufs :
          /\ b = Head(idequeue) /\ idequeue # <<>>
          /\ \A c \in Bufs \ {b} : buf'[c] = buf[c]
          /\ buf'[b].blockno = buf[b].blockno /\ buf'[b].valid
          /\ buf'[b].data = IF ~buf[b].dirty THEN disk[buf[b].blockno] ELSE buf[b].data
    BY <1>2, <2>1, IdeintrFills, Zenon
  <2>3. PICK p \in Procs :
          /\ mine[p] = b /\ pc[p] = "iosleep" /\ pc' = [pc EXCEPT ![p] = "iowoken"]
    BY <1>2, <2>2, IdeintrFills, Zenon
  <2>4. PICK n \in Blocks : want[p] = n /\ buf[b].blockno = n
    BY <2>3, BcacheConstants, Zenon DEF IInv, Refs
  <2>5. pc'[p] = "iowoken" /\ \A q \in Procs \ {p} : pc'[q] = pc[q]
    BY <2>3, Zenon DEF IInv, TypeOK
  <2>6. \A q \in Procs : pc[q] \in Locked => mine[q] \in Bufs
    BY Alone, Zenon
  <2>7. \A m \in Blocks \ {n}, q \in Procs : IsUser(q, m)' <=> IsUser(q, m)
    <3>1. ASSUME NEW m \in Blocks \ {n}, NEW q \in Procs, want[q] = m, pc[q] \in Locked
          PROVE  mine[q] \in Bufs \ {b} /\ buf'[mine[q]] = buf[mine[q]]
      BY <2>2, <2>4, <2>6, <3>1, BcacheConstants DEF IInv, Refs
    <3> QED
      BY <2>1, <2>4, <2>5, <3>1 DEF IsUser, Locked
  <2>8. \A m \in Blocks \ {n} : Content(m)' = Content(m)
    <3>1. \A m \in Blocks \ {n}, c \in Bufs : Copy(c, m)' <=> Copy(c, m)
      BY <2>2, <2>4, Zenon DEF Copy
    <3>2. \A m \in Blocks \ {n}, c \in Bufs : Copy(c, m) => buf'[c].data = buf[c].data
      BY <2>2, <2>4, Zenon DEF Copy
    <3> QED
      BY <2>1, <3>1, <3>2, ContentKept, Zenon
  <2>9. (IInv => ContentFound)'
    BY ContentIs, PTL
  <2>10. Content(n)' = buf'[b].data
    <3>1. Copy(b, n)'
      BY <2>2, <2>4, Zenon DEF Copy
    <3> QED
      BY <2>9, <3>1, Zenon DEF ContentFound
  <2>11. CASE buf[b].dirty
    <3>1. Copy(b, n)
      BY <2>4, <2>11, Zenon DEF Copy, IInv, Flags
    <3>2. Content(n)' = Content(n)
      BY <2>2, <2>10, <2>11, <3>1, ContentIs, Zenon DEF ContentFound
    <3>3. IsUser(p, n) /\ IsUser(p, n)'
      BY <2>1, <2>2, <2>3, <2>4, <2>5, <3>1, Zenon DEF IsUser, Copy
    <3>4. \A q \in Procs \ {p} : ~IsUser(q, n) /\ ~IsUser(q, n)'
      BY <2>1, <2>3, <2>4, <2>5, OneUser DEF IsUser, Locked
    <3> QED
      BY <2>7, <2>8, <3>2, <3>3, <3>4, Unseen, Zenon DEF Seen
  <2>12. CASE ~buf[b].dirty
    <3>1. ~buf[b].valid
      BY <2>3, <2>12, Zenon DEF IInv, Flags, Synced
    <3>2. \A c \in Bufs : ~Copy(c, n)
      BY <2>4, <3>1, BcacheConstants DEF Copy, IInv, Refs
    <3>3. Content(n)' = Content(n)
      BY <2>2, <2>4, <2>10, <2>12, <3>2, ContentIs, Zenon DEF ContentFound
    <3>4. \A q \in Procs : ~IsUser(q, n)
      BY <2>3, <2>4, <3>1, OneUser, Zenon DEF IsUser, Locked
    <3>5. IsUser(p, n)'
      BY <2>1, <2>2, <2>3, <2>4, <2>5, Zenon DEF IsUser
    <3> QED
      BY <2>7, <2>8, <3>3, <3>4, <3>5, Takes, Zenon DEF Seen
  <2> QED
    BY <2>11, <2>12, Zenon
<1> QED
  BY <1>1, <1>2, Zenon DEF Device

\* When no read of the disk fails, the cache is a store of blocks: whatever is cached,
\* dropped, queued or on its way, a block has one content, which only the process that
\* has the block changes, and one process at a time has it.
THEOREM ImplementsBlockStore ==
  ASSUME "bad" \notin ReadStatus
  PROVE  Spec => StoresBlocks
<1>1. Init => Store!Init
  <2> SUFFICES ASSUME Init PROVE Store!Init
    BY Zenon
  <2>1. ASSUME NEW n \in Blocks
        PROVE  Content(n) = disk[n] /\ User(n) = Nobody
    <3>1. (\A b \in Bufs : ~Copy(b, n)) /\ \A p \in Procs : ~IsUser(p, n)
      BY DEF Init, Copy, IsUser
    <3> QED
      BY <3>1, InitInv, ContentIs, UserIs, Zenon DEF ContentFound, UserFound
  <2> QED
    BY <2>1, Zenon DEF Init, Store!Init
<1>2. IInv /\ IInv' /\ Clean /\ [Next]_vars => [Store!Next]_<<Memory, Users>>
  <2> SUFFICES ASSUME IInv, IInv', Clean, [Next]_vars PROVE Seen
    BY Zenon DEF Seen
  <2>1. CASE UNCHANGED vars
    <3>1. UNCHANGED <<buf, disk>>
          /\ \A n \in Blocks, p \in Procs : IsUser(p, n)' <=> IsUser(p, n)
      BY <2>1, Zenon DEF vars, IsUser
    <3> QED
      BY <3>1, SameContents, Unseen, Zenon DEF Seen
  <2> QED
    BY <2>1, KernelSeen, BgetSeen, WriteSeen, DeviceSeen, Zenon DEF Next
<1>3. IInv /\ Clean /\ [Next]_vars => IInv' /\ Clean'
  BY StepInv, CleanStep, Zenon
<1> QED
  BY <1>1, <1>2, <1>3, InitInv, PTL DEF Spec, StoresBlocks, Store!Spec, Memory, Users
=============================================================================
