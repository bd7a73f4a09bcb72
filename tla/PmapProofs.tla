----------------------------- MODULE PmapProofs -----------------------------
(***************************************************************************)
(* Reference counts are exact and page tables private, whatever the number *)
(* of environments, pages and entries.                                     *)
(***************************************************************************)
EXTENDS Pmap, FiniteSetTheorems, TLAPS

Entries == {Absent} \cup [pa : Pages, w : BOOLEAN]

Memory ==
  [ref : [Pages -> 0 .. (Wrap - 1)], free : Seq(Pages),
   mem : [Pages -> [Index -> Entries]], panicked : BOOLEAN]

Dirs == [Envs -> Pages \cup {NULL}]

Extra(x, p) == IF p = x THEN 1 ELSE 0

Count(m, D, p) ==
  Cardinality(Mapped(m, D, p)) + Cardinality(AsDirectory(D, p))
    + Cardinality(AsTable(m, D, p))

\* A page is the directory of one environment, or the table for one entry, or data.
Private(m, D) ==
  /\ \A e, f \in Live(D) : D[e] = D[f] => e = f
  /\ \A e, f \in Live(D) : \A i, j \in Pdes :
       Table(m, D, e, i) # NULL /\ Table(m, D, e, i) = Table(m, D, f, j) => e = f /\ i = j
  /\ \A e, f \in Live(D) : \A i \in Pdes : Table(m, D, e, i) # D[f]
  /\ \A e, f \in Live(D) : \A va \in Vas : Pte(m, D, e, va).pa # D[f]
  /\ \A e, f \in Live(D) : \A va \in Vas, i \in Pdes :
       Pte(m, D, e, va).pa # NULL => Pte(m, D, e, va).pa # Table(m, D, f, i)

\* The free list, when the kernel has page h in its hands and has counted page x
\* for a reference that it has yet to store.
FreeList(m, h) ==
  IsInjective(m.free) /\ Range(m.free) = {p \in Pages : m.ref[p] = 0} \ {h}

Good(m, D, h, x) ==
  /\ m \in Memory /\ D \in Dirs
  /\ Private(m, D)
  /\ \A p \in Pages : m.ref[p] = Count(m, D, p) + Extra(x, p)
  /\ FreeList(m, h)
  /\ h # NULL => h \in Pages /\ m.ref[h] = 0
  /\ ~m.panicked

\* What env_free() has done so far.
Emptied ==
  freeing # NULL =>
    /\ freeing \in Live(env_pgdir)
    /\ \A i \in Pdes : i < PDX(at) => Table(pm, env_pgdir, freeing, i) = NULL
    /\ \A va \in Vas : PDX(va) = PDX(at) /\ PTX(va) < PTX(at) =>
         Pte(pm, env_pgdir, freeing, va).pa = NULL

TypeOK ==
  /\ parent \in [Envs -> Envs \cup {NULL}]
  /\ freeing \in Envs \cup {NULL}
  /\ at \in (0 .. NPDENTRIES) \X (0 .. NPTENTRIES)

IInv == TypeOK /\ Good(pm, env_pgdir, NULL, NULL) /\ Emptied

-----------------------------------------------------------------------------
(* Views of memory: what a write does to page tables and mappings.         *)

\* From m to n, the page tables stay; an entry of e becomes ent.
SameTables(m, n, D) ==
  \A f \in Live(D) : \A i \in Pdes : Table(n, D, f, i) = Table(m, D, f, i)

SamePtes(m, n, D) ==
  \A f \in Live(D) : \A u \in Vas : Pte(n, D, f, u) = Pte(m, D, f, u)

PteSet(m, n, D, e, va, ent) ==
  \A f \in Live(D) : \A u \in Vas :
    Pte(n, D, f, u) = IF f = e /\ u = va THEN ent ELSE Pte(m, D, f, u)

\* From m to n, entry i of the directory of e points at q.
TableSet(m, n, D, e, i, q) ==
  \A f \in Live(D) : \A j \in Pdes :
    Table(n, D, f, j) = IF f = e /\ j = i THEN q ELSE Table(m, D, f, j)

\* Page q is not part of any address space.
Unused(m, D, q) ==
  /\ \A f \in Live(D) : D[f] # q
  /\ \A f \in Live(D) : \A i \in Pdes : Table(m, D, f, i) # q
  /\ \A f \in Live(D) : \A u \in Vas : Pte(m, D, f, u).pa # q

LEMMA Constants ==
  /\ NENV \in Nat /\ NPDENTRIES \in Nat /\ NPTENTRIES \in Nat
  /\ NPDENTRIES > 0 /\ NPTENTRIES > 0 /\ NENV > 0
  /\ NULL \notin Pages /\ NULL \notin Nat
  /\ Wrap \in Nat /\ Wrap > 1
BY PmapConstants

LEMMA NullEnv == NULL \notin Envs
BY Constants DEF Envs

LEMMA AbsentEntry == Absent \in Entries /\ Absent.pa = NULL /\ Absent.w = FALSE
BY Zenon DEF Absent, Entries

LEMMA EntryParts ==
  ASSUME NEW ent \in Entries
  PROVE  /\ ent.pa \in Pages \cup {NULL} /\ ent.w \in BOOLEAN
         /\ ent.pa = NULL => ent = Absent
<1>1. CASE ent = Absent
  BY <1>1, AbsentEntry, Zenon
<1>2. CASE ent \in [pa : Pages, w : BOOLEAN]
  BY <1>2, Constants, Zenon
<1> QED
  BY <1>1, <1>2, Zenon DEF Entries

LEMMA PageEntry ==
  ASSUME NEW p \in Pages, NEW w \in BOOLEAN
  PROVE  Entry(p, w) \in Entries /\ Entry(p, w).pa = p /\ Entry(p, w).w = w
BY Zenon DEF Entry, Entries

LEMMA ZeroType == Zero \in [Index -> Entries] /\ \A i \in Index : Zero[i] = Absent
BY AbsentEntry, Zenon DEF Zero

LEMMA VaParts ==
  ASSUME NEW va \in Vas
  PROVE  /\ PDX(va) \in Pdes /\ PTX(va) \in Ptes /\ va = <<PDX(va), PTX(va)>>
         /\ PDX(va) \in Index /\ PTX(va) \in Index
BY DEF Vas, PDX, PTX, Index

LEMMA VaPair ==
  ASSUME NEW i \in Pdes, NEW j \in Ptes
  PROVE  <<i, j>> \in Vas /\ PDX(<<i, j>>) = i /\ PTX(<<i, j>>) = j
BY Zenon DEF Vas, PDX, PTX

LEMMA LiveType ==
  ASSUME NEW D \in Dirs, NEW e \in Live(D)
  PROVE  e \in Envs /\ D[e] \in Pages
BY Zenon DEF Dirs, Live

LEMMA PteDef ==
  ASSUME NEW m, NEW D, NEW e, NEW va
  PROVE  Pte(m, D, e, va) =
           IF Table(m, D, e, PDX(va)) = NULL THEN Absent
           ELSE m.mem[Table(m, D, e, PDX(va))][PTX(va)]
<1>1. PgdirWalk(m, D[e], va, FALSE).page = Table(m, D, e, PDX(va))
  BY Zenon DEF PgdirWalk, Table, Present
<1> QED
  BY <1>1, Zenon DEF Pte, PageLookup

LEMMA TableType ==
  ASSUME NEW m \in Memory, NEW D \in Dirs, NEW e \in Live(D), NEW i \in Pdes
  PROVE  Table(m, D, e, i) \in Pages \cup {NULL}
<1>1. D[e] \in Pages
  BY LiveType, Zenon
<1>2. m.mem \in [Pages -> [Index -> Entries]] /\ i \in Index
  BY Zenon DEF Memory, Index
<1>3. m.mem[D[e]][i] \in Entries
  BY <1>1, <1>2, Zenon
<1> QED
  BY <1>3, EntryParts, Zenon DEF Table

LEMMA PteType ==
  ASSUME NEW m \in Memory, NEW D \in Dirs, NEW e \in Live(D), NEW va \in Vas
  PROVE  Pte(m, D, e, va) \in Entries
<1>1. Table(m, D, e, PDX(va)) \in Pages \cup {NULL}
  BY TableType, VaParts, Zenon
<1>2. m.mem \in [Pages -> [Index -> Entries]] /\ PTX(va) \in Index
  BY VaParts, Zenon DEF Memory
<1>3. CASE Table(m, D, e, PDX(va)) = NULL
  BY <1>3, PteDef, AbsentEntry, Zenon
<1>4. CASE Table(m, D, e, PDX(va)) # NULL
  <2>1. m.mem[Table(m, D, e, PDX(va))][PTX(va)] \in Entries
    BY <1>1, <1>2, <1>4, Zenon
  <2> QED
    BY <2>1, <1>4, PteDef, Zenon
<1> QED
  BY <1>3, <1>4, Zenon

LEMMA PteField ==
  ASSUME NEW m \in Memory, NEW D \in Dirs, NEW e \in Live(D), NEW va \in Vas
  PROVE  /\ Pte(m, D, e, va).pa \in Pages \cup {NULL} /\ Pte(m, D, e, va).w \in BOOLEAN
         /\ Pte(m, D, e, va).pa = NULL => Pte(m, D, e, va) = Absent
BY PteType, EntryParts, Zenon

\* Writing an entry of a page table changes one mapping.
LEMMA WriteEntry ==
  ASSUME NEW m \in Memory, NEW n, NEW D \in Dirs, Private(m, D),
         NEW e \in Live(D), NEW va \in Vas, NEW ent \in Entries,
         Table(m, D, e, PDX(va)) # NULL,
         n.mem = [m.mem EXCEPT ![Table(m, D, e, PDX(va))][PTX(va)] = ent]
  PROVE  SameTables(m, n, D) /\ PteSet(m, n, D, e, va, ent)
<1>1. PICK pt : pt = Table(m, D, e, PDX(va))
  BY Zenon
<1>2. pt \in Pages
  BY <1>1, TableType, VaParts, Zenon
<1>3. m.mem \in [Pages -> [Index -> Entries]] /\ PTX(va) \in Index
  BY VaParts, Zenon DEF Memory
<1>4. n.mem = [m.mem EXCEPT ![pt][PTX(va)] = ent]
  BY <1>1, Zenon
<1>5. \A p \in Pages : p # pt => n.mem[p] = m.mem[p]
  BY <1>3, <1>4, Zenon
<1>6. \A j \in Index : n.mem[pt][j] = IF j = PTX(va) THEN ent ELSE m.mem[pt][j]
  BY <1>2, <1>3, <1>4
<1>7. SameTables(m, n, D)
  <2> SUFFICES ASSUME NEW f \in Live(D), NEW i \in Pdes
               PROVE  Table(n, D, f, i) = Table(m, D, f, i)
    BY Zenon DEF SameTables
  <2>1. D[f] # pt
    BY <1>1, VaParts DEF Private
  <2> QED
    BY <2>1, <1>5, LiveType, Zenon DEF Table
<1>8. ASSUME NEW f \in Live(D), NEW u \in Vas
      PROVE  Pte(n, D, f, u) = IF f = e /\ u = va THEN ent ELSE Pte(m, D, f, u)
  <2>1. PICK t : t = Table(m, D, f, PDX(u))
    BY Zenon
  <2>2. Table(n, D, f, PDX(u)) = t
    BY <1>7, <2>1, VaParts, Zenon DEF SameTables
  <2>3. t \in Pages \cup {NULL}
    BY <2>1, TableType, VaParts, Zenon
  <2>0. PDX(u) \in Pdes /\ PDX(va) \in Pdes /\ pt # NULL
    BY VaParts, <1>2, Constants, Zenon
  <2>4. t = pt => f = e /\ PDX(u) = PDX(va)
    <3>1. \A i, j \in Pdes : Table(m, D, e, i) # NULL
            /\ Table(m, D, e, i) = Table(m, D, f, j) => e = f /\ i = j
      BY Zenon DEF Private
    <3> QED
      BY <1>1, <2>0, <2>1, <3>1, Zenon
  <2>5. f = e /\ u = va => t = pt
    BY <1>1, <2>1, Zenon
  <2>6. Pte(n, D, f, u) = IF t = NULL THEN Absent ELSE n.mem[t][PTX(u)]
    BY <2>2, PteDef, Zenon
  <2>7. Pte(m, D, f, u) = IF t = NULL THEN Absent ELSE m.mem[t][PTX(u)]
    BY <2>1, PteDef, Zenon
  <2>8. CASE t = pt
    <3>1. u = va <=> PTX(u) = PTX(va)
      BY <2>4, <2>8, VaParts, Zenon
    <3>2. PTX(u) \in Index /\ t # NULL
      BY VaParts, <2>8, <1>2, Constants, Zenon
    <3> QED
      BY <3>1, <3>2, <2>4, <2>6, <2>7, <2>8, <1>6, Zenon
  <2>9. CASE t # pt
    BY <2>3, <2>5, <2>6, <2>7, <2>9, <1>5, Zenon
  <2> QED
    BY <2>8, <2>9, Zenon
<1> QED
  BY <1>7, <1>8, Zenon DEF PteSet

\* Writing an entry of a page directory changes one page table; it had no
\* mappings and the new one has none.
LEMMA WriteTable ==
  ASSUME NEW m \in Memory, NEW n, NEW D \in Dirs, Private(m, D),
         NEW e \in Live(D), NEW i \in Pdes, NEW ent \in Entries,
         n.mem = [m.mem EXCEPT ![D[e]][i] = ent],
         \A u \in Vas : PDX(u) = i => Pte(m, D, e, u) = Absent,
         ent.pa # NULL => m.mem[ent.pa] = Zero /\ \A f \in Live(D) : D[f] # ent.pa
  PROVE  TableSet(m, n, D, e, i, ent.pa) /\ SamePtes(m, n, D)
<1>1. PICK d : d = D[e]
  BY Zenon
<1>2. d \in Pages
  BY <1>1, LiveType, Zenon
<1>3. m.mem \in [Pages -> [Index -> Entries]] /\ i \in Index
  BY Zenon DEF Memory, Index
<1>4. n.mem = [m.mem EXCEPT ![d][i] = ent]
  BY <1>1, Zenon
<1>5. \A p \in Pages : p # d => n.mem[p] = m.mem[p]
  BY <1>3, <1>4, Zenon
<1>6. \A j \in Index : n.mem[d][j] = IF j = i THEN ent ELSE m.mem[d][j]
  BY <1>2, <1>3, <1>4
<1>7. TableSet(m, n, D, e, i, ent.pa)
  <2> SUFFICES ASSUME NEW f \in Live(D), NEW j \in Pdes
               PROVE  Table(n, D, f, j) = IF f = e /\ j = i THEN ent.pa ELSE Table(m, D, f, j)
    BY Zenon DEF TableSet
  <2>1. D[f] = d => f = e
    BY <1>1, Zenon DEF Private
  <2>2. D[f] \in Pages /\ j \in Index
    BY LiveType, Zenon DEF Index
  <2>3. CASE f = e
    BY <2>2, <2>3, <1>1, <1>6, Zenon DEF Table
  <2>4. CASE f # e
    BY <2>1, <2>2, <2>4, <1>5, Zenon DEF Table
  <2> QED
    BY <2>3, <2>4, Zenon
<1>8. ASSUME NEW f \in Live(D), NEW u \in Vas
      PROVE  Pte(n, D, f, u) = Pte(m, D, f, u)
  <2>1. PDX(u) \in Pdes /\ PTX(u) \in Index
    BY VaParts, Zenon
  <2>2. CASE f = e /\ PDX(u) = i
    <3>1. Pte(m, D, f, u) = Absent
      BY <2>2, Zenon
    <3>2. Table(n, D, f, PDX(u)) = ent.pa
      BY <1>7, <2>1, <2>2, Zenon DEF TableSet
    <3>3. CASE ent.pa = NULL
      BY <3>1, <3>2, <3>3, PteDef
    <3>4. CASE ent.pa # NULL
      <4>1. ent.pa \in Pages /\ ent.pa # d /\ m.mem[ent.pa] = Zero
        BY <3>4, <1>1, EntryParts, Zenon
      <4>2. n.mem[ent.pa] = Zero
        BY <4>1, <1>5, Zenon
      <4>3. n.mem[ent.pa][PTX(u)] = Absent
        BY <4>2, <2>1, ZeroType, Zenon
      <4> QED
        BY <3>1, <3>2, <4>3, <3>4, PteDef, Zenon
    <3> QED
      BY <3>3, <3>4, Zenon
  <2>3. CASE ~(f = e /\ PDX(u) = i)
    <3>1. PICK t : t = Table(m, D, f, PDX(u))
      BY Zenon
    <3>2. Table(n, D, f, PDX(u)) = t
      BY <1>7, <2>1, <2>3, <3>1, Zenon DEF TableSet
    <3>3. t \in Pages \cup {NULL} /\ t # d
      BY <3>1, <2>1, <1>1, TableType DEF Private
    <3>4. t # NULL => n.mem[t] = m.mem[t]
      BY <3>3, <1>5, Zenon
    <3> QED
      BY <3>1, <3>2, <3>4, PteDef, Zenon
  <2> QED
    BY <2>2, <2>3, Zenon
<1> QED
  BY <1>7, <1>8, Zenon DEF SamePtes

-----------------------------------------------------------------------------
(* Counting references.                                                    *)

LEMMA OnePoint ==
  ASSUME NEW S, NEW T, NEW x, IsFiniteSet(S), IsFiniteSet(T), S \ {x} = T \ {x}
  PROVE  Cardinality(T) + (IF x \in S THEN 1 ELSE 0)
           = Cardinality(S) + (IF x \in T THEN 1 ELSE 0)
<1>1. Cardinality(S \ {x}) = IF x \in S THEN Cardinality(S) - 1 ELSE Cardinality(S)
  BY FS_RemoveElement, Zenon
<1>2. Cardinality(T \ {x}) = IF x \in T THEN Cardinality(T) - 1 ELSE Cardinality(T)
  BY FS_RemoveElement, Zenon
<1>3. Cardinality(S) \in Nat /\ Cardinality(T) \in Nat
  BY FS_CardinalityType, Zenon
<1> QED
  BY <1>1, <1>2, <1>3

LEMMA FiniteUses ==
  ASSUME NEW m, NEW D, NEW p
  PROVE  /\ IsFiniteSet(Mapped(m, D, p)) /\ Cardinality(Mapped(m, D, p)) \in Nat
         /\ IsFiniteSet(AsDirectory(D, p)) /\ Cardinality(AsDirectory(D, p)) \in Nat
         /\ IsFiniteSet(AsTable(m, D, p)) /\ Cardinality(AsTable(m, D, p)) \in Nat
<1>1. IsFiniteSet(Envs) /\ IsFiniteSet(Pdes) /\ IsFiniteSet(Ptes)
  BY FS_Interval, Constants DEF Envs, Pdes, Ptes
<1>2. IsFiniteSet(Live(D))
  BY <1>1, FS_Subset, Zenon DEF Live
<1>3. IsFiniteSet(Vas)
  BY <1>1, FS_Product, Zenon DEF Vas
<1>4. IsFiniteSet(Live(D) \X Vas) /\ IsFiniteSet(Live(D) \X Pdes)
  BY <1>1, <1>2, <1>3, FS_Product, Zenon
<1>5. /\ Mapped(m, D, p) \subseteq Live(D) \X Vas
      /\ AsDirectory(D, p) \subseteq Live(D)
      /\ AsTable(m, D, p) \subseteq Live(D) \X Pdes
  BY Zenon DEF Mapped, AsDirectory, AsTable
<1>6. /\ IsFiniteSet(Mapped(m, D, p)) /\ IsFiniteSet(AsDirectory(D, p))
      /\ IsFiniteSet(AsTable(m, D, p))
  BY <1>2, <1>4, <1>5, FS_Subset, Zenon
<1> QED
  BY <1>6, FS_CardinalityType, Zenon

LEMMA CountNat ==
  ASSUME NEW m, NEW D, NEW p
  PROVE  Count(m, D, p) \in Nat
BY FiniteUses DEF Count

LEMMA ExtraNat ==
  ASSUME NEW x, NEW p
  PROVE  Extra(x, p) \in {0, 1} /\ Extra(p, p) = 1 /\ (p # x => Extra(x, p) = 0)
BY Zenon DEF Extra

LEMMA InMapped ==
  ASSUME NEW m, NEW D, NEW p, NEW e \in Live(D), NEW va \in Vas
  PROVE  <<e, va>> \in Mapped(m, D, p) <=> Pte(m, D, e, va).pa = p
BY Zenon DEF Mapped

LEMMA InAsTable ==
  ASSUME NEW m, NEW D, NEW p, NEW e \in Live(D), NEW i \in Pdes
  PROVE  <<e, i>> \in AsTable(m, D, p) <=> Table(m, D, e, i) = p
BY Zenon DEF AsTable

LEMMA CountZero ==
  ASSUME NEW m, NEW D, NEW p
  PROVE  Count(m, D, p) = 0 <=> Unused(m, D, p)
<1>1. Count(m, D, p) = 0 <=>
        /\ Cardinality(Mapped(m, D, p)) = 0 /\ Cardinality(AsDirectory(D, p)) = 0
        /\ Cardinality(AsTable(m, D, p)) = 0
  BY FiniteUses DEF Count
<1>2. Count(m, D, p) = 0 <=>
        Mapped(m, D, p) = {} /\ AsDirectory(D, p) = {} /\ AsTable(m, D, p) = {}
  BY <1>1, FiniteUses, FS_EmptySet, Zenon
<1>3. Mapped(m, D, p) = {} <=> \A f \in Live(D) : \A u \in Vas : Pte(m, D, f, u).pa # p
  <2>1. ASSUME NEW x \in Mapped(m, D, p)
        PROVE  x[1] \in Live(D) /\ x[2] \in Vas /\ Pte(m, D, x[1], x[2]).pa = p
    BY Zenon DEF Mapped
  <2>2. ASSUME NEW f \in Live(D), NEW u \in Vas
        PROVE  <<f, u>> \in Mapped(m, D, p) <=> Pte(m, D, f, u).pa = p
    BY InMapped
  <2> QED
    BY <2>1, <2>2, Zenon
<1>4. AsTable(m, D, p) = {} <=> \A f \in Live(D) : \A i \in Pdes : Table(m, D, f, i) # p
  <2>1. ASSUME NEW x \in AsTable(m, D, p)
        PROVE  x[1] \in Live(D) /\ x[2] \in Pdes /\ Table(m, D, x[1], x[2]) = p
    BY Zenon DEF AsTable
  <2>2. ASSUME NEW f \in Live(D), NEW i \in Pdes
        PROVE  <<f, i>> \in AsTable(m, D, p) <=> Table(m, D, f, i) = p
    BY InAsTable
  <2> QED
    BY <2>1, <2>2, Zenon
<1>5. AsDirectory(D, p) = {} <=> \A f \in Live(D) : D[f] # p
  BY Zenon DEF AsDirectory
<1> QED
  BY <1>2, <1>3, <1>4, <1>5, Zenon DEF Unused

\* One mapping changes, from one page to another.
LEMMA CountPte ==
  ASSUME NEW m, NEW n, NEW D, NEW e \in Live(D), NEW va \in Vas, NEW ent,
         SameTables(m, n, D), PteSet(m, n, D, e, va, ent), NEW p \in Pages
  PROVE  Count(n, D, p) + Extra(Pte(m, D, e, va).pa, p)
           = Count(m, D, p) + Extra(ent.pa, p)
<1>1. AsTable(n, D, p) = AsTable(m, D, p)
  BY Zenon DEF AsTable, SameTables
<1>2. Mapped(m, D, p) \ {<<e, va>>} = Mapped(n, D, p) \ {<<e, va>>}
  <2>1. ASSUME NEW x \in Live(D) \X Vas, x # <<e, va>>
        PROVE  x \in Mapped(m, D, p) <=> x \in Mapped(n, D, p)
    <3>1. x[1] \in Live(D) /\ x[2] \in Vas /\ ~(x[1] = e /\ x[2] = va)
      BY <2>1
    <3>2. Pte(n, D, x[1], x[2]) = Pte(m, D, x[1], x[2])
      BY <3>1, Zenon DEF PteSet
    <3> QED
      BY <3>2, Zenon DEF Mapped
  <2>2. Mapped(m, D, p) \subseteq Live(D) \X Vas /\ Mapped(n, D, p) \subseteq Live(D) \X Vas
    BY Zenon DEF Mapped
  <2> QED
    BY <2>1, <2>2, Zenon
<1>3. Pte(n, D, e, va) = ent
  BY Zenon DEF PteSet
<1>4. Extra(Pte(m, D, e, va).pa, p) = (IF <<e, va>> \in Mapped(m, D, p) THEN 1 ELSE 0)
  BY InMapped DEF Extra
<1>5. Extra(ent.pa, p) = (IF <<e, va>> \in Mapped(n, D, p) THEN 1 ELSE 0)
  BY InMapped, <1>3 DEF Extra
<1>6. Cardinality(Mapped(n, D, p)) + Extra(Pte(m, D, e, va).pa, p)
        = Cardinality(Mapped(m, D, p)) + Extra(ent.pa, p)
  BY <1>2, <1>4, <1>5, OnePoint, FiniteUses
<1> QED
  BY <1>1, <1>6, FiniteUses, ExtraNat DEF Count

\* One entry of a directory changes.
LEMMA CountTable ==
  ASSUME NEW m, NEW n, NEW D, NEW e \in Live(D), NEW i \in Pdes, NEW q,
         SamePtes(m, n, D), TableSet(m, n, D, e, i, q), NEW p \in Pages
  PROVE  Count(n, D, p) + Extra(Table(m, D, e, i), p) = Count(m, D, p) + Extra(q, p)
<1>1. Mapped(n, D, p) = Mapped(m, D, p)
  BY Zenon DEF Mapped, SamePtes
<1>2. AsTable(m, D, p) \ {<<e, i>>} = AsTable(n, D, p) \ {<<e, i>>}
  <2>1. ASSUME NEW x \in Live(D) \X Pdes, x # <<e, i>>
        PROVE  x \in AsTable(m, D, p) <=> x \in AsTable(n, D, p)
    <3>1. x[1] \in Live(D) /\ x[2] \in Pdes /\ ~(x[1] = e /\ x[2] = i)
      BY <2>1
    <3>2. Table(n, D, x[1], x[2]) = Table(m, D, x[1], x[2])
      BY <3>1, Zenon DEF TableSet
    <3> QED
      BY <3>2, Zenon DEF AsTable
  <2>2. AsTable(m, D, p) \subseteq Live(D) \X Pdes /\ AsTable(n, D, p) \subseteq Live(D) \X Pdes
    BY Zenon DEF AsTable
  <2> QED
    BY <2>1, <2>2, Zenon
<1>3. Table(n, D, e, i) = q
  BY Zenon DEF TableSet
<1>4. Extra(Table(m, D, e, i), p) = (IF <<e, i>> \in AsTable(m, D, p) THEN 1 ELSE 0)
  BY InAsTable DEF Extra
<1>5. Extra(q, p) = (IF <<e, i>> \in AsTable(n, D, p) THEN 1 ELSE 0)
  BY InAsTable, <1>3 DEF Extra
<1>6. Cardinality(AsTable(n, D, p)) + Extra(Table(m, D, e, i), p)
        = Cardinality(AsTable(m, D, p)) + Extra(q, p)
  BY <1>2, <1>4, <1>5, OnePoint, FiniteUses
<1> QED
  BY <1>1, <1>6, FiniteUses, ExtraNat DEF Count

\* The directory of one environment changes; it had no page tables and has none.
DirSet(m, n, D, C, e, q) ==
  /\ C = [D EXCEPT ![e] = q]
  /\ \A f \in Live(D) \ {e} : \A i \in Pdes : Table(n, C, f, i) = Table(m, D, f, i)
  /\ \A f \in Live(D) \ {e} : \A u \in Vas : Pte(n, C, f, u) = Pte(m, D, f, u)
  /\ D[e] # NULL => \A i \in Pdes : Table(m, D, e, i) = NULL
  /\ q # NULL => \A i \in Pdes : Table(n, C, e, i) = NULL

DirKept(m, n, D, C, e, q) ==
  /\ C \in Dirs
  /\ Live(C) \ {e} = Live(D) \ {e}
  /\ \A f \in Live(D) \ {e} : C[f] = D[f]
  /\ C[e] = q
  /\ e \in Live(D) => \A u \in Vas : Pte(m, D, e, u) = Absent
  /\ e \in Live(C) => \A u \in Vas : Pte(n, C, e, u) = Absent

LEMMA DirViews ==
  ASSUME NEW m, NEW n, NEW D \in Dirs, NEW C, NEW e \in Envs, NEW q \in Pages \cup {NULL},
         DirSet(m, n, D, C, e, q)
  PROVE  DirKept(m, n, D, C, e, q)
<1>1. C = [D EXCEPT ![e] = q]
  BY Zenon DEF DirSet
<1>2. C \in Dirs /\ C[e] = q /\ \A f \in Envs \ {e} : C[f] = D[f]
  BY <1>1, Zenon DEF Dirs
<1>3. Live(C) \ {e} = Live(D) \ {e}
  BY <1>2, Zenon DEF Live
<1>4. ASSUME e \in Live(D), NEW u \in Vas PROVE Pte(m, D, e, u) = Absent
  <2>1. Table(m, D, e, PDX(u)) = NULL
    BY <1>4, VaParts, Zenon DEF DirSet, Live
  <2> QED
    BY <2>1, PteDef, Zenon
<1>5. ASSUME e \in Live(C), NEW u \in Vas PROVE Pte(n, C, e, u) = Absent
  <2>1. Table(n, C, e, PDX(u)) = NULL
    BY <1>2, <1>5, VaParts, Zenon DEF DirSet, Live
  <2> QED
    BY <2>1, PteDef, Zenon
<1> QED
  BY <1>2, <1>3, <1>4, <1>5, Zenon DEF DirKept, Live

LEMMA CountDir ==
  ASSUME NEW m, NEW n, NEW D \in Dirs, NEW C, NEW e \in Envs, NEW q \in Pages \cup {NULL},
         DirSet(m, n, D, C, e, q), NEW p \in Pages
  PROVE  Count(n, C, p) + Extra(D[e], p) = Count(m, D, p) + Extra(q, p)
<1> DirKept(m, n, D, C, e, q)
  BY DirViews, Zenon
<1>0. p # NULL /\ Absent.pa = NULL
  BY Constants, AbsentEntry, Zenon
<1>1. Mapped(n, C, p) = Mapped(m, D, p)
  <2>1. ASSUME NEW f, NEW u \in Vas
        PROVE  (f \in Live(C) /\ Pte(n, C, f, u).pa = p) <=>
               (f \in Live(D) /\ Pte(m, D, f, u).pa = p)
    <3>1. CASE f = e
      BY <3>1, <1>0, Zenon DEF DirKept
    <3>2. CASE f # e
      <4>1. f \in Live(C) <=> f \in Live(D)
        BY <3>2, Zenon DEF DirKept
      <4>2. f \in Live(D) => Pte(n, C, f, u) = Pte(m, D, f, u)
        BY <3>2, Zenon DEF DirSet
      <4> QED
        BY <4>1, <4>2, Zenon
    <3> QED
      BY <3>1, <3>2, Zenon
  <2> QED
    BY <2>1, Zenon DEF Mapped
<1>2. AsTable(n, C, p) = AsTable(m, D, p)
  <2>1. ASSUME NEW f, NEW i \in Pdes
        PROVE  (f \in Live(C) /\ Table(n, C, f, i) = p) <=>
               (f \in Live(D) /\ Table(m, D, f, i) = p)
    <3>1. CASE f = e
      BY <3>1, <1>0, Zenon DEF DirSet, DirKept, Live
    <3>2. CASE f # e
      <4>1. f \in Live(C) <=> f \in Live(D)
        BY <3>2, Zenon DEF DirKept
      <4>2. f \in Live(D) => Table(n, C, f, i) = Table(m, D, f, i)
        BY <3>2, Zenon DEF DirSet
      <4> QED
        BY <4>1, <4>2, Zenon
    <3> QED
      BY <3>1, <3>2, Zenon
  <2> QED
    BY <2>1, Zenon DEF AsTable
<1>3. AsDirectory(D, p) \ {e} = AsDirectory(C, p) \ {e}
  BY Zenon DEF AsDirectory, DirKept
<1>4. Extra(D[e], p) = (IF e \in AsDirectory(D, p) THEN 1 ELSE 0)
  BY <1>0, Zenon DEF Extra, AsDirectory, Live
<1>5. Extra(q, p) = (IF e \in AsDirectory(C, p) THEN 1 ELSE 0)
  <2>1. C[e] = q
    BY Zenon DEF DirKept
  <2> QED
    BY <2>1, <1>0, Zenon DEF Extra, AsDirectory, Live
<1>6. Cardinality(AsDirectory(C, p)) + Extra(D[e], p)
        = Cardinality(AsDirectory(D, p)) + Extra(q, p)
  BY <1>3, <1>4, <1>5, OnePoint, FiniteUses
<1> QED
  BY <1>1, <1>2, <1>6, FiniteUses, ExtraNat DEF Count

-----------------------------------------------------------------------------
(* Privacy.                                                                *)

LEMMA PrivatePte ==
  ASSUME NEW m, NEW n, NEW D, NEW e \in Live(D), NEW va \in Vas, NEW ent,
         Private(m, D), SameTables(m, n, D), PteSet(m, n, D, e, va, ent),
         \A f \in Live(D) : D[f] # ent.pa,
         ent.pa # NULL => \A f \in Live(D) : \A i \in Pdes : Table(m, D, f, i) # ent.pa
  PROVE  Private(n, D)
<1>1. ASSUME NEW f \in Live(D), NEW g \in Live(D), NEW u \in Vas
      PROVE  Pte(n, D, f, u).pa # D[g]
  <2>1. Pte(n, D, f, u) = ent \/ Pte(n, D, f, u) = Pte(m, D, f, u)
    BY Zenon DEF PteSet
  <2> QED
    BY <2>1, Zenon DEF Private
<1>2. ASSUME NEW f \in Live(D), NEW g \in Live(D), NEW u \in Vas, NEW i \in Pdes,
             Pte(n, D, f, u).pa # NULL
      PROVE  Pte(n, D, f, u).pa # Table(n, D, g, i)
  <2>1. Pte(n, D, f, u) = ent \/ Pte(n, D, f, u) = Pte(m, D, f, u)
    BY Zenon DEF PteSet
  <2>2. Table(n, D, g, i) = Table(m, D, g, i)
    BY Zenon DEF SameTables
  <2> QED
    BY <1>2, <2>1, <2>2 DEF Private
<1>3. /\ \A g, f \in Live(D) : \A i, j \in Pdes :
           Table(n, D, g, i) # NULL /\ Table(n, D, g, i) = Table(n, D, f, j) => g = f /\ i = j
      /\ \A g, f \in Live(D) : \A i \in Pdes : Table(n, D, g, i) # D[f]
      /\ \A g, f \in Live(D) : D[g] = D[f] => g = f
  BY DEF Private, SameTables
<1> QED
  BY <1>1, <1>2, <1>3, Zenon DEF Private

LEMMA PrivateTable ==
  ASSUME NEW m, NEW n, NEW D, NEW e \in Live(D), NEW i \in Pdes, NEW q,
         Private(m, D), SamePtes(m, n, D), TableSet(m, n, D, e, i, q),
         \A f \in Live(D) : D[f] # q,
         q # NULL => Unused(m, D, q)
  PROVE  Private(n, D)
<1>0. ASSUME NEW f \in Live(D), NEW j \in Pdes
      PROVE  \/ f = e /\ j = i /\ Table(n, D, f, j) = q
             \/ ~(f = e /\ j = i) /\ Table(n, D, f, j) = Table(m, D, f, j)
  BY Zenon DEF TableSet
<1>1. ASSUME NEW f \in Live(D), NEW g \in Live(D), NEW j \in Pdes, NEW k \in Pdes,
             Table(n, D, f, j) # NULL, Table(n, D, f, j) = Table(n, D, g, k)
      PROVE  f = g /\ j = k
  <2>1. CASE ~(f = e /\ j = i) /\ ~(g = e /\ k = i)
    BY <1>0, <1>1, <2>1 DEF Private
  <2>2. CASE f = e /\ j = i
    BY <1>0, <1>1, <2>2, Zenon DEF Unused
  <2>3. CASE g = e /\ k = i
    BY <1>0, <1>1, <2>3, Zenon DEF Unused
  <2> QED
    BY <2>1, <2>2, <2>3, Zenon
<1>2. ASSUME NEW f \in Live(D), NEW g \in Live(D), NEW j \in Pdes
      PROVE  Table(n, D, f, j) # D[g]
  BY <1>0 DEF Private
<1>3. ASSUME NEW f \in Live(D), NEW g \in Live(D), NEW u \in Vas
      PROVE  Pte(n, D, f, u).pa # D[g]
  BY DEF Private, SamePtes
<1>4. ASSUME NEW f \in Live(D), NEW g \in Live(D), NEW u \in Vas, NEW j \in Pdes,
             Pte(n, D, f, u).pa # NULL
      PROVE  Pte(n, D, f, u).pa # Table(n, D, g, j)
  <2>1. Pte(n, D, f, u) = Pte(m, D, f, u)
    BY Zenon DEF SamePtes
  <2> QED
    BY <2>1, <1>0, <1>4 DEF Private, Unused
<1>5. \A f, g \in Live(D) : D[f] = D[g] => f = g
  BY Zenon DEF Private
<1> QED
  BY <1>1, <1>2, <1>3, <1>4, <1>5 DEF Private

LEMMA PrivateDir ==
  ASSUME NEW m, NEW n, NEW D \in Dirs, NEW C, NEW e \in Envs, NEW q \in Pages \cup {NULL},
         Private(m, D), DirSet(m, n, D, C, e, q), q # NULL => Unused(m, D, q)
  PROVE  Private(n, C)
<1> DirKept(m, n, D, C, e, q)
  BY DirViews, Zenon
<1>0. ASSUME NEW f \in Live(C)
      PROVE  \/ f = e /\ C[f] = q /\ q # NULL
             \/ f # e /\ f \in Live(D) /\ C[f] = D[f]
  BY Zenon DEF DirKept, Live
<1>1. ASSUME NEW f \in Live(C), NEW i \in Pdes
      PROVE  \/ f = e /\ Table(n, C, f, i) = NULL
             \/ f # e /\ f \in Live(D) /\ Table(n, C, f, i) = Table(m, D, f, i)
  BY <1>0, Zenon DEF DirSet
<1>2. ASSUME NEW f \in Live(C), NEW u \in Vas
      PROVE  \/ f = e /\ Pte(n, C, f, u).pa = NULL
             \/ f # e /\ f \in Live(D) /\ Pte(n, C, f, u) = Pte(m, D, f, u)
  BY <1>0, AbsentEntry, Zenon DEF DirSet, DirKept
<1>3. ASSUME NEW f \in Live(C) PROVE C[f] # NULL
  BY Zenon DEF Live
<1>4. ASSUME NEW f \in Live(C), NEW g \in Live(C), C[f] = C[g] PROVE f = g
  BY <1>0, <1>4, Zenon DEF Private, Unused
<1>5. ASSUME NEW f \in Live(C), NEW g \in Live(C), NEW i \in Pdes, NEW j \in Pdes,
             Table(n, C, f, i) # NULL, Table(n, C, f, i) = Table(n, C, g, j)
      PROVE  f = g /\ i = j
  BY <1>1, <1>5 DEF Private
<1>6. ASSUME NEW f \in Live(C), NEW g \in Live(C), NEW i \in Pdes
      PROVE  Table(n, C, f, i) # C[g]
  BY <1>0, <1>1, <1>3 DEF Private, Unused
<1>7. ASSUME NEW f \in Live(C), NEW g \in Live(C), NEW u \in Vas
      PROVE  Pte(n, C, f, u).pa # C[g]
  BY <1>0, <1>2, <1>3 DEF Private, Unused
<1>8. ASSUME NEW f \in Live(C), NEW g \in Live(C), NEW u \in Vas, NEW i \in Pdes,
             Pte(n, C, f, u).pa # NULL
      PROVE  Pte(n, C, f, u).pa # Table(n, C, g, i)
  BY <1>1, <1>2, <1>8 DEF Private
<1> QED
  BY <1>4, <1>5, <1>6, <1>7, <1>8 DEF Private

-----------------------------------------------------------------------------
(* The free list.                                                          *)

LEMMA PopList ==
  ASSUME NEW q \in Seq(Pages), q # <<>>, IsInjective(q)
  PROVE  /\ Head(q) \in Pages /\ Head(q) \in Range(q)
         /\ Tail(q) \in Seq(Pages) /\ IsInjective(Tail(q))
         /\ Range(Tail(q)) = Range(q) \ {Head(q)}
<1>1. Len(q) \in Nat \ {0} /\ DOMAIN q = 1 .. Len(q) /\ Head(q) = q[1]
  OBVIOUS
<1>2. /\ Tail(q) \in Seq(Pages) /\ DOMAIN Tail(q) = 1 .. (Len(q) - 1)
      /\ \A i \in 1 .. (Len(q) - 1) : Tail(q)[i] = q[i + 1]
  OBVIOUS
<1>3. \A i, j \in 1 .. Len(q) : q[i] = q[j] => i = j
  BY <1>1, Zenon DEF IsInjective
<1>4. IsInjective(Tail(q))
  <2> SUFFICES ASSUME NEW i \in 1 .. (Len(q) - 1), NEW j \in 1 .. (Len(q) - 1),
                      Tail(q)[i] = Tail(q)[j]
               PROVE  i = j
    BY <1>2, Zenon DEF IsInjective
  <2>1. i + 1 \in 1 .. Len(q) /\ j + 1 \in 1 .. Len(q)
    BY <1>1
  <2>2. q[i + 1] = q[j + 1]
    BY <1>2, Zenon
  <2>3. i + 1 = j + 1
    BY <1>3, <2>1, <2>2, Zenon
  <2> QED
    BY <2>3, <1>1
<1>5. Head(q) \in Range(q) /\ Head(q) \in Pages
  BY <1>1 DEF Range
<1>6. ASSUME NEW i \in 1 .. (Len(q) - 1) PROVE Tail(q)[i] \in Range(q) \ {Head(q)}
  <2>1. i + 1 \in 1 .. Len(q) /\ 1 \in 1 .. Len(q) /\ i + 1 # 1
    BY <1>1
  <2>2. Tail(q)[i] = q[i + 1] /\ q[i + 1] # q[1]
    BY <1>2, <1>3, <2>1, Zenon
  <2> QED
    BY <1>1, <2>1, <2>2, Zenon DEF Range
<1>7. ASSUME NEW p \in Range(q) \ {Head(q)} PROVE p \in Range(Tail(q))
  <2>1. PICK i \in 1 .. Len(q) : q[i] = p
    BY <1>1, Zenon DEF Range
  <2>2. i - 1 \in 1 .. (Len(q) - 1) /\ (i - 1) + 1 = i
    BY <1>1, <2>1
  <2>3. Tail(q)[i - 1] = p
    BY <1>2, <2>1, <2>2, Zenon
  <2> QED
    BY <1>2, <2>2, <2>3, Zenon DEF Range
<1>8. Range(Tail(q)) \subseteq Range(q) \ {Head(q)}
  BY <1>2, <1>6, Zenon DEF Range
<1> QED
  BY <1>2, <1>4, <1>5, <1>7, <1>8, Zenon

LEMMA PushList ==
  ASSUME NEW q \in Seq(Pages), IsInjective(q), NEW p \in Pages, p \notin Range(q)
  PROVE  /\ <<p>> \o q \in Seq(Pages) /\ IsInjective(<<p>> \o q)
         /\ Range(<<p>> \o q) = Range(q) \cup {p}
<1>1. PICK r : r = <<p>> \o q
  BY Zenon
<1>2. /\ r \in Seq(Pages) /\ DOMAIN r = 1 .. (Len(q) + 1)
      /\ \A i \in 1 .. (Len(q) + 1) : r[i] = IF i = 1 THEN p ELSE q[i - 1]
  BY <1>1
<1>3. Len(q) \in Nat /\ DOMAIN q = 1 .. Len(q)
  OBVIOUS
<1>4. \A i, j \in 1 .. Len(q) : q[i] = q[j] => i = j
  BY <1>3, Zenon DEF IsInjective
<1>5. \A i \in 1 .. Len(q) : q[i] \in Range(q)
  BY <1>3, Zenon DEF Range
<1>6. \A i \in 2 .. (Len(q) + 1) : i - 1 \in 1 .. Len(q) /\ r[i] = q[i - 1]
  BY <1>2, <1>3
<1>7. IsInjective(r)
  <2> SUFFICES ASSUME NEW i \in 1 .. (Len(q) + 1), NEW j \in 1 .. (Len(q) + 1), r[i] = r[j]
               PROVE  i = j
    BY <1>2, Zenon DEF IsInjective
  <2>0. (i = 1 \/ i \in 2 .. (Len(q) + 1)) /\ (j = 1 \/ j \in 2 .. (Len(q) + 1))
    BY <1>3
  <2>1. CASE i = 1 /\ j = 1
    BY <2>1, Zenon
  <2>2. CASE i = 1 /\ j # 1
    BY <2>0, <2>2, <1>2, <1>5, <1>6
  <2>3. CASE i # 1 /\ j = 1
    BY <2>0, <2>3, <1>2, <1>5, <1>6
  <2>4. CASE i # 1 /\ j # 1
    <3>1. i - 1 = j - 1
      BY <2>0, <2>4, <1>4, <1>6, Zenon
    <3> QED
      BY <3>1, <1>3
  <2> QED
    BY <2>1, <2>2, <2>3, <2>4, Zenon
<1>8. Range(r) \subseteq Range(q) \cup {p}
  <2>1. ASSUME NEW i \in 1 .. (Len(q) + 1) PROVE r[i] \in Range(q) \cup {p}
    <3>1. i = 1 \/ i \in 2 .. (Len(q) + 1)
      BY <1>3
    <3> QED
      BY <3>1, <1>2, <1>5, <1>6, Zenon
  <2> QED
    BY <1>2, <2>1 DEF Range
<1>9. Range(q) \cup {p} \subseteq Range(r)
  <2>1. p \in Range(r)
    <3>1. 1 \in 1 .. (Len(q) + 1)
      BY <1>3
    <3>2. r[1] = p
      BY <1>2, <3>1, Zenon
    <3> QED
      BY <1>2, <3>1, <3>2, Zenon DEF Range
  <2>2. ASSUME NEW i \in 1 .. Len(q) PROVE q[i] \in Range(r)
    <3>1. i + 1 \in 1 .. (Len(q) + 1) /\ i + 1 # 1 /\ (i + 1) - 1 = i
      BY <1>3
    <3>2. r[i + 1] = q[i]
      BY <1>2, <3>1, Zenon
    <3> QED
      BY <1>2, <3>1, <3>2, Zenon DEF Range
  <2>3. Range(q) \subseteq Range(r)
    BY <1>3, <2>2, Zenon DEF Range
  <2> QED
    BY <2>1, <2>3, Zenon
<1> QED
  BY <1>1, <1>2, <1>7, <1>8, <1>9, Zenon

LEMMA MemoryFields ==
  ASSUME NEW m \in Memory
  PROVE  /\ m.ref \in [Pages -> 0 .. (Wrap - 1)] /\ m.free \in Seq(Pages)
         /\ m.mem \in [Pages -> [Index -> Entries]] /\ m.panicked \in BOOLEAN
BY Zenon DEF Memory

LEMMA AllocFields ==
  ASSUME NEW m \in Memory, m.free # <<>>
  PROVE  /\ PageAlloc(m).page = Head(m.free)
         /\ PageAlloc(m).m \in Memory
         /\ PageAlloc(m).m.ref = m.ref /\ PageAlloc(m).m.free = Tail(m.free)
         /\ PageAlloc(m).m.mem = [m.mem EXCEPT ![Head(m.free)] = Zero]
         /\ PageAlloc(m).m.panicked = m.panicked
<1>1. PICK q, z : q = Tail(m.free) /\ z = [m.mem EXCEPT ![Head(m.free)] = Zero]
  BY Zenon
<1>2. q \in Seq(Pages) /\ z \in [Pages -> [Index -> Entries]]
  BY <1>1, MemoryFields, ZeroType
<1>3. PageAlloc(m) = [m |-> [m EXCEPT !.free = q, !.mem = z], page |-> Head(m.free)]
  BY <1>1, MemoryFields, Zenon DEF PageAlloc, Memory
<1>4. PICK n : n = [m EXCEPT !.free = q, !.mem = z]
  BY Zenon
<1>5. n \in Memory /\ n.ref = m.ref /\ n.free = q /\ n.mem = z /\ n.panicked = m.panicked
  BY <1>2, <1>4, Zenon DEF Memory
<1>6. PageAlloc(m).page = Head(m.free) /\ PageAlloc(m).m = n
  BY <1>3, <1>4
<1> QED
  BY <1>1, <1>5, <1>6, Zenon

LEMMA AllocFails ==
  ASSUME NEW m \in Memory, m.free = <<>>
  PROVE  PageAlloc(m) = [m |-> m, page |-> NULL]
BY Zenon DEF PageAlloc

LEMMA FreeFields ==
  ASSUME NEW m \in Memory, NEW p \in Pages, IsInjective(m.free), p \notin Range(m.free),
         m.ref[p] = 0, ~m.panicked
  PROVE  /\ PageFree(m, p) \in Memory
         /\ PageFree(m, p).ref = m.ref /\ PageFree(m, p).mem = m.mem
         /\ IsInjective(PageFree(m, p).free)
         /\ Range(PageFree(m, p).free) = Range(m.free) \cup {p}
         /\ ~PageFree(m, p).panicked
<1>1. PICK q : q = <<p>> \o m.free
  BY Zenon
<1>2. q \in Seq(Pages) /\ IsInjective(q) /\ Range(q) = Range(m.free) \cup {p}
  BY <1>1, PushList, MemoryFields, Zenon
<1>3. ~Linked(m, p)
  BY Zenon DEF Linked
<1>4. PageFree(m, p) = [m EXCEPT !.free = q, !.panicked = FALSE]
  <2>1. (m.panicked \/ m.ref[p] # 0 \/ Linked(m, p)) = FALSE
    BY <1>3, Zenon
  <2> QED
    BY <1>1, <2>1, Zenon DEF PageFree, Memory
<1> QED
  BY <1>2, <1>4, Zenon DEF Memory

\* A count goes down; the page is listed when nobody refers to it.
LEMMA DecrefFields ==
  ASSUME NEW m \in Memory, NEW p \in Pages, NEW h, FreeList(m, h), h # NULL => m.ref[h] = 0,
         m.ref[p] # 0, ~m.panicked
  PROVE  /\ PageDecref(m, p) \in Memory
         /\ PageDecref(m, p).ref = [m.ref EXCEPT ![p] = @ - 1]
         /\ PageDecref(m, p).mem = m.mem
         /\ FreeList(PageDecref(m, p), h)
         /\ ~PageDecref(m, p).panicked
<1>1. PICK c : c = [m.ref EXCEPT ![p] = @ - 1]
  BY Zenon
<1>2. PICK less : less = [m EXCEPT !.ref = c]
  BY Zenon
<1>3. m.ref \in [Pages -> 0 .. (Wrap - 1)] /\ m.ref[p] \in 1 .. (Wrap - 1)
  BY MemoryFields, Constants
<1>4. c \in [Pages -> 0 .. (Wrap - 1)] /\ c[p] = m.ref[p] - 1
  BY <1>1, <1>3, Constants
<1>5. (m.ref[p] - 1) % Wrap = m.ref[p] - 1
  BY <1>3, Constants
<1>6. [m EXCEPT !.ref[p] = (@ - 1) % Wrap] = less
  BY <1>1, <1>2, <1>5, Zenon DEF Memory
<1>7. /\ less \in Memory /\ less.ref = c /\ less.mem = m.mem /\ less.free = m.free
      /\ ~less.panicked
  BY <1>2, <1>4, Zenon DEF Memory
<1>8. PageDecref(m, p) = IF less.ref[p] = 0 THEN PageFree(less, p) ELSE less
  BY <1>6, Zenon DEF PageDecref
<1>9. p \notin Range(m.free) /\ p # h
  BY <1>3, Constants, Zenon DEF FreeList
<1>10. Range(m.free) = {r \in Pages : m.ref[r] = 0} \ {h} /\ IsInjective(m.free)
  BY Zenon DEF FreeList
<1>11. \A r \in Pages : r # p => c[r] = m.ref[r]
  BY <1>1, <1>3, Zenon
<1>12. CASE c[p] = 0
  <2>1. {r \in Pages : c[r] = 0} = {r \in Pages : m.ref[r] = 0} \cup {p}
    BY <1>11, <1>12, Zenon
  <2>2. /\ PageFree(less, p) \in Memory
        /\ PageFree(less, p).ref = c /\ PageFree(less, p).mem = m.mem
        /\ IsInjective(PageFree(less, p).free)
        /\ Range(PageFree(less, p).free) = Range(m.free) \cup {p}
        /\ ~PageFree(less, p).panicked
    BY <1>7, <1>9, <1>10, <1>12, FreeFields
  <2>3. FreeList(PageFree(less, p), h)
    BY <2>1, <2>2, <1>9, <1>10, Zenon DEF FreeList
  <2> QED
    BY <1>1, <1>7, <1>8, <1>12, <2>2, <2>3, Zenon
<1>13. CASE c[p] # 0
  <2>1. {r \in Pages : c[r] = 0} = {r \in Pages : m.ref[r] = 0}
    BY <1>11, <1>13, Zenon
  <2>2. FreeList(less, h)
    BY <2>1, <1>7, <1>10, Zenon DEF FreeList
  <2> QED
    BY <1>1, <1>7, <1>8, <1>13, <2>2, Zenon
<1> QED
  BY <1>12, <1>13, Zenon

LEMMA IncrefFields ==
  ASSUME NEW m \in Memory, NEW p \in Pages, m.ref[p] + 1 < Wrap
  PROVE  /\ Incref(m, p) \in Memory
         /\ Incref(m, p).ref = [m.ref EXCEPT ![p] = @ + 1]
         /\ Incref(m, p).mem = m.mem /\ Incref(m, p).free = m.free
         /\ Incref(m, p).panicked = m.panicked
<1>1. PICK c : c = [m.ref EXCEPT ![p] = @ + 1]
  BY Zenon
<1>2. m.ref \in [Pages -> 0 .. (Wrap - 1)] /\ m.ref[p] \in Nat
  BY MemoryFields, Constants
<1>3. c \in [Pages -> 0 .. (Wrap - 1)]
  BY <1>1, <1>2, Constants
<1>4. (m.ref[p] + 1) % Wrap = m.ref[p] + 1
  BY <1>2, Constants
<1>5. Incref(m, p) = [m EXCEPT !.ref = c]
  BY <1>1, <1>4, Zenon DEF Incref, Memory
<1> QED
  BY <1>1, <1>3, <1>5, Zenon DEF Memory

-----------------------------------------------------------------------------
(* The functions of pmap.c keep memory good.                               *)

\* Memory that looks the same from every address space.
LEMMA SameViews ==
  ASSUME NEW m, NEW n, NEW D, SameTables(m, n, D), SamePtes(m, n, D)
  PROVE  /\ Private(m, D) => Private(n, D)
         /\ \A p \in Pages : Count(n, D, p) = Count(m, D, p)
<1>1. Private(m, D) => Private(n, D)
  BY DEF Private, SameTables, SamePtes
<1>2. ASSUME NEW p \in Pages PROVE Count(n, D, p) = Count(m, D, p)
  <2>1. AsTable(n, D, p) = AsTable(m, D, p)
    BY Zenon DEF AsTable, SameTables
  <2>2. Mapped(n, D, p) = Mapped(m, D, p)
    BY Zenon DEF Mapped, SamePtes
  <2> QED
    BY <2>1, <2>2, Zenon DEF Count
<1> QED
  BY <1>1, <1>2, Zenon

LEMMA SameMemory ==
  ASSUME NEW m, NEW n, NEW D, n.mem = m.mem
  PROVE  SameTables(m, n, D) /\ SamePtes(m, n, D)
<1>1. \A f, i : Table(n, D, f, i) = Table(m, D, f, i)
  BY Zenon DEF Table
<1>2. \A f, u : Pte(n, D, f, u) = Pte(m, D, f, u)
  BY <1>1, PteDef, Zenon
<1> QED
  BY <1>1, <1>2, Zenon DEF SameTables, SamePtes

\* What is in an unused page does not matter.
LEMMA WriteUnused ==
  ASSUME NEW m \in Memory, NEW n, NEW D \in Dirs, NEW q \in Pages, NEW z, Unused(m, D, q),
         n.mem = [m.mem EXCEPT ![q] = z]
  PROVE  SameTables(m, n, D) /\ SamePtes(m, n, D)
<1>1. \A p \in Pages : p # q => n.mem[p] = m.mem[p]
  BY MemoryFields, Zenon
<1>2. ASSUME NEW f \in Live(D), NEW i \in Pdes PROVE Table(n, D, f, i) = Table(m, D, f, i)
  BY <1>1, LiveType, Zenon DEF Table, Unused
<1>3. ASSUME NEW f \in Live(D), NEW u \in Vas PROVE Pte(n, D, f, u) = Pte(m, D, f, u)
  <2>1. PICK t : t = Table(m, D, f, PDX(u))
    BY Zenon
  <2>2. PDX(u) \in Pdes
    BY VaParts, Zenon
  <2>3. Table(n, D, f, PDX(u)) = t /\ t \in Pages \cup {NULL} /\ t # q
    BY <2>1, <2>2, <1>2, TableType, Zenon DEF Unused
  <2>4. t # NULL => n.mem[t] = m.mem[t]
    BY <2>3, <1>1, Zenon
  <2> QED
    BY <2>1, <2>3, <2>4, PteDef, Zenon
<1> QED
  BY <1>2, <1>3, Zenon DEF SameTables, SamePtes

LEMMA GoodFacts ==
  ASSUME NEW m, NEW D, NEW h, NEW x, Good(m, D, h, x), NEW p \in Pages
  PROVE  /\ m.ref[p] \in 0 .. (Wrap - 1) /\ Count(m, D, p) \in Nat
         /\ m.ref[p] = Count(m, D, p) + Extra(x, p)
         /\ Unused(m, D, p) <=> Count(m, D, p) = 0
         /\ p \in Range(m.free) <=> m.ref[p] = 0 /\ p # h
<1>1. m \in Memory /\ FreeList(m, h)
  BY Zenon DEF Good
<1>2. m.ref[p] \in 0 .. (Wrap - 1)
  BY <1>1, MemoryFields, Zenon
<1>3. p \in Range(m.free) <=> m.ref[p] = 0 /\ p # h
  BY <1>1, Zenon DEF FreeList
<1> QED
  BY <1>2, <1>3, CountNat, CountZero, Zenon DEF Good

LEMMA UsedPage ==
  ASSUME NEW m, NEW D, NEW h, NEW x, Good(m, D, h, x), NEW p \in Pages, ~Unused(m, D, p)
  PROVE  m.ref[p] # 0 /\ p # h /\ p \notin Range(m.free)
<1>1. m.ref[p] # 0
  BY GoodFacts, ExtraNat
<1> QED
  BY <1>1, GoodFacts, Constants DEF Good

\* page_remove()
LEMMA GoodRemove ==
  ASSUME NEW m, NEW D, NEW h, NEW x, Good(m, D, h, x), NEW e \in Live(D), NEW va \in Vas
  PROVE  /\ Good(PageRemove(m, D[e], va), D, h, x)
         /\ SameTables(m, PageRemove(m, D[e], va), D)
         /\ PteSet(m, PageRemove(m, D[e], va), D, e, va, Absent)
<1>0. m \in Memory /\ D \in Dirs /\ Private(m, D) /\ FreeList(m, h) /\ ~m.panicked
      /\ (h # NULL => h \in Pages /\ m.ref[h] = 0)
  BY Zenon DEF Good
<1>1. PICK n : n = PageRemove(m, D[e], va)
  BY Zenon
<1>2. PICK p : p = Pte(m, D, e, va).pa
  BY Zenon
<1>3. PICK pt : pt = Table(m, D, e, PDX(va))
  BY Zenon
<1>4. PgdirWalk(m, D[e], va, FALSE).page = pt
  BY <1>3, Zenon DEF PgdirWalk, Table, Present
<1>5. n = IF p # NULL THEN [PageDecref(m, p) EXCEPT !.mem[pt][PTX(va)] = Absent] ELSE m
  BY <1>1, <1>2, <1>4, Zenon DEF PageRemove, Pte, Present
<1>6. CASE p = NULL
  <2>1. n = m
    BY <1>5, <1>6, Zenon
  <2>2. Pte(m, D, e, va) = Absent
    BY <1>0, <1>2, <1>6, PteField, Zenon
  <2>3. SameTables(m, m, D) /\ PteSet(m, m, D, e, va, Absent)
    BY <2>2, Zenon DEF SameTables, PteSet
  <2> QED
    BY <1>1, <2>1, <2>3, Zenon
<1>7. CASE p # NULL
  <2>1. p \in Pages
    BY <1>0, <1>2, <1>7, PteField, Zenon
  <2>2. ~Unused(m, D, p)
    BY <1>2, Zenon DEF Unused
  <2>3. m.ref[p] # 0
    BY <2>1, <2>2, UsedPage, Zenon
  <2>4. PICK l : l = PageDecref(m, p)
    BY Zenon
  <2>5. /\ l \in Memory /\ l.ref = [m.ref EXCEPT ![p] = @ - 1] /\ l.mem = m.mem
        /\ FreeList(l, h) /\ ~l.panicked
    BY <1>0, <2>1, <2>3, <2>4, DecrefFields, Zenon
  <2>6. pt # NULL
    BY <1>2, <1>3, <1>7, PteDef, AbsentEntry, Zenon
  <2>7. pt \in Pages /\ PTX(va) \in Index
    BY <1>0, <1>3, <2>6, TableType, VaParts, Zenon
  <2>8. PICK z : z = [m.mem EXCEPT ![pt][PTX(va)] = Absent]
    BY Zenon
  <2>9. z \in [Pages -> [Index -> Entries]]
    BY <1>0, <2>7, <2>8, MemoryFields, AbsentEntry, Zenon
  <2>10. n = [l EXCEPT !.mem = z]
    BY <1>5, <1>7, <2>4, <2>5, <2>8, Zenon DEF Memory
  <2>11. /\ n \in Memory /\ n.ref = l.ref /\ n.free = l.free /\ n.mem = z
         /\ n.panicked = l.panicked
    BY <2>5, <2>9, <2>10, Zenon DEF Memory
  <2>12. SameTables(m, n, D) /\ PteSet(m, n, D, e, va, Absent)
    BY <1>0, <1>3, <2>6, <2>8, <2>11, WriteEntry, AbsentEntry, Zenon
  <2>13. Private(n, D)
    <3>1. \A f \in Live(D) : D[f] # Absent.pa
      BY AbsentEntry, Zenon DEF Live
    <3> QED
      BY <1>0, <2>12, <3>1, PrivatePte, AbsentEntry, Zenon
  <2>14. ASSUME NEW r \in Pages PROVE n.ref[r] = Count(n, D, r) + Extra(x, r)
    <3>1. Count(n, D, r) + Extra(p, r) = Count(m, D, r) + Extra(NULL, r)
      BY <1>2, <2>12, CountPte, AbsentEntry
    <3>2. Extra(NULL, r) = 0 /\ Extra(p, r) = IF r = p THEN 1 ELSE 0
      BY Constants, Zenon DEF Extra
    <3>3. n.ref[r] = m.ref[r] - (IF r = p THEN 1 ELSE 0)
      BY <1>0, <2>1, <2>5, <2>11, MemoryFields
    <3>4. m.ref[r] = Count(m, D, r) + Extra(x, r) /\ m.ref[r] \in 0 .. (Wrap - 1)
      BY GoodFacts
    <3> QED
      BY <3>1, <3>2, <3>3, <3>4, CountNat, ExtraNat, Constants
  <2>15. FreeList(n, h) /\ ~n.panicked
    BY <2>5, <2>11, Zenon DEF FreeList
  <2>16. h # NULL => n.ref[h] = 0
    BY <1>0, <2>1, <2>3, <2>5, <2>11, MemoryFields, Zenon
  <2> QED
    BY <1>0, <1>1, <2>11, <2>12, <2>13, <2>14, <2>15, <2>16, Zenon DEF Good
<1> QED
  BY <1>6, <1>7, Zenon

\* page_alloc()
LEMMA GoodAlloc ==
  ASSUME NEW m, NEW D, Good(m, D, NULL, NULL), m.free # <<>>
  PROVE  /\ PageAlloc(m).page \in Range(m.free) /\ PageAlloc(m).page \in Pages
         /\ PageAlloc(m).m.mem[PageAlloc(m).page] = Zero
         /\ PageAlloc(m).m.free = Tail(m.free)
         /\ Good(PageAlloc(m).m, D, PageAlloc(m).page, NULL)
         /\ SameTables(m, PageAlloc(m).m, D) /\ SamePtes(m, PageAlloc(m).m, D)
<1>0. m \in Memory /\ D \in Dirs /\ Private(m, D) /\ FreeList(m, NULL) /\ ~m.panicked
  BY Zenon DEF Good
<1>1. PICK n, q : n = PageAlloc(m).m /\ q = Head(m.free)
  BY Zenon
<1>2. /\ PageAlloc(m).page = q /\ n \in Memory /\ n.ref = m.ref /\ n.free = Tail(m.free)
      /\ n.mem = [m.mem EXCEPT ![q] = Zero] /\ n.panicked = m.panicked
  BY <1>0, <1>1, AllocFields, Zenon
<1>3. /\ q \in Pages /\ q \in Range(m.free) /\ IsInjective(n.free)
      /\ Range(n.free) = Range(m.free) \ {q}
  BY <1>0, <1>1, <1>2, PopList, MemoryFields DEF FreeList
<1>4. m.ref[q] = 0 /\ Unused(m, D, q)
  BY <1>3, GoodFacts, ExtraNat
<1>5. SameTables(m, n, D) /\ SamePtes(m, n, D)
  BY <1>0, <1>2, <1>3, <1>4, WriteUnused, Zenon
<1>6. Private(n, D) /\ \A p \in Pages : Count(n, D, p) = Count(m, D, p)
  BY <1>0, <1>5, SameViews, Zenon
<1>7. FreeList(n, q)
  BY <1>0, <1>2, <1>3, Constants DEF FreeList
<1>8. n.mem[q] = Zero
  BY <1>0, <1>2, <1>3, MemoryFields, Zenon
<1>9. \A p \in Pages : n.ref[p] = Count(n, D, p) + Extra(NULL, p)
  BY <1>2, <1>6, GoodFacts
<1>10. Good(n, D, q, NULL)
  BY <1>0, <1>2, <1>3, <1>4, <1>6, <1>7, <1>9, Zenon DEF Good
<1> QED
  BY <1>1, <1>2, <1>3, <1>5, <1>8, <1>10, Zenon

\* page_free() of a page that nobody got
LEMMA GoodFree ==
  ASSUME NEW m, NEW D, NEW p \in Pages, Good(m, D, p, NULL)
  PROVE  /\ Good(PageFree(m, p), D, NULL, NULL)
         /\ SameTables(m, PageFree(m, p), D) /\ SamePtes(m, PageFree(m, p), D)
<1>0. /\ m \in Memory /\ D \in Dirs /\ Private(m, D) /\ FreeList(m, p) /\ ~m.panicked
      /\ m.ref[p] = 0
  BY Constants, Zenon DEF Good
<1>1. PICK n : n = PageFree(m, p)
  BY Zenon
<1>2. p \notin Range(m.free) /\ IsInjective(m.free)
  BY <1>0, Zenon DEF FreeList
<1>3. /\ n \in Memory /\ n.ref = m.ref /\ n.mem = m.mem /\ IsInjective(n.free)
      /\ Range(n.free) = Range(m.free) \cup {p} /\ ~n.panicked
  BY <1>0, <1>1, <1>2, FreeFields, Zenon
<1>4. SameTables(m, n, D) /\ SamePtes(m, n, D)
  BY <1>3, SameMemory, Zenon
<1>5. Private(n, D) /\ \A r \in Pages : Count(n, D, r) = Count(m, D, r)
  BY <1>0, <1>4, SameViews, Zenon
<1>6. FreeList(n, NULL)
  BY <1>0, <1>3, Constants, Zenon DEF FreeList
<1>7. \A r \in Pages : n.ref[r] = Count(n, D, r) + Extra(NULL, r)
  BY <1>3, <1>5, GoodFacts
<1>8. Good(n, D, NULL, NULL)
  BY <1>0, <1>3, <1>5, <1>6, <1>7, Zenon DEF Good
<1> QED
  BY <1>1, <1>4, <1>8, Zenon

\* Counting a reference before it is stored.
LEMMA GoodIncref ==
  ASSUME NEW m, NEW D, NEW h, Good(m, D, h, NULL), NEW p \in Pages, m.ref[p] + 1 < Wrap,
         h = p \/ (h = NULL /\ m.ref[p] # 0)
  PROVE  /\ Good(Incref(m, p), D, NULL, p)
         /\ SameTables(m, Incref(m, p), D) /\ SamePtes(m, Incref(m, p), D)
<1>0. m \in Memory /\ D \in Dirs /\ Private(m, D) /\ FreeList(m, h) /\ ~m.panicked
  BY Zenon DEF Good
<1>1. PICK n : n = Incref(m, p)
  BY Zenon
<1>2. /\ n \in Memory /\ n.ref = [m.ref EXCEPT ![p] = @ + 1] /\ n.mem = m.mem
      /\ n.free = m.free /\ n.panicked = m.panicked
  BY <1>0, <1>1, IncrefFields, Zenon
<1>3. SameTables(m, n, D) /\ SamePtes(m, n, D)
  BY <1>2, SameMemory, Zenon
<1>4. Private(n, D) /\ \A r \in Pages : Count(n, D, r) = Count(m, D, r)
  BY <1>0, <1>3, SameViews, Zenon
<1>5. \A r \in Pages : n.ref[r] = IF r = p THEN m.ref[r] + 1 ELSE m.ref[r]
  BY <1>0, <1>2, MemoryFields, Zenon
<1>6. FreeList(n, NULL)
  <2>1. {r \in Pages : n.ref[r] = 0} \ {NULL} = {r \in Pages : m.ref[r] = 0} \ {h}
    <3>1. \A r \in Pages : m.ref[r] \in Nat /\ r # NULL
      BY <1>0, MemoryFields, Constants
    <3> QED
      BY <3>1, <1>5
  <2> QED
    BY <1>0, <1>2, <2>1, Zenon DEF FreeList
<1>7. ASSUME NEW r \in Pages PROVE n.ref[r] = Count(n, D, r) + Extra(p, r)
  <2>1. m.ref[r] = Count(m, D, r) + 0
    BY GoodFacts, Constants DEF Extra
  <2> QED
    BY <2>1, <1>4, <1>5, CountNat DEF Extra
<1>8. Good(n, D, NULL, p)
  BY <1>0, <1>2, <1>4, <1>6, <1>7, Zenon DEF Good
<1> QED
  BY <1>1, <1>3, <1>8, Zenon

\* pgdir_walk() with create: a new page table is empty, and nobody else's.
WalkDone(m, D, h, e, va, w) ==
  /\ w.page = Table(w.m, D, e, PDX(va)) /\ w.page # NULL
  /\ Good(w.m, D, h, NULL)
  /\ SamePtes(m, w.m, D)
  /\ \A p \in Pages : m.ref[p] # 0 => w.m.ref[p] = m.ref[p]

LEMMA GoodWalk ==
  ASSUME NEW m, NEW D, NEW h, Good(m, D, h, NULL), NEW e \in Live(D), NEW va \in Vas
  PROVE  \/ WalkDone(m, D, h, e, va, PgdirWalk(m, D[e], va, TRUE))
         \/ PgdirWalk(m, D[e], va, TRUE) = [m |-> m, page |-> NULL] /\ m.free = <<>>
<1>0. m \in Memory /\ D \in Dirs /\ Private(m, D) /\ FreeList(m, h) /\ ~m.panicked
      /\ (h # NULL => h \in Pages /\ m.ref[h] = 0)
  BY Zenon DEF Good
<1>1. PICK w, i : w = PgdirWalk(m, D[e], va, TRUE) /\ i = PDX(va)
  BY Zenon
<1>2. i \in Pdes /\ i \in Index /\ D[e] \in Pages
  BY <1>0, <1>1, VaParts, LiveType, Zenon
<1>3. CASE Table(m, D, e, i) # NULL
  <2>1. w = [m |-> m, page |-> Table(m, D, e, i)]
    BY <1>1, <1>3, Zenon DEF PgdirWalk, Present, Table
  <2>2. w.m = m /\ w.page = Table(m, D, e, i)
    BY <2>1, Zenon
  <2>3. WalkDone(m, D, h, e, va, w)
    BY <1>1, <1>3, <2>2, Zenon DEF WalkDone, SamePtes
  <2> QED
    BY <1>1, <2>3, Zenon
<1>4. CASE Table(m, D, e, i) = NULL /\ m.free = <<>>
  BY <1>0, <1>1, <1>4, AllocFails DEF PgdirWalk, Present, Table
<1>5. CASE Table(m, D, e, i) = NULL /\ m.free # <<>>
  <2>1. PICK a, t : a = PageAlloc(m).m /\ t = Head(m.free)
    BY Zenon
  <2>2. /\ PageAlloc(m).page = t /\ a \in Memory /\ a.ref = m.ref /\ a.free = Tail(m.free)
        /\ a.mem = [m.mem EXCEPT ![t] = Zero] /\ a.panicked = m.panicked
    BY <1>0, <1>5, <2>1, AllocFields, Zenon
  <2>3. /\ t \in Pages /\ t \in Range(m.free) /\ IsInjective(a.free)
        /\ Range(a.free) = Range(m.free) \ {t}
    BY <1>0, <1>5, <2>1, <2>2, PopList, MemoryFields DEF FreeList
  <2>4. m.ref[t] = 0 /\ Unused(m, D, t) /\ t # h /\ t # NULL
    BY <2>3, GoodFacts, ExtraNat, Constants
  <2>5. SameTables(m, a, D) /\ SamePtes(m, a, D)
    BY <1>0, <2>2, <2>3, <2>4, WriteUnused, Zenon
  <2>6. Private(a, D) /\ \A p \in Pages : Count(a, D, p) = Count(m, D, p)
    BY <1>0, <2>5, SameViews, Zenon
  <2>7. PICK b : b = Incref(a, t)
    BY Zenon
  <2>8. /\ b \in Memory /\ b.ref = [m.ref EXCEPT ![t] = 1] /\ b.mem = a.mem
        /\ b.free = a.free /\ b.panicked = m.panicked
    <3>1. a.ref[t] = 0 /\ 0 + 1 < Wrap
      BY <2>2, <2>4, Constants
    <3>2. /\ b \in Memory /\ b.ref = [m.ref EXCEPT ![t] = @ + 1] /\ b.mem = a.mem
          /\ b.free = a.free /\ b.panicked = m.panicked
      BY <2>2, <2>3, <2>7, <3>1, IncrefFields
    <3> QED
      BY <3>2, <2>4
  <2>9. PICK z : z = [a.mem EXCEPT ![D[e]][i] = Entry(t, TRUE)]
    BY Zenon
  <2>10. z \in [Pages -> [Index -> Entries]]
    <3>1. Entry(t, TRUE) \in Entries
      BY <2>3, PageEntry, Zenon
    <3>2. a.mem \in [Pages -> [Index -> Entries]]
      BY <2>2, MemoryFields, Zenon
    <3> QED
      BY <1>2, <2>9, <3>1, <3>2, Zenon
  <2>11. PICK n : n = [b EXCEPT !.mem = z]
    BY Zenon
  <2>12. n \in Memory /\ n.ref = b.ref /\ n.free = b.free /\ n.mem = z /\ n.panicked = b.panicked
    BY <2>8, <2>10, <2>11, Zenon DEF Memory
  <2>13. w = [m |-> n, page |-> t]
    <3>1. ~Present(m.mem[D[e]][PDX(va)])
      BY <1>1, <1>5, Zenon DEF Present, Table
    <3>2. [b EXCEPT !.mem[D[e]][PDX(va)] = Entry(t, TRUE)] = n
      BY <1>1, <2>8, <2>9, <2>11, Zenon DEF Memory
    <3> QED
      BY <1>1, <2>1, <2>2, <2>4, <2>7, <3>1, <3>2 DEF PgdirWalk
  <2>14. Unused(a, D, t)
    BY <2>4, <2>5, Zenon DEF Unused, SameTables, SamePtes
  <2>15. \A u \in Vas : PDX(u) = i => Pte(a, D, e, u) = Absent
    <3>1. Table(a, D, e, i) = NULL
      BY <1>2, <1>5, <2>5, Zenon DEF SameTables
    <3> QED
      BY <3>1, PteDef, Zenon
  <2>16. TableSet(a, n, D, e, i, t) /\ SamePtes(a, n, D)
    <3>1. a.mem[t] = Zero
      BY <1>0, <2>2, <2>3, MemoryFields, Zenon
    <3>2. \A f \in Live(D) : D[f] # t
      BY <2>14, Zenon DEF Unused
    <3>3. PICK ent : ent = Entry(t, TRUE)
      BY Zenon
    <3>4. ent \in Entries /\ ent.pa = t
      BY <2>3, <3>3, PageEntry, Zenon
    <3>5. n.mem = [a.mem EXCEPT ![D[e]][i] = ent]
      BY <2>9, <2>12, <3>3, Zenon
    <3>6. TableSet(a, n, D, e, i, ent.pa) /\ SamePtes(a, n, D)
      <4>1. ent.pa # NULL => a.mem[ent.pa] = Zero /\ \A f \in Live(D) : D[f] # ent.pa
        BY <3>1, <3>2, <3>4, Zenon
      <4>2. a \in Memory /\ D \in Dirs /\ Private(a, D) /\ i \in Pdes /\ ent \in Entries
        BY <1>0, <1>2, <2>2, <2>6, <3>4, Zenon
      <4> QED
        BY <2>15, <3>5, <4>1, <4>2, WriteTable, Zenon
    <3> QED
      BY <3>4, <3>6, Zenon
  <2>17. Private(n, D)
    BY <1>2, <2>6, <2>14, <2>16, PrivateTable, Zenon DEF Unused
  <2>18. ASSUME NEW p \in Pages PROVE n.ref[p] = Count(n, D, p) + Extra(NULL, p)
    <3>1. Count(n, D, p) + Extra(Table(a, D, e, i), p) = Count(a, D, p) + Extra(t, p)
      BY <1>2, <2>16, CountTable
    <3>2. Table(a, D, e, i) = NULL /\ Extra(NULL, p) = 0
      BY <1>2, <1>5, <2>5, Constants, Zenon DEF SameTables, Extra
    <3>3. Extra(t, p) = IF p = t THEN 1 ELSE 0
      BY Zenon DEF Extra
    <3>4. m.ref[p] = Count(m, D, p) + 0
      BY <3>2, GoodFacts
    <3>5. n.ref[p] = IF p = t THEN 1 ELSE m.ref[p]
      BY <1>0, <2>8, <2>12, MemoryFields, Zenon
    <3> QED
      BY <3>1, <3>2, <3>3, <3>4, <3>5, <2>4, <2>6, CountNat
  <2>19. FreeList(n, h)
    <3>1. \A p \in Pages : n.ref[p] = IF p = t THEN 1 ELSE m.ref[p]
      BY <1>0, <2>8, <2>12, MemoryFields, Zenon
    <3>2. {p \in Pages : n.ref[p] = 0} = {p \in Pages : m.ref[p] = 0} \ {t}
      BY <3>1
    <3> QED
      BY <1>0, <2>3, <2>8, <2>12, <3>2, Zenon DEF FreeList
  <2>20. \A p \in Pages : p # t => n.ref[p] = m.ref[p]
    BY <1>0, <2>8, <2>12, MemoryFields, Zenon
  <2>21. Good(n, D, h, NULL)
    BY <1>0, <2>4, <2>8, <2>12, <2>17, <2>18, <2>19, <2>20, Zenon DEF Good
  <2>22. SamePtes(m, n, D) /\ Table(n, D, e, i) = t
    BY <1>2, <2>5, <2>16, Zenon DEF SamePtes, TableSet
  <2>23. w.m = n /\ w.page = t
    BY <2>13, Zenon
  <2>24. \A p \in Pages : m.ref[p] # 0 => n.ref[p] = m.ref[p]
    BY <2>4, <2>20, Zenon
  <2>25. WalkDone(m, D, h, e, va, w)
    BY <1>1, <2>4, <2>21, <2>22, <2>23, <2>24, Zenon DEF WalkDone
  <2> QED
    BY <1>1, <2>25, Zenon
<1> QED
  BY <1>3, <1>4, <1>5, Zenon

\* page_insert() of a page that is new, or mapped somewhere.
LEMMA GoodInsert ==
  ASSUME NEW m, NEW D, NEW h, Good(m, D, h, NULL), NEW e \in Live(D), NEW va \in Vas,
         NEW p \in Pages, NEW w \in BOOLEAN, m.ref[p] + 1 < Wrap,
         \/ h = p
         \/ h = NULL /\ \E f \in Live(D), u \in Vas : Pte(m, D, f, u).pa = p
  PROVE  \/ /\ PageInsert(m, D[e], p, va, w).page # NULL
            /\ Good(PageInsert(m, D[e], p, va, w).m, D, NULL, NULL)
            /\ PteSet(m, PageInsert(m, D[e], p, va, w).m, D, e, va, Entry(p, w))
         \/ PageInsert(m, D[e], p, va, w) = [m |-> m, page |-> NULL] /\ m.free = <<>>
<1>1. PICK walk : walk = PgdirWalk(m, D[e], va, TRUE)
  BY Zenon
<1>2. CASE walk = [m |-> m, page |-> NULL] /\ m.free = <<>>
  <2>1. walk.page = NULL /\ walk.m = m
    BY <1>2, Zenon
  <2>2. PageInsert(m, D[e], p, va, w) = [m |-> m, page |-> NULL]
    BY <1>1, <2>1, Zenon DEF PageInsert
  <2> QED
    BY <1>2, <2>2, Zenon
<1>3. CASE WalkDone(m, D, h, e, va, walk)
  <2>1. PICK a, pt : a = walk.m /\ pt = walk.page
    BY Zenon
  <2>2. /\ pt = Table(a, D, e, PDX(va)) /\ pt # NULL /\ Good(a, D, h, NULL)
        /\ SamePtes(m, a, D) /\ \A r \in Pages : m.ref[r] # 0 => a.ref[r] = m.ref[r]
    BY <1>3, <2>1, Zenon DEF WalkDone
  <2>3. PICK b : b = Incref(a, p)
    BY Zenon
  <2>4. PICK c : c = PageRemove(b, D[e], va)
    BY Zenon
  <2>5. PICK n : n = [c EXCEPT !.mem[pt][PTX(va)] = Entry(p, w)]
    BY Zenon
  <2>6. PageInsert(m, D[e], p, va, w) = [m |-> n, page |-> p]
    BY <1>1, <2>1, <2>2, <2>3, <2>4, <2>5, Zenon DEF PageInsert, Replace
  <2>7. /\ a.ref[p] + 1 < Wrap /\ (h = p \/ (h = NULL /\ a.ref[p] # 0))
        /\ \A f \in Live(D) : D[f] # p
        /\ \A f \in Live(D) : \A i \in Pdes : Table(a, D, f, i) # p
    <3>1. CASE h = p
      <4>1. a.ref[p] = 0
        BY <2>2, <3>1, Constants, Zenon DEF Good
      <4>2. Unused(a, D, p)
        BY <2>2, <4>1, GoodFacts, ExtraNat
      <4> QED
        BY <3>1, <4>1, <4>2, Constants DEF Unused
    <3>2. CASE h = NULL /\ \E f \in Live(D), u \in Vas : Pte(m, D, f, u).pa = p
      <4>1. PICK f \in Live(D), u \in Vas : Pte(m, D, f, u).pa = p
        BY <3>2, Zenon
      <4>2. Pte(a, D, f, u).pa = p /\ p # NULL
        BY <2>2, <4>1, Constants, Zenon DEF SamePtes
      <4>3. ~Unused(m, D, p)
        BY <4>1, Zenon DEF Unused
      <4>4. m.ref[p] # 0 /\ a.ref[p] = m.ref[p]
        BY <2>2, <4>3, UsedPage, Zenon
      <4>5. Private(a, D)
        BY <2>2, Zenon DEF Good
      <4>6. \A g \in Live(D) : D[g] # p
        BY <4>2, <4>5, Zenon DEF Private
      <4>7. \A g \in Live(D) : \A i \in Pdes : Table(a, D, g, i) # p
        BY <4>2, <4>5 DEF Private
      <4> QED
        BY <3>2, <4>4, <4>6, <4>7, Zenon
    <3> QED
      BY <3>1, <3>2, Zenon
  <2>8. Good(b, D, NULL, p) /\ SameTables(a, b, D) /\ SamePtes(a, b, D)
    BY <2>2, <2>3, <2>7, GoodIncref, Zenon
  <2>9. Good(c, D, NULL, p) /\ SameTables(b, c, D) /\ PteSet(b, c, D, e, va, Absent)
    BY <2>4, <2>8, GoodRemove, Zenon
  <2>10. c \in Memory /\ D \in Dirs /\ Private(c, D) /\ FreeList(c, NULL) /\ ~c.panicked
    BY <2>9, Zenon DEF Good
  <2>11. PDX(va) \in Pdes /\ PTX(va) \in Index
    BY VaParts, Zenon
  <2>12. pt = Table(c, D, e, PDX(va)) /\ pt \in Pages
    <3>1. pt = Table(c, D, e, PDX(va))
      BY <2>2, <2>8, <2>9, <2>11, Zenon DEF SameTables
    <3> QED
      BY <3>1, <2>2, <2>10, <2>11, TableType, Zenon
  <2>13. PICK z : z = [c.mem EXCEPT ![pt][PTX(va)] = Entry(p, w)]
    BY Zenon
  <2>14. Entry(p, w) \in Entries /\ Entry(p, w).pa = p /\ z \in [Pages -> [Index -> Entries]]
    BY <2>10, <2>11, <2>12, <2>13, MemoryFields, PageEntry
  <2>15. n = [c EXCEPT !.mem = z]
    BY <2>5, <2>10, <2>13, Zenon DEF Memory
  <2>16. n \in Memory /\ n.ref = c.ref /\ n.free = c.free /\ n.mem = z /\ n.panicked = c.panicked
    BY <2>10, <2>14, <2>15, Zenon DEF Memory
  <2>17. SameTables(c, n, D) /\ PteSet(c, n, D, e, va, Entry(p, w))
    BY <2>2, <2>10, <2>12, <2>13, <2>14, <2>16, WriteEntry, Zenon
  <2>18. \A f \in Live(D) : \A i \in Pdes : Table(c, D, f, i) # p
    BY <2>7, <2>8, <2>9 DEF SameTables
  <2>19. Private(n, D)
    BY <2>7, <2>10, <2>14, <2>17, <2>18, PrivatePte, Zenon
  <2>20. ASSUME NEW r \in Pages PROVE n.ref[r] = Count(n, D, r) + Extra(NULL, r)
    <3>1. Pte(c, D, e, va).pa = NULL
      BY <2>9, AbsentEntry, Zenon DEF PteSet
    <3>2. Count(n, D, r) + Extra(NULL, r) = Count(c, D, r) + Extra(p, r)
      BY <2>14, <2>17, <3>1, CountPte
    <3>3. c.ref[r] = Count(c, D, r) + Extra(p, r)
      BY <2>9, GoodFacts
    <3> QED
      BY <3>2, <3>3, <2>16, Zenon
  <2>21. FreeList(n, NULL)
    BY <2>10, <2>16, Zenon DEF FreeList
  <2>22. Good(n, D, NULL, NULL)
    BY <2>10, <2>16, <2>19, <2>20, <2>21, Zenon DEF Good
  <2>23. PteSet(m, n, D, e, va, Entry(p, w))
    BY <2>2, <2>8, <2>9, <2>17 DEF PteSet, SamePtes
  <2> QED
    BY <2>6, <2>22, <2>23, Constants
<1> QED
  BY <1>1, <1>2, <1>3, GoodWalk, Zenon

\* env_setup_vm()
LEMMA GoodSetup ==
  ASSUME NEW m, NEW D, Good(m, D, NULL, NULL), NEW e \in Envs, D[e] = NULL,
         m.free # <<>>, NEW C, C = [D EXCEPT ![e] = EnvSetupVm(m).page]
  PROVE  /\ EnvSetupVm(m).page \in Pages
         /\ EnvSetupVm(m).m.free = Tail(m.free)
         /\ Good(EnvSetupVm(m).m, C, NULL, NULL)
         /\ DirSet(m, EnvSetupVm(m).m, D, C, e, EnvSetupVm(m).page)
<1>1. PICK a, d : a = PageAlloc(m).m /\ d = PageAlloc(m).page
  BY Zenon
<1>2. /\ d \in Pages /\ a.mem[d] = Zero /\ a.free = Tail(m.free) /\ Good(a, D, d, NULL)
      /\ SameTables(m, a, D) /\ SamePtes(m, a, D)
  BY <1>1, GoodAlloc, Zenon
<1>3. PICK n : n = Incref(a, d)
  BY Zenon
<1>4. EnvSetupVm(m) = [m |-> n, page |-> d]
  BY <1>1, <1>2, <1>3, Constants, Zenon DEF EnvSetupVm
<1>5. EnvSetupVm(m).m = n /\ EnvSetupVm(m).page = d
  BY <1>4
<1>6. a \in Memory /\ D \in Dirs /\ a.ref[d] = 0
  BY <1>2, Constants, Zenon DEF Good
<1>7. a.ref[d] + 1 < Wrap
  BY <1>6, Constants
<1>8. Good(n, D, NULL, d) /\ SameTables(a, n, D) /\ SamePtes(a, n, D)
  BY <1>2, <1>3, <1>7, GoodIncref, Zenon
<1>9. n.mem = a.mem /\ n.free = a.free
  BY <1>2, <1>3, <1>6, <1>7, IncrefFields, Zenon
<1>10. Unused(n, D, d)
  <2>1. Unused(a, D, d)
    BY <1>2, <1>6, GoodFacts, ExtraNat
  <2> QED
    BY <2>1, <1>8, Zenon DEF Unused, SameTables, SamePtes
<1>11. n \in Memory /\ Private(n, D) /\ FreeList(n, NULL) /\ ~n.panicked
  BY <1>8, Zenon DEF Good
<1>12. C[e] = d /\ \A f \in Live(D) \ {e} : C[f] = D[f]
  BY <1>5, <1>6, Zenon DEF Dirs, Live
<1>13. \A i \in Pdes : Table(n, C, e, i) = NULL
  BY <1>2, <1>9, <1>12, ZeroType, AbsentEntry, Zenon DEF Table, Index
<1>14. \A f \in Live(D) \ {e} : \A i \in Pdes : Table(n, C, f, i) = Table(n, D, f, i)
  BY <1>12, Zenon DEF Table
<1>15. \A f \in Live(D) \ {e} : \A u \in Vas : Pte(n, C, f, u) = Pte(n, D, f, u)
  BY <1>12, Zenon DEF Pte
<1>16. DirSet(n, n, D, C, e, d)
  BY <1>5, <1>13, <1>14, <1>15, Zenon DEF DirSet
<1>17. DirSet(m, n, D, C, e, d)
  BY <1>2, <1>8, <1>16 DEF DirSet, SameTables, SamePtes
<1>18. Private(n, C)
  BY <1>2, <1>6, <1>10, <1>11, <1>16, PrivateDir, Zenon
<1>19. C \in Dirs
  BY <1>2, <1>5, <1>6, Zenon DEF Dirs
<1>20. ASSUME NEW p \in Pages PROVE n.ref[p] = Count(n, C, p) + Extra(NULL, p)
  <2>1. Count(n, C, p) + Extra(NULL, p) = Count(n, D, p) + Extra(d, p)
    BY <1>2, <1>6, <1>16, CountDir
  <2>2. n.ref[p] = Count(n, D, p) + Extra(d, p)
    BY <1>8, GoodFacts
  <2> QED
    BY <2>1, <2>2, Zenon
<1>21. Good(n, C, NULL, NULL)
  BY <1>11, <1>18, <1>19, <1>20, Zenon DEF Good
<1> QED
  BY <1>2, <1>5, <1>9, <1>17, <1>21, Zenon

\* env_free(): an empty page table goes.
LEMMA GoodTableGone ==
  ASSUME NEW m, NEW D, Good(m, D, NULL, NULL), NEW e \in Live(D), NEW i \in Pdes,
         Table(m, D, e, i) # NULL,
         \A u \in Vas : PDX(u) = i => Pte(m, D, e, u).pa = NULL
  PROVE  /\ Good(FreeTable(m, D[e], i), D, NULL, NULL)
         /\ TableSet(m, FreeTable(m, D[e], i), D, e, i, NULL)
         /\ SamePtes(m, FreeTable(m, D[e], i), D)
<1>0. m \in Memory /\ D \in Dirs /\ Private(m, D) /\ FreeList(m, NULL) /\ ~m.panicked
  BY Zenon DEF Good
<1>1. PICK t, z : t = Table(m, D, e, i) /\ z = [m.mem EXCEPT ![D[e]][i] = Absent]
  BY Zenon
<1>2. t \in Pages /\ t # NULL /\ D[e] \in Pages /\ i \in Index
  BY <1>0, <1>1, TableType, LiveType, Zenon DEF Index
<1>3. z \in [Pages -> [Index -> Entries]]
  BY <1>0, <1>1, <1>2, MemoryFields, AbsentEntry, Zenon
<1>4. PICK a : a = [m EXCEPT !.mem = z]
  BY Zenon
<1>5. a \in Memory /\ a.ref = m.ref /\ a.free = m.free /\ a.mem = z /\ a.panicked = m.panicked
  BY <1>0, <1>3, <1>4, Zenon DEF Memory
<1>6. PICK n : n = PageDecref(a, t)
  BY Zenon
<1>7. FreeTable(m, D[e], i) = n
  BY <1>0, <1>1, <1>4, <1>6, Zenon DEF FreeTable, Table, Memory
<1>8. ~Unused(m, D, t)
  BY <1>1, Zenon DEF Unused
<1>9. m.ref[t] # 0
  BY <1>2, <1>8, UsedPage, Zenon
<1>10. /\ n \in Memory /\ n.ref = [m.ref EXCEPT ![t] = @ - 1] /\ n.mem = z
       /\ FreeList(n, NULL) /\ ~n.panicked
  <2>1. FreeList(a, NULL) /\ ~a.panicked /\ a.ref[t] # 0
    BY <1>0, <1>5, <1>9, Zenon DEF FreeList
  <2> QED
    BY <2>1, <1>2, <1>5, <1>6, DecrefFields
<1>11. \A u \in Vas : PDX(u) = i => Pte(m, D, e, u) = Absent
  BY <1>0, PteField, Zenon
<1>12. TableSet(m, n, D, e, i, NULL) /\ SamePtes(m, n, D)
  <2>1. n.mem = [m.mem EXCEPT ![D[e]][i] = Absent]
    BY <1>1, <1>10, Zenon
  <2>2. TableSet(m, n, D, e, i, Absent.pa) /\ SamePtes(m, n, D)
    BY <1>0, <1>11, <2>1, WriteTable, AbsentEntry, Zenon
  <2> QED
    BY <2>2, AbsentEntry, Zenon
<1>13. Private(n, D)
  <2>1. \A f \in Live(D) : D[f] # NULL
    BY Zenon DEF Live
  <2> QED
    BY <1>0, <1>12, <2>1, PrivateTable, Zenon
<1>14. ASSUME NEW p \in Pages PROVE n.ref[p] = Count(n, D, p) + Extra(NULL, p)
  <2>1. Count(n, D, p) + Extra(t, p) = Count(m, D, p) + Extra(NULL, p)
    BY <1>1, <1>12, CountTable
  <2>2. m.ref[p] = Count(m, D, p) + Extra(NULL, p) /\ m.ref[p] \in Nat
    BY GoodFacts, Constants
  <2>3. n.ref[p] = IF p = t THEN m.ref[p] - 1 ELSE m.ref[p]
    BY <1>0, <1>2, <1>10, MemoryFields, Zenon
  <2>4. Extra(NULL, p) = 0 /\ Extra(t, p) = IF p = t THEN 1 ELSE 0
    BY Constants, Zenon DEF Extra
  <2> QED
    BY <2>1, <2>2, <2>3, <2>4, CountNat
<1>15. Good(n, D, NULL, NULL)
  BY <1>0, <1>10, <1>13, <1>14, Zenon DEF Good
<1> QED
  BY <1>7, <1>12, <1>15, Zenon

\* env_free(): an empty page directory goes.
LEMMA GoodDirGone ==
  ASSUME NEW m, NEW D, Good(m, D, NULL, NULL), NEW e \in Live(D),
         \A i \in Pdes : Table(m, D, e, i) = NULL,
         NEW C, C = [D EXCEPT ![e] = NULL]
  PROVE  /\ Good(PageDecref(m, D[e]), C, NULL, NULL)
         /\ DirSet(m, PageDecref(m, D[e]), D, C, e, NULL)
<1>0. m \in Memory /\ D \in Dirs /\ Private(m, D) /\ FreeList(m, NULL) /\ ~m.panicked
  BY Zenon DEF Good
<1>1. PICK d : d = D[e]
  BY Zenon
<1>2. d \in Pages /\ e \in Envs
  BY <1>0, <1>1, LiveType, Zenon
<1>3. PICK n : n = PageDecref(m, d)
  BY Zenon
<1>4. ~Unused(m, D, d)
  BY <1>1, Zenon DEF Unused
<1>5. m.ref[d] # 0
  BY <1>2, <1>4, UsedPage, Zenon
<1>6. /\ n \in Memory /\ n.ref = [m.ref EXCEPT ![d] = @ - 1] /\ n.mem = m.mem
      /\ FreeList(n, NULL) /\ ~n.panicked
  BY <1>0, <1>2, <1>3, <1>5, DecrefFields, Zenon
<1>7. SameTables(m, n, D) /\ SamePtes(m, n, D)
  BY <1>6, SameMemory, Zenon
<1>8. \A f \in Live(D) \ {e} : C[f] = D[f]
  BY <1>0, Zenon DEF Dirs, Live
<1>9. \A f \in Live(D) \ {e} : \A i \in Pdes : Table(n, C, f, i) = Table(n, D, f, i)
  BY <1>8, Zenon DEF Table
<1>10. \A f \in Live(D) \ {e} : \A u \in Vas : Pte(n, C, f, u) = Pte(n, D, f, u)
  BY <1>8, Zenon DEF Pte
<1>11. DirSet(m, n, D, C, e, NULL)
  BY <1>7, <1>9, <1>10, Zenon DEF DirSet, SameTables, SamePtes
<1>12. Private(n, C)
  BY <1>0, <1>2, <1>11, PrivateDir, Zenon
<1>13. C \in Dirs
  BY <1>0, Zenon DEF Dirs
<1>14. ASSUME NEW p \in Pages PROVE n.ref[p] = Count(n, C, p) + Extra(NULL, p)
  <2>1. Count(n, C, p) + Extra(d, p) = Count(m, D, p) + Extra(NULL, p)
    BY <1>0, <1>1, <1>2, <1>11, CountDir
  <2>2. m.ref[p] = Count(m, D, p) + Extra(NULL, p) /\ m.ref[p] \in Nat
    BY GoodFacts, Constants
  <2>3. n.ref[p] = IF p = d THEN m.ref[p] - 1 ELSE m.ref[p]
    BY <1>0, <1>2, <1>6, MemoryFields, Zenon
  <2>4. Extra(NULL, p) = 0 /\ Extra(d, p) = IF p = d THEN 1 ELSE 0
    BY Constants, Zenon DEF Extra
  <2> QED
    BY <2>1, <2>2, <2>3, <2>4, CountNat
<1>15. Good(n, C, NULL, NULL)
  BY <1>6, <1>12, <1>13, <1>14, Zenon DEF Good
<1> QED
  BY <1>1, <1>3, <1>11, <1>15, Zenon

-----------------------------------------------------------------------------
(* Pages that somebody can write.                                          *)

Writable(m, D) ==
  {p \in Pages : \E e \in Live(D), va \in Vas :
     Pte(m, D, e, va).pa = p /\ Pte(m, D, e, va).w}

\* A call leaves memory good and makes no page writable that was in use.
Kept(m, n, D, C) ==
  Good(n, C, NULL, NULL) /\ Writable(n, C) \subseteq Writable(m, D) \cup Range(m.free)

LEMMA WritableSet ==
  ASSUME NEW m, NEW n, NEW D, NEW e, NEW va, NEW ent, PteSet(m, n, D, e, va, ent)
  PROVE  \A p \in Writable(n, D) : p \in Writable(m, D) \/ (p = ent.pa /\ ent.w)
<1> SUFFICES ASSUME NEW p \in Writable(n, D)
             PROVE  p \in Writable(m, D) \/ (p = ent.pa /\ ent.w)
  BY Zenon
<1>1. PICK f \in Live(D), u \in Vas : Pte(n, D, f, u).pa = p /\ Pte(n, D, f, u).w
  BY Zenon DEF Writable
<1>2. Pte(n, D, f, u) = ent \/ Pte(n, D, f, u) = Pte(m, D, f, u)
  BY Zenon DEF PteSet
<1>3. p \in Pages
  BY Zenon DEF Writable
<1> QED
  BY <1>1, <1>2, <1>3, Zenon DEF Writable

LEMMA WritableSame ==
  ASSUME NEW m, NEW n, NEW D, SamePtes(m, n, D)
  PROVE  Writable(n, D) = Writable(m, D)
BY Zenon DEF Writable, SamePtes

LEMMA WritableDir ==
  ASSUME NEW m, NEW n, NEW D \in Dirs, NEW C, NEW e \in Envs, NEW q \in Pages \cup {NULL},
         DirSet(m, n, D, C, e, q)
  PROVE  Writable(n, C) \subseteq Writable(m, D)
<1> SUFFICES ASSUME NEW p \in Writable(n, C) PROVE p \in Writable(m, D)
  BY Zenon
<1>1. PICK f \in Live(C), u \in Vas : Pte(n, C, f, u).pa = p /\ Pte(n, C, f, u).w
  BY Zenon DEF Writable
<1>2. p \in Pages /\ p # NULL
  BY Constants, Zenon DEF Writable
<1>3. DirKept(m, n, D, C, e, q)
  BY DirViews, Zenon
<1>4. f # e
  BY <1>1, <1>2, <1>3, AbsentEntry, Zenon DEF DirKept
<1>5. f \in Live(D)
  BY <1>3, <1>4, Zenon DEF DirKept
<1>6. Pte(n, C, f, u) = Pte(m, D, f, u)
  BY <1>4, <1>5, Zenon DEF DirSet
<1> QED
  BY <1>1, <1>2, <1>5, <1>6, Zenon DEF Writable

-----------------------------------------------------------------------------
(* What each call does to memory.                                          *)

LEMMA KeptRemove ==
  ASSUME NEW m, NEW D, Good(m, D, NULL, NULL), NEW e \in Live(D), NEW va \in Vas
  PROVE  Kept(m, PageRemove(m, D[e], va), D, D)
<1>1. PICK n : n = PageRemove(m, D[e], va)
  BY Zenon
<1>2. Good(n, D, NULL, NULL) /\ PteSet(m, n, D, e, va, Absent)
  BY <1>1, GoodRemove, Zenon
<1>3. Writable(n, D) \subseteq Writable(m, D)
  BY <1>2, WritableSet, AbsentEntry, Zenon
<1> QED
  BY <1>1, <1>2, <1>3, Zenon DEF Kept

LEMMA KeptAlloc ==
  ASSUME NEW m, NEW D, Good(m, D, NULL, NULL), NEW e \in Live(D), NEW va \in Vas,
         NEW w \in BOOLEAN, PageAlloc(m).page # NULL
  PROVE  Kept(m, InsertNew(PageAlloc(m).m, D[e], PageAlloc(m).page, va, w), D, D)
<1>0. m \in Memory
  BY Zenon DEF Good
<1>1. m.free # <<>>
  BY <1>0, AllocFails
<1>2. PICK a, p : a = PageAlloc(m).m /\ p = PageAlloc(m).page
  BY Zenon
<1>3. p \in Range(m.free) /\ p \in Pages /\ Good(a, D, p, NULL) /\ SamePtes(m, a, D)
  BY <1>1, <1>2, GoodAlloc, Zenon
<1>4. a.ref[p] + 1 < Wrap
  <2>1. a.ref[p] = 0
    BY <1>3, Constants, Zenon DEF Good
  <2> QED
    BY <2>1, Constants
<1>5. PICK r : r = PageInsert(a, D[e], p, va, w)
  BY Zenon
<1>6. PICK n : n = InsertNew(a, D[e], p, va, w)
  BY Zenon
<1>7. n = IF r.page = NULL THEN PageFree(r.m, p) ELSE r.m
  BY <1>5, <1>6, Zenon DEF InsertNew
<1>8. CASE /\ r.page # NULL /\ Good(r.m, D, NULL, NULL)
           /\ PteSet(a, r.m, D, e, va, Entry(p, w))
  <2>1. n = r.m
    BY <1>7, <1>8, Zenon
  <2>2. \A q \in Writable(n, D) : q \in Writable(a, D) \/ q = p
    BY <1>3, <1>8, <2>1, WritableSet, PageEntry
  <2>3. Writable(a, D) = Writable(m, D)
    BY <1>3, WritableSame, Zenon
  <2> QED
    BY <1>2, <1>3, <1>6, <1>8, <2>1, <2>2, <2>3, Zenon DEF Kept
<1>9. CASE r = [m |-> a, page |-> NULL]
  <2>1. n = PageFree(a, p)
    BY <1>7, <1>9, Zenon
  <2>2. Good(n, D, NULL, NULL) /\ SamePtes(a, n, D)
    BY <1>3, <2>1, GoodFree, Zenon
  <2>3. Writable(n, D) = Writable(m, D)
    BY <1>3, <2>2, WritableSame
  <2> QED
    BY <1>2, <1>6, <2>2, <2>3, Zenon DEF Kept
<1> QED
  BY <1>3, <1>4, <1>5, <1>8, <1>9, GoodInsert, Zenon

\* A mapped page is counted by its mappings alone.
LEMMA MappedCount ==
  ASSUME NEW m, NEW D, Good(m, D, NULL, NULL), NEW e \in Live(D), NEW va \in Vas,
         Pte(m, D, e, va).pa # NULL
  PROVE  m.ref[Pte(m, D, e, va).pa] = Cardinality(Mapped(m, D, Pte(m, D, e, va).pa))
<1>0. m \in Memory /\ D \in Dirs /\ Private(m, D)
  BY Zenon DEF Good
<1>1. PICK p : p = Pte(m, D, e, va).pa
  BY Zenon
<1>2. p \in Pages
  BY <1>0, <1>1, PteField, Zenon
<1>3. AsDirectory(D, p) = {}
  BY <1>0, <1>1, Zenon DEF AsDirectory, Private
<1>4. AsTable(m, D, p) = {}
  <2>1. \A f \in Live(D) : \A i \in Pdes : Table(m, D, f, i) # p
    BY <1>0, <1>1, Zenon DEF Private
  <2> QED
    BY <2>1, Zenon DEF AsTable
<1>5. Cardinality(AsDirectory(D, p)) = 0 /\ Cardinality(AsTable(m, D, p)) = 0
  BY <1>3, <1>4, FS_EmptySet, Zenon
<1>6. m.ref[p] = Count(m, D, p) + Extra(NULL, p) /\ Extra(NULL, p) = 0
  BY <1>2, GoodFacts, Constants DEF Extra
<1> QED
  BY <1>1, <1>5, <1>6, FiniteUses DEF Count

LEMMA KeptMap ==
  ASSUME NEW m, NEW D, Good(m, D, NULL, NULL), NEW e \in Live(D), NEW va \in Vas,
         NEW dst \in Live(D), NEW dstva \in Vas, NEW w \in BOOLEAN,
         \A p \in Pages : Cardinality(Mapped(m, D, p)) < Wrap - 1,
         MayMap(PageLookup(m, D[e], va), w)
  PROVE  Kept(m, PageInsert(m, D[dst], PageLookup(m, D[e], va).pa, dstva, w).m, D, D)
<1>0. m \in Memory /\ D \in Dirs
  BY Zenon DEF Good
<1>1. PICK pte, p : pte = Pte(m, D, e, va) /\ p = pte.pa
  BY Zenon
<1>2. PageLookup(m, D[e], va) = pte
  BY <1>1, Zenon DEF Pte
<1>3. p # NULL /\ (w => pte.w)
  BY <1>1, <1>2, Zenon DEF MayMap, Present
<1>4. p \in Pages
  BY <1>0, <1>1, <1>3, PteField, Zenon
<1>5. m.ref[p] + 1 < Wrap
  BY <1>1, <1>3, <1>4, MappedCount, FiniteUses, Constants
<1>6. PICK r : r = PageInsert(m, D[dst], p, dstva, w)
  BY Zenon
<1>7. CASE r = [m |-> m, page |-> NULL]
  <2>1. r.m = m
    BY <1>7, Zenon
  <2> QED
    BY <1>1, <1>2, <1>6, <2>1, Zenon DEF Kept
<1>8. CASE Good(r.m, D, NULL, NULL) /\ PteSet(m, r.m, D, dst, dstva, Entry(p, w))
  <2>1. w => p \in Writable(m, D)
    BY <1>1, <1>3, <1>4, Zenon DEF Writable
  <2>2. \A q \in Writable(r.m, D) : q \in Writable(m, D) \/ (q = p /\ w)
    BY <1>4, <1>8, WritableSet, PageEntry
  <2> QED
    BY <1>1, <1>2, <1>6, <1>8, <2>1, <2>2, Zenon DEF Kept
<1> QED
  BY <1>1, <1>4, <1>5, <1>6, <1>7, <1>8, GoodInsert

LEMMA KeptExofork ==
  ASSUME NEW m, NEW D, Good(m, D, NULL, NULL), NEW e \in Envs, D[e] = NULL,
         EnvSetupVm(m).page # NULL
  PROVE  Kept(m, EnvSetupVm(m).m, D, [D EXCEPT ![e] = EnvSetupVm(m).page])
<1>0. m \in Memory /\ D \in Dirs
  BY Zenon DEF Good
<1>1. m.free # <<>>
  BY <1>0, AllocFails DEF EnvSetupVm
<1>2. PICK n, d : n = EnvSetupVm(m).m /\ d = EnvSetupVm(m).page
  BY Zenon
<1>3. PICK C : C = [D EXCEPT ![e] = d]
  BY Zenon
<1>4. d \in Pages /\ Good(n, C, NULL, NULL) /\ DirSet(m, n, D, C, e, d)
  BY <1>1, <1>2, <1>3, GoodSetup, Zenon
<1>5. Writable(n, C) \subseteq Writable(m, D)
  BY <1>0, <1>4, WritableDir, Zenon
<1> QED
  BY <1>2, <1>3, <1>4, <1>5, Zenon DEF Kept

LEMMA KeptTableGone ==
  ASSUME NEW m, NEW D, Good(m, D, NULL, NULL), NEW e \in Live(D), NEW i \in Pdes,
         Table(m, D, e, i) # NULL,
         \A u \in Vas : PDX(u) = i => Pte(m, D, e, u).pa = NULL
  PROVE  Kept(m, FreeTable(m, D[e], i), D, D)
<1>1. PICK n : n = FreeTable(m, D[e], i)
  BY Zenon
<1>2. Good(n, D, NULL, NULL) /\ SamePtes(m, n, D)
  BY <1>1, GoodTableGone, Zenon
<1> QED
  BY <1>1, <1>2, WritableSame, Zenon DEF Kept

LEMMA KeptDirGone ==
  ASSUME NEW m, NEW D, Good(m, D, NULL, NULL), NEW e \in Live(D),
         \A i \in Pdes : Table(m, D, e, i) = NULL
  PROVE  Kept(m, PageDecref(m, D[e]), D, [D EXCEPT ![e] = NULL])
<1>0. D \in Dirs /\ e \in Envs
  BY Zenon DEF Good, Live
<1>1. PICK n, C : n = PageDecref(m, D[e]) /\ C = [D EXCEPT ![e] = NULL]
  BY Zenon
<1>2. Good(n, C, NULL, NULL) /\ DirSet(m, n, D, C, e, NULL)
  BY <1>1, GoodDirGone, Zenon
<1>3. Writable(n, C) \subseteq Writable(m, D)
  BY <1>0, <1>2, WritableDir, Zenon
<1> QED
  BY <1>1, <1>2, <1>3, Zenon DEF Kept

-----------------------------------------------------------------------------
(* The specification.                                                      *)

LEMMA ListOfPages ==
  ASSUME NEW list \in Bijection(1 .. Cardinality(Pages), Pages)
  PROVE  /\ list \in Seq(Pages) /\ IsInjective(list) /\ Range(list) = Pages
         /\ list # <<>> /\ Tail(list) # <<>> /\ Tail(Tail(list)) # <<>>
<1>1. Cardinality(Pages) \in Nat /\ Cardinality(Pages) >= 3
  BY PmapConstants, FS_CardinalityType, Zenon
<1>2. PICK N \in Nat : N = Cardinality(Pages) /\ N >= 3
  BY <1>1, Zenon
<1>3. /\ list \in [1 .. N -> Pages] /\ IsInjective(list)
      /\ \A p \in Pages : \E i \in 1 .. N : list[i] = p
  BY <1>2, Zenon DEF Bijection, Injection, Surjection
<1>4. list \in Seq(Pages) /\ Len(list) = N
  BY <1>2, <1>3
<1>5. Range(list) = Pages
  BY <1>3, Zenon DEF Range
<1>6. Len(Tail(list)) = N - 1 /\ Tail(list) \in Seq(Pages) /\ list # <<>>
  BY <1>2, <1>4
<1>7. Len(Tail(Tail(list))) = N - 2 /\ Tail(list) # <<>>
  <2>1. PICK q \in Seq(Pages) : q = Tail(list)
    BY <1>6, Zenon
  <2>0. Len(q) = N - 1 /\ N - 1 > 0
    BY <1>2, <1>6, <2>1
  <2>2. Len(q) = N - 1 /\ q # <<>>
    BY <2>0
  <2>3. Len(Tail(q)) = N - 2
    BY <1>2, <2>2
  <2> QED
    BY <2>1, <2>2, <2>3, Zenon
<1>8. Tail(Tail(list)) # <<>>
  BY <1>2, <1>7
<1> QED
  BY <1>3, <1>4, <1>5, <1>6, <1>7, <1>8, Zenon

\* page_init() before the first environment.
LEMMA GoodPageInit ==
  ASSUME NEW list \in Bijection(1 .. Cardinality(Pages), Pages)
  PROVE  Good(PageInit(list), [e \in Envs |-> NULL], NULL, NULL)
<1>1. PICK m, D : m = PageInit(list) /\ D = [e \in Envs |-> NULL]
  BY Zenon
<1>2. PICK c, z : c = [p \in Pages |-> 0] /\ z = [p \in Pages |-> Zero]
  BY Zenon
<1>3. c \in [Pages -> 0 .. (Wrap - 1)] /\ z \in [Pages -> [Index -> Entries]]
  BY <1>2, ZeroType, Constants
<1>4. m = [ref |-> c, free |-> list, mem |-> z, panicked |-> FALSE]
  BY <1>1, <1>2, Zenon DEF PageInit
<1>5. m \in Memory /\ m.ref = c /\ m.free = list /\ ~m.panicked
  BY <1>3, <1>4, ListOfPages, Zenon DEF Memory
<1>6. D \in Dirs /\ Live(D) = {}
  BY <1>1, Zenon DEF Dirs, Live
<1>7. Private(m, D)
  BY <1>6, Zenon DEF Private
<1>8. FreeList(m, NULL)
  <2>1. {p \in Pages : c[p] = 0} \ {NULL} = Pages
    BY <1>2, Constants, Zenon
  <2> QED
    BY <1>5, <2>1, ListOfPages, Zenon DEF FreeList
<1>9. ASSUME NEW p \in Pages PROVE m.ref[p] = Count(m, D, p) + Extra(NULL, p)
  <2>1. Unused(m, D, p)
    BY <1>6, Zenon DEF Unused
  <2>2. Count(m, D, p) = 0 /\ Extra(NULL, p) = 0
    BY <2>1, CountZero, Constants, Zenon DEF Extra
  <2> QED
    BY <1>2, <1>5, <2>2
<1> QED
  BY <1>1, <1>5, <1>6, <1>7, <1>8, <1>9, Zenon DEF Good

LEMMA InitGood == Init => Good(pm, env_pgdir, NULL, NULL)
<1> SUFFICES ASSUME Init PROVE Good(pm, env_pgdir, NULL, NULL)
  BY Zenon
<1>1. PICK list \in Bijection(1 .. Cardinality(Pages), Pages) :
        /\ pm = EnvCreate(PageInit(list)).m
        /\ env_pgdir = [e \in Envs |-> IF e = 1 THEN EnvCreate(PageInit(list)).page ELSE NULL]
  BY Zenon DEF Init
<1>2. PICK m, D : m = PageInit(list) /\ D = [e \in Envs |-> NULL]
  BY Zenon
<1>3. Good(m, D, NULL, NULL)
  BY <1>2, GoodPageInit, Zenon
<1>4. m.free = list /\ 1 \in Envs /\ D[1] = NULL
  BY <1>2, Constants DEF PageInit, Envs
<1>5. PICK a, d : a = EnvSetupVm(m).m /\ d = EnvSetupVm(m).page
  BY Zenon
<1>6. PICK C : C = [D EXCEPT ![1] = d]
  BY Zenon
<1>7. d \in Pages /\ a.free = Tail(list) /\ Good(a, C, NULL, NULL)
  BY <1>3, <1>4, <1>5, <1>6, GoodSetup, ListOfPages, Zenon
<1>8. PICK b, p : b = PageAlloc(a).m /\ p = PageAlloc(a).page
  BY Zenon
<1>9. p \in Pages /\ b.free = Tail(Tail(list)) /\ Good(b, C, p, NULL)
  BY <1>7, <1>8, GoodAlloc, ListOfPages, Zenon
<1>10. C[1] = d /\ 1 \in Live(C)
  BY <1>2, <1>4, <1>6, <1>7, Constants, Zenon DEF Live
<1>11. <<0, 0>> \in Vas
  BY VaPair, Constants DEF Pdes, Ptes
<1>12. b.ref[p] + 1 < Wrap
  <2>1. b.ref[p] = 0
    BY <1>9, Constants, Zenon DEF Good
  <2> QED
    BY <2>1, Constants
<1>13. PICK r : r = PageInsert(b, d, p, <<0, 0>>, TRUE)
  BY Zenon
<1>14. Good(r.m, C, NULL, NULL)
  <2>1. b.free # <<>>
    BY <1>9, ListOfPages, Zenon
  <2>2. TRUE \in BOOLEAN
    BY Zenon
  <2> QED
    BY <1>9, <1>10, <1>11, <1>12, <1>13, <2>1, <2>2, GoodInsert, Zenon
<1>15. EnvCreate(m) = [m |-> r.m, page |-> d]
  BY <1>5, <1>8, <1>13, Zenon DEF EnvCreate
<1>16. pm = r.m /\ env_pgdir = [e \in Envs |-> IF e = 1 THEN d ELSE NULL]
  BY <1>1, <1>2, <1>15
<1>17. env_pgdir = C
  BY <1>2, <1>6, <1>16, Zenon
<1> QED
  BY <1>14, <1>16, <1>17, Zenon

LEMMA InitIInv == Init => IInv
<1> SUFFICES ASSUME Init PROVE IInv
  BY Zenon
<1>1. parent = [e \in Envs |-> NULL] /\ freeing = NULL /\ at = <<0, 0>>
  BY Zenon DEF Init
<1>2. TypeOK
  BY <1>1, Constants DEF TypeOK
<1>3. Emptied
  BY <1>1, Zenon DEF Emptied
<1> QED
  BY <1>2, <1>3, InitGood, Zenon DEF IInv

\* Fewer than Wrap - 1 mappings of each page, so that one more can be counted.
NoOverflow ==
  \A p \in Pages : Cardinality(Mapped(pm, env_pgdir, p)) < Wrap - 1

Step == Kept(pm, pm', env_pgdir, env_pgdir')

LEMMA AliveLive == Alive = Live(env_pgdir)
BY Zenon DEF Alive, Live

LEMMA ExoforkStep ==
  ASSUME IInv, NEW caller \in Envs, NEW e \in Envs, freeing = NULL, SysExofork(caller, e)
  PROVE  Step /\ TypeOK' /\ Emptied'
<1>1. env_pgdir[e] = NULL /\ EnvSetupVm(pm).page # NULL
  BY Zenon DEF SysExofork, Alive
<1>2. pm' = EnvSetupVm(pm).m /\ env_pgdir' = [env_pgdir EXCEPT ![e] = EnvSetupVm(pm).page]
  BY Zenon DEF SysExofork
<1>3. Step
  BY <1>1, <1>2, KeptExofork, Zenon DEF Step, IInv
<1>4. parent' = [parent EXCEPT ![e] = caller] /\ freeing' = freeing /\ at' = at
  BY Zenon DEF SysExofork
<1>5. TypeOK'
  BY <1>4, Zenon DEF TypeOK, IInv
<1> QED
  BY <1>3, <1>4, <1>5, Zenon DEF Emptied

LEMMA PageAllocStep ==
  ASSUME IInv, NEW caller \in Envs, NEW e \in Envs, NEW va \in Vas, NEW w \in BOOLEAN,
         freeing = NULL, SysPageAlloc(caller, e, va, w)
  PROVE  Step /\ TypeOK' /\ Emptied'
<1>1. e \in Live(env_pgdir) /\ PageAlloc(pm).page # NULL
  BY AliveLive, Zenon DEF SysPageAlloc, Envid2env
<1>2. /\ pm' = InsertNew(PageAlloc(pm).m, env_pgdir[e], PageAlloc(pm).page, va, w)
      /\ UNCHANGED <<env_pgdir, parent, freeing, at>>
  BY Zenon DEF SysPageAlloc
<1>3. Step
  BY <1>1, <1>2, KeptAlloc, Zenon DEF Step, IInv
<1> QED
  BY <1>2, <1>3, Zenon DEF TypeOK, Emptied, IInv

LEMMA PageMapStep ==
  ASSUME IInv, NoOverflow, NEW caller \in Envs, NEW src \in Envs, NEW srcva \in Vas,
         NEW dst \in Envs, NEW dstva \in Vas, NEW w \in BOOLEAN,
         freeing = NULL, SysPageMap(caller, src, srcva, dst, dstva, w)
  PROVE  Step /\ TypeOK' /\ Emptied'
<1>1. src \in Live(env_pgdir) /\ dst \in Live(env_pgdir)
  BY AliveLive, Zenon DEF SysPageMap, Envid2env
<1>2. /\ MayMap(PageLookup(pm, env_pgdir[src], srcva), w)
      /\ pm' = PageInsert(pm, env_pgdir[dst], PageLookup(pm, env_pgdir[src], srcva).pa,
                          dstva, w).m
      /\ UNCHANGED <<env_pgdir, parent, freeing, at>>
  BY Zenon DEF SysPageMap
<1>3. Step
  BY <1>1, <1>2, KeptMap, Zenon DEF Step, IInv, NoOverflow
<1> QED
  BY <1>2, <1>3, Zenon DEF TypeOK, Emptied, IInv

LEMMA PageUnmapStep ==
  ASSUME IInv, NEW caller \in Envs, NEW e \in Envs, NEW va \in Vas,
         freeing = NULL, SysPageUnmap(caller, e, va)
  PROVE  Step /\ TypeOK' /\ Emptied'
<1>1. e \in Live(env_pgdir)
  BY AliveLive, Zenon DEF SysPageUnmap, Envid2env
<1>2. pm' = PageRemove(pm, env_pgdir[e], va) /\ UNCHANGED <<env_pgdir, parent, freeing, at>>
  BY Zenon DEF SysPageUnmap
<1>3. Step
  BY <1>1, <1>2, KeptRemove, Zenon DEF Step, IInv
<1> QED
  BY <1>2, <1>3, Zenon DEF TypeOK, Emptied, IInv

LEMMA NothingChanges ==
  ASSUME Good(pm, env_pgdir, NULL, NULL), UNCHANGED <<pm, env_pgdir>>
  PROVE  Step
BY Zenon DEF Step, Kept

LEMMA EnvDestroyStep ==
  ASSUME IInv, NEW caller \in Envs, NEW e \in Envs, EnvDestroy(caller, e)
  PROVE  Step /\ TypeOK' /\ Emptied'
<1>1. e \in Live(env_pgdir)
  BY AliveLive, Zenon DEF EnvDestroy, Envid2env
<1>2. freeing' = e /\ at' = <<0, 0>> /\ UNCHANGED <<pm, env_pgdir, parent>>
  BY Zenon DEF EnvDestroy
<1>3. Step
  BY <1>2, NothingChanges, Zenon DEF IInv
<1>4. TypeOK'
  BY <1>2, Constants DEF TypeOK, IInv
<1>5. Emptied'
  <2>1. PDX(at') = 0 /\ PTX(at') = 0
    BY <1>2, Zenon DEF PDX, PTX
  <2>2. \A i \in Pdes : ~(i < 0)
    BY Constants DEF Pdes
  <2>3. \A va \in Vas : ~(PTX(va) < 0)
    BY VaParts, Constants DEF Ptes
  <2> QED
    BY <1>1, <1>2, <2>1, <2>2, <2>3, Zenon DEF Emptied
<1> QED
  BY <1>3, <1>4, <1>5, Zenon

LEMMA Place ==
  ASSUME TypeOK
  PROVE  /\ at = <<PDX(at), PTX(at)>>
         /\ PDX(at) \in 0 .. NPDENTRIES /\ PTX(at) \in 0 .. NPTENTRIES
BY DEF TypeOK, PDX, PTX

LEMMA FreePageStep ==
  ASSUME IInv, freeing # NULL, EnvFreePage(env_pgdir[freeing])
  PROVE  Step /\ TypeOK' /\ Emptied'
<1>1. freeing \in Live(env_pgdir)
  BY Zenon DEF IInv, Emptied
<1>2. PICK i, j : i = PDX(at) /\ j = PTX(at)
  BY Zenon
<1>3. at = <<i, j>> /\ i \in 0 .. NPDENTRIES /\ j \in 0 .. NPTENTRIES
  BY <1>2, Place, Zenon DEF IInv
<1>4. i \in Pdes /\ j \in Ptes
  BY <1>2, <1>3, Constants DEF EnvFreePage, Pdes, Ptes
<1>5. at \in Vas
  BY <1>3, <1>4, VaPair, Zenon
<1>6. /\ pm' = PageRemove(pm, env_pgdir[freeing], at)
      /\ at' = <<i, j + 1>> /\ UNCHANGED <<env_pgdir, parent, freeing>>
  BY <1>2, Zenon DEF EnvFreePage
<1>7. Step
  BY <1>1, <1>5, <1>6, KeptRemove, Zenon DEF Step, IInv
<1>8. j + 1 \in 0 .. NPTENTRIES
  BY <1>4, Constants DEF Ptes
<1>9. TypeOK'
  BY <1>3, <1>6, <1>8, Zenon DEF TypeOK, IInv
<1>10. /\ SameTables(pm, pm', env_pgdir)
       /\ PteSet(pm, pm', env_pgdir, freeing, at, Absent)
  BY <1>1, <1>5, <1>6, GoodRemove, Zenon DEF IInv
<1>11. PDX(at') = i /\ PTX(at') = j + 1
  BY <1>6, Zenon DEF PDX, PTX
<1>12. ASSUME NEW k \in Pdes, k < i PROVE Table(pm', env_pgdir, freeing, k) = NULL
  BY <1>1, <1>2, <1>10, <1>12, Zenon DEF SameTables, IInv, Emptied
<1>13. ASSUME NEW va \in Vas, PDX(va) = i, PTX(va) < j + 1
       PROVE  Pte(pm', env_pgdir, freeing, va).pa = NULL
  <2>1. CASE PTX(va) = j
    <3>1. va = at
      BY <1>3, <1>13, <2>1, VaParts, Zenon
    <3> QED
      BY <1>1, <1>10, <3>1, AbsentEntry, Zenon DEF PteSet
  <2>2. CASE PTX(va) # j
    <3>1. PTX(va) < j
      BY <1>4, <1>13, <2>2, VaParts, Constants DEF Ptes
    <3>2. Pte(pm, env_pgdir, freeing, va).pa = NULL
      BY <1>2, <1>13, <3>1, Zenon DEF IInv, Emptied
    <3>3. va # at
      BY <1>2, <2>2, Zenon
    <3> QED
      BY <1>1, <1>10, <3>2, <3>3, Zenon DEF PteSet
  <2> QED
    BY <2>1, <2>2, Zenon
<1>14. Emptied'
  BY <1>1, <1>6, <1>11, <1>12, <1>13, Zenon DEF Emptied
<1> QED
  BY <1>7, <1>9, <1>14, Zenon

LEMMA FreeTableStep ==
  ASSUME IInv, freeing # NULL, EnvFreeTable(env_pgdir[freeing])
  PROVE  Step /\ TypeOK' /\ Emptied'
<1>1. freeing \in Live(env_pgdir)
  BY Zenon DEF IInv, Emptied
<1>2. PICK i, j : i = PDX(at) /\ j = PTX(at)
  BY Zenon
<1>3. at = <<i, j>> /\ i \in 0 .. NPDENTRIES /\ j \in 0 .. NPTENTRIES
  BY <1>2, Place, Zenon DEF IInv
<1>4. i \in Pdes /\ i + 1 \in 0 .. NPDENTRIES
  BY <1>2, <1>3, Constants DEF EnvFreeTable, Pdes
<1>5. at' = <<i + 1, 0>> /\ UNCHANGED <<env_pgdir, parent, freeing>>
  BY <1>2, Zenon DEF EnvFreeTable
<1>6. TypeOK'
  BY <1>4, <1>5, Constants DEF TypeOK, IInv
<1>7. Step /\ TableSet(pm, pm', env_pgdir, freeing, i, NULL)
  <2>1. CASE ~Present(pm.mem[env_pgdir[freeing]][i]) /\ UNCHANGED pm
    <3>1. Table(pm, env_pgdir, freeing, i) = NULL
      BY <2>1, Zenon DEF Present, Table
    <3>2. Step
      BY <1>5, <2>1, NothingChanges, Zenon DEF IInv
    <3>3. \A f, k : Table(pm', env_pgdir, f, k) = Table(pm, env_pgdir, f, k)
      BY <2>1, Zenon DEF Table
    <3> QED
      BY <3>1, <3>2, <3>3, Zenon DEF TableSet
  <2>2. CASE /\ Present(pm.mem[env_pgdir[freeing]][i]) /\ j = NPTENTRIES
             /\ pm' = FreeTable(pm, env_pgdir[freeing], i)
    <3>1. Table(pm, env_pgdir, freeing, i) # NULL
      BY <2>2, Zenon DEF Present, Table
    <3>2. ASSUME NEW u \in Vas, PDX(u) = i
          PROVE  Pte(pm, env_pgdir, freeing, u).pa = NULL
      <4>1. PTX(u) < j
        BY <2>2, VaParts, Constants DEF Ptes
      <4> QED
        BY <1>2, <3>2, <4>1, Zenon DEF IInv, Emptied
    <3>3. Step
      BY <1>1, <1>4, <1>5, <2>2, <3>1, <3>2, KeptTableGone, Zenon DEF Step, IInv
    <3>4. TableSet(pm, pm', env_pgdir, freeing, i, NULL)
      BY <1>1, <1>4, <2>2, <3>1, <3>2, GoodTableGone, Zenon DEF IInv
    <3> QED
      BY <3>3, <3>4, Zenon
  <2> QED
    BY <1>2, <2>1, <2>2, Zenon DEF EnvFreeTable
<1>8. PDX(at') = i + 1 /\ PTX(at') = 0
  BY <1>5, Zenon DEF PDX, PTX
<1>9. ASSUME NEW k \in Pdes, k < i + 1 PROVE Table(pm', env_pgdir, freeing, k) = NULL
  <2>1. CASE k = i
    BY <1>1, <1>4, <1>7, <2>1, Zenon DEF TableSet
  <2>2. CASE k # i
    <3>1. k < i
      BY <1>4, <1>9, <2>2, Constants DEF Pdes
    <3>2. Table(pm, env_pgdir, freeing, k) = NULL
      BY <1>2, <3>1, Zenon DEF IInv, Emptied
    <3> QED
      BY <1>1, <1>7, <2>2, <3>2, Zenon DEF TableSet
  <2> QED
    BY <2>1, <2>2, Zenon
<1>10. \A va \in Vas : ~(PTX(va) < 0)
  BY VaParts, Constants DEF Ptes
<1>11. Emptied'
  BY <1>1, <1>5, <1>8, <1>9, <1>10, Zenon DEF Emptied
<1> QED
  BY <1>6, <1>7, <1>11, Zenon

LEMMA FreeDirectoryStep ==
  ASSUME IInv, freeing # NULL, EnvFreeDirectory(env_pgdir[freeing])
  PROVE  Step /\ TypeOK' /\ Emptied'
<1>1. freeing \in Live(env_pgdir)
  BY Zenon DEF IInv, Emptied
<1>2. /\ PDX(at) = NPDENTRIES /\ pm' = PageDecref(pm, env_pgdir[freeing])
      /\ env_pgdir' = [env_pgdir EXCEPT ![freeing] = NULL]
      /\ parent' = [f \in Envs |->
                      IF f = freeing \/ parent[f] = freeing THEN NULL ELSE parent[f]]
      /\ freeing' = NULL /\ at' = <<0, 0>>
  BY Zenon DEF EnvFreeDirectory
<1>3. \A k \in Pdes : k < NPDENTRIES
  BY Constants DEF Pdes
<1>4. \A k \in Pdes : Table(pm, env_pgdir, freeing, k) = NULL
  BY <1>2, <1>3, Zenon DEF IInv, Emptied
<1>5. Step
  BY <1>1, <1>2, <1>4, KeptDirGone, Zenon DEF Step, IInv
<1>6. TypeOK'
  BY <1>2, Constants DEF TypeOK, IInv
<1> QED
  BY <1>2, <1>5, <1>6, Zenon DEF Emptied

LEMMA NextStep ==
  ASSUME IInv, NoOverflow, [Next]_vars
  PROVE  Step /\ TypeOK' /\ Emptied'
<1>1. ASSUME EnvFree PROVE Step /\ TypeOK' /\ Emptied'
  BY <1>1, FreePageStep, FreeTableStep, FreeDirectoryStep, Zenon DEF EnvFree
<1>2. ASSUME NEW caller \in Envs, NEW e \in Envs, Syscall(caller, e)
      PROVE  Step /\ TypeOK' /\ Emptied'
  BY <1>2, ExoforkStep, EnvDestroyStep, PageUnmapStep, PageAllocStep, PageMapStep
     DEF Syscall
<1>3. CASE UNCHANGED vars
  <2>1. Step
    BY <1>3, NothingChanges, Zenon DEF vars, IInv
  <2> QED
    BY <1>3, <2>1, Zenon DEF vars, TypeOK, Emptied, IInv
<1> QED
  BY <1>1, <1>2, <1>3, Zenon DEF Next

LEMMA NextIInv ==
  ASSUME IInv, NoOverflow, [Next]_vars
  PROVE  IInv'
BY NextStep, Zenon DEF IInv, Step, Kept

LEMMA Invariance == Spec /\ []NoOverflow => []IInv
<1>1. Init => IInv
  BY InitIInv, Zenon
<1>2. IInv /\ NoOverflow /\ [Next]_vars => IInv'
  BY NextIInv, Zenon
<1> QED
  BY <1>1, <1>2, PTL DEF Spec

LEMMA InvRefsExact == IInv => RefsExact
<1> SUFFICES ASSUME IInv PROVE RefsExact
  BY Zenon
<1>1. Good(pm, env_pgdir, NULL, NULL)
  BY Zenon DEF IInv
<1>2. ASSUME NEW p \in Pages PROVE pm.ref[p] = Count(pm, env_pgdir, p)
  BY <1>1, GoodFacts, Constants DEF Extra
<1>3. /\ IsInjective(pm.free) /\ Range(pm.free) = {p \in Pages : pm.ref[p] = 0}
      /\ ~pm.panicked
  BY <1>1, Constants, Zenon DEF Good, FreeList
<1> QED
  BY <1>2, <1>3, Zenon DEF RefsExact, Count

\* The reference count of every page is exact and pages are on the free list when
\* nobody refers to them, in whatever order environments call page_insert(),
\* page_remove() and env_free() and wherever memory runs out, as long as pp_ref does
\* not overflow.
THEOREM RefsExactHolds == Spec /\ []NoOverflow => []RefsExact
BY Invariance, InvRefsExact, PTL

LEMMA InvTablesPrivate == IInv => TablesPrivate
<1> SUFFICES ASSUME IInv, NEW p \in Pages,
                    AsDirectory(env_pgdir, p) # {} \/ AsTable(pm, env_pgdir, p) # {}
             PROVE  pm.ref[p] = 1 /\ Mapped(pm, env_pgdir, p) = {}
  BY Zenon DEF TablesPrivate
<1>1. PICK m, D : m = pm /\ D = env_pgdir
  BY Zenon
<1>2. Good(m, D, NULL, NULL) /\ Private(m, D) /\ p # NULL
  BY <1>1, Constants, Zenon DEF IInv, Good
<1>3. m.ref[p] = Count(m, D, p)
  BY <1>2, GoodFacts, Constants DEF Extra
<1>4. CASE AsDirectory(D, p) # {}
  <2>1. PICK e \in Live(D) : D[e] = p
    BY <1>4, Zenon DEF AsDirectory
  <2>2. AsDirectory(D, p) = {e}
    BY <1>2, <2>1, Zenon DEF AsDirectory, Private
  <2>3. AsTable(m, D, p) = {}
    <3>1. \A f \in Live(D) : \A i \in Pdes : Table(m, D, f, i) # p
      BY <1>2, <2>1, Zenon DEF Private
    <3> QED
      BY <3>1, Zenon DEF AsTable
  <2>4. Mapped(m, D, p) = {}
    <3>1. \A f \in Live(D) : \A u \in Vas : Pte(m, D, f, u).pa # p
      BY <1>2, <2>1, Zenon DEF Private
    <3> QED
      BY <3>1, Zenon DEF Mapped
  <2>5. Cardinality(AsDirectory(D, p)) = 1
    BY <2>2, FS_Singleton, Zenon
  <2>6. Cardinality(AsTable(m, D, p)) = 0 /\ Cardinality(Mapped(m, D, p)) = 0
    BY <2>3, <2>4, FS_EmptySet, Zenon
  <2> QED
    BY <1>1, <1>3, <2>4, <2>5, <2>6 DEF Count
<1>5. CASE AsTable(m, D, p) # {}
  <2>1. PICK e \in Live(D), i \in Pdes : Table(m, D, e, i) = p
    BY <1>5, Zenon DEF AsTable
  <2>2. AsTable(m, D, p) = {<<e, i>>}
    <3>1. \A f \in Live(D) : \A j \in Pdes : Table(m, D, f, j) = p => f = e /\ j = i
      BY <1>2, <2>1 DEF Private
    <3> QED
      BY <2>1, <3>1 DEF AsTable
  <2>3. AsDirectory(D, p) = {}
    BY <1>2, <2>1 DEF AsDirectory, Private
  <2>4. Mapped(m, D, p) = {}
    <3>1. \A f \in Live(D) : \A u \in Vas : Pte(m, D, f, u).pa # p
      BY <1>2, <2>1, Zenon DEF Private
    <3> QED
      BY <3>1, Zenon DEF Mapped
  <2>5. Cardinality(AsTable(m, D, p)) = 1
    BY <2>2, FS_Singleton, Zenon
  <2>6. Cardinality(AsDirectory(D, p)) = 0 /\ Cardinality(Mapped(m, D, p)) = 0
    BY <2>3, <2>4, FS_EmptySet, Zenon
  <2> QED
    BY <1>1, <1>3, <2>4, <2>5, <2>6 DEF Count
<1> QED
  BY <1>1, <1>4, <1>5, Zenon

\* A page that is a page directory or a page table has exactly that one use: no
\* sequence of system calls lets an environment map it, or two environments share it.
THEOREM TablesPrivateHolds == Spec /\ []NoOverflow => []TablesPrivate
BY Invariance, InvTablesPrivate, PTL

LEMMA StepReadOnly ==
  ASSUME IInv, NoOverflow, [Next]_vars
  PROVE  [WritablePages' \subseteq WritablePages \cup Range(pm.free)]_vars
<1>1. Writable(pm', env_pgdir') \subseteq Writable(pm, env_pgdir) \cup Range(pm.free)
  BY NextStep, Zenon DEF Step, Kept
<1>2. WritablePages = Writable(pm, env_pgdir)
  BY AliveLive, Zenon DEF WritablePages, Writable
<1>3. WritablePages' = Writable(pm', env_pgdir')
  BY Zenon DEF WritablePages, Writable, Alive, Live
<1> QED
  BY <1>1, <1>2, <1>3, Zenon

\* No call makes a page writable that was read-only for all that map it: write access
\* starts with page_alloc(), and sys_page_map() only passes it on.
THEOREM ReadOnlyStaysHolds == Spec /\ []NoOverflow => ReadOnlyStays
<1>1. IInv /\ NoOverflow /\ [Next]_vars
        => [WritablePages' \subseteq WritablePages \cup Range(pm.free)]_vars
  BY StepReadOnly, Zenon
<1> QED
  BY <1>1, Invariance, PTL DEF Spec, ReadOnlyStays

=============================================================================
