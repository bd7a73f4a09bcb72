------------------------------- MODULE Pmap -------------------------------
(***************************************************************************)
(* Physical pages and address spaces of JOS (lab/kern/pmap.c), the system  *)
(* calls that change address spaces (syscall.c), and what creating and     *)
(* freeing an environment does to memory (env.c).                          *)
(*                                                                         *)
(* Page directories and page tables live in physical pages: "mem" holds    *)
(* their entries below UTOP.  The kernel's half of a directory is the same *)
(* for all and counts no references; it is left out, and so is the data of *)
(* the users.  All of it runs under the big kernel lock, so that a call is *)
(* one step; env_free() is a step for every entry it looks at, with the    *)
(* lock held.                                                              *)
(***************************************************************************)
EXTENDS Integers, Sequences, FiniteSets, Functions

CONSTANTS
  NENV,
  Pages,        \* pages that page_init() puts on the free list
  NULL,
  NPDENTRIES,   \* entries of a page directory, below UTOP
  NPTENTRIES,   \* entries of a page table
  Wrap          \* pp_ref counts modulo Wrap, 2^16

ASSUME PmapConstants ==
  /\ NENV \in Nat \ {0}
  /\ NPDENTRIES \in Nat \ {0} /\ NPTENTRIES \in Nat \ {0}
  /\ IsFiniteSet(Pages) /\ Cardinality(Pages) >= 3 /\ NULL \notin Pages \cup Nat
  /\ Wrap \in Nat \ {0, 1}

VARIABLES
  pm,           \* physical memory: pp_ref, the free list, entries, failed asserts
  env_pgdir,    \* the page directory of each environment
  parent,       \* env_parent_id, NULL once the parent is gone
  freeing,      \* the environment that env_free() is freeing, or NULL
  at            \* pdeno and pteno of env_free()

vars == <<pm, env_pgdir, parent, freeing, at>>

Envs == 1 .. NENV
Pdes == 0 .. (NPDENTRIES - 1)
Ptes == 0 .. (NPTENTRIES - 1)
Index == Pdes \cup Ptes
Vas == Pdes \X Ptes

PDX(va) == va[1]
PTX(va) == va[2]

\* An entry without PTE_P, and one with it.
Absent == [pa |-> NULL, w |-> FALSE]
Entry(p, w) == [pa |-> p, w |-> w]
Present(entry) == entry.pa # NULL

Zero == [i \in Index |-> Absent]

-----------------------------------------------------------------------------
(* Operators on physical memory "m", each the effect of a function of      *)
(* pmap.c.  One that may fail returns the page it gives, or NULL.          *)

PageAlloc(m) ==
  IF m.free = <<>> THEN [m |-> m, page |-> NULL]
  ELSE [m |-> [m EXCEPT !.free = Tail(@), !.mem[Head(m.free)] = Zero],
        page |-> Head(m.free)]

\* pp_link is NULL also in the last page of the list.
Linked(m, p) == p \in Range(m.free) /\ p # m.free[Len(m.free)]

PageFree(m, p) ==
  [m EXCEPT !.free = <<p>> \o @, !.panicked = @ \/ m.ref[p] # 0 \/ Linked(m, p)]

Incref(m, p) == [m EXCEPT !.ref[p] = (@ + 1) % Wrap]

PageDecref(m, p) ==
  LET less == [m EXCEPT !.ref[p] = (@ - 1) % Wrap]
  IN IF less.ref[p] = 0 THEN PageFree(less, p) ELSE less

\* The page table of va, in the directory d.
PgdirWalk(m, d, va, create) ==
  LET pde == m.mem[d][PDX(va)]
      new == PageAlloc(m)
  IN IF Present(pde) THEN [m |-> m, page |-> pde.pa]
     ELSE IF ~create \/ new.page = NULL THEN [m |-> m, page |-> NULL]
     ELSE [m |-> [Incref(new.m, new.page) EXCEPT
                    !.mem[d][PDX(va)] = Entry(new.page, TRUE)],
           page |-> new.page]

\* The entry of va.
PageLookup(m, d, va) ==
  LET pt == PgdirWalk(m, d, va, FALSE).page
  IN IF pt = NULL THEN Absent ELSE m.mem[pt][PTX(va)]

PageRemove(m, d, va) ==
  LET pt == PgdirWalk(m, d, va, FALSE).page
      pte == PageLookup(m, d, va)
  IN IF Present(pte)
     THEN [PageDecref(m, pte.pa) EXCEPT !.mem[pt][PTX(va)] = Absent] ELSE m

\* Faulty: the old page goes before the new one is counted.
ReplaceLate(m, d, p, va) == Incref(PageRemove(m, d, va), p)

\* p is counted before the page at va goes, as they may be the same page.
Replace(m, d, p, va) == PageRemove(Incref(m, p), d, va)

PageInsert(m, d, p, va, w) ==
  LET walk == PgdirWalk(m, d, va, TRUE)
  IN IF walk.page = NULL THEN [m |-> walk.m, page |-> NULL]
     ELSE [m |-> [Replace(walk.m, d, p, va) EXCEPT
                    !.mem[walk.page][PTX(va)] = Entry(p, w)],
           page |-> p]

\* A new page, which goes back if it cannot be mapped.
InsertNew(m, d, p, va, w) ==
  LET inserted == PageInsert(m, d, p, va, w)
  IN IF inserted.page = NULL THEN PageFree(inserted.m, p) ELSE inserted.m

EnvSetupVm(m) ==
  LET new == PageAlloc(m)
  IN IF new.page = NULL THEN new
     ELSE [m |-> Incref(new.m, new.page), page |-> new.page]

\* Faulty: the page table is not given back.
FreeTableKept(m, d, pdeno) == [m EXCEPT !.mem[d][pdeno] = Absent]

\* The page table of an entry goes.
FreeTable(m, d, pdeno) ==
  PageDecref([m EXCEPT !.mem[d][pdeno] = Absent], m.mem[d][pdeno].pa)

-----------------------------------------------------------------------------

\* page_init() lists the pages in an order that does not matter.
PageInit(list) ==
  [ref |-> [p \in Pages |-> 0], free |-> list,
   mem |-> [p \in Pages |-> Zero], panicked |-> FALSE]

\* env_create() loads a program of a single page, which can be written.
EnvCreate(m) ==
  LET env == EnvSetupVm(m)
      new == PageAlloc(env.m)
  IN [m |-> PageInsert(new.m, env.page, new.page, <<0, 0>>, TRUE).m, page |-> env.page]

Init ==
  \E list \in Bijection(1 .. Cardinality(Pages), Pages) :
    LET created == EnvCreate(PageInit(list)) IN
    /\ pm = created.m
    /\ env_pgdir = [e \in Envs |-> IF e = 1 THEN created.page ELSE NULL]
    /\ parent = [e \in Envs |-> NULL]
    /\ freeing = NULL /\ at = <<0, 0>>

Alive == {e \in Envs : env_pgdir[e] # NULL}

\* envid2env(): an environment may name itself and its children.
Envid2env(caller, e) ==
  /\ {caller, e} \subseteq Alive
  /\ e = caller \/ parent[e] = caller

\* env_alloc() fails without memory for a page directory.
SysExofork(caller, e) ==
  LET made == EnvSetupVm(pm) IN
  /\ caller \in Alive /\ e \notin Alive
  /\ made.page # NULL
  /\ pm' = made.m
  /\ env_pgdir' = [env_pgdir EXCEPT ![e] = made.page]
  /\ parent' = [parent EXCEPT ![e] = caller]
  /\ UNCHANGED <<freeing, at>>

SysPageAlloc(caller, e, va, w) ==
  LET new == PageAlloc(pm) IN
  /\ Envid2env(caller, e)
  /\ new.page # NULL
  /\ pm' = InsertNew(new.m, env_pgdir[e], new.page, va, w)
  /\ UNCHANGED <<env_pgdir, parent, freeing, at>>

\* Faulty: nobody looks at the entry.
MayMapAny(pte, w) == Present(pte)

MayMap(pte, w) == Present(pte) /\ (w => pte.w)

SysPageMap(caller, src, srcva, dst, dstva, w) ==
  /\ Envid2env(caller, src) /\ Envid2env(caller, dst)
  /\ LET pte == PageLookup(pm, env_pgdir[src], srcva) IN
     /\ MayMap(pte, w)
     /\ pm' = PageInsert(pm, env_pgdir[dst], pte.pa, dstva, w).m
  /\ UNCHANGED <<env_pgdir, parent, freeing, at>>

SysPageUnmap(caller, e, va) ==
  /\ Envid2env(caller, e)
  /\ pm' = PageRemove(pm, env_pgdir[e], va)
  /\ UNCHANGED <<env_pgdir, parent, freeing, at>>

\* sys_env_destroy() and faults, or the trap of an environment that was running
\* elsewhere: the beginning of env_free().
EnvDestroy(caller, e) ==
  /\ Envid2env(caller, e)
  /\ freeing' = e /\ at' = <<0, 0>>
  /\ UNCHANGED <<pm, env_pgdir, parent>>

\* The entries of a page table that is there, one after the other.
EnvFreePage(d) ==
  /\ PDX(at) < NPDENTRIES /\ Present(pm.mem[d][PDX(at)])
  /\ PTX(at) < NPTENTRIES
  /\ pm' = PageRemove(pm, d, at)
  /\ at' = <<PDX(at), PTX(at) + 1>>
  /\ UNCHANGED <<env_pgdir, parent, freeing>>

\* The page table after its entries; one that is not there is passed over.
EnvFreeTable(d) ==
  /\ PDX(at) < NPDENTRIES
  /\ \/ ~Present(pm.mem[d][PDX(at)]) /\ UNCHANGED pm
     \/ /\ Present(pm.mem[d][PDX(at)]) /\ PTX(at) = NPTENTRIES
        /\ pm' = FreeTable(pm, d, PDX(at))
  /\ at' = <<PDX(at) + 1, 0>>
  /\ UNCHANGED <<env_pgdir, parent, freeing>>

\* The page directory goes last.  The id of an environment is not used again.
EnvFreeDirectory(d) ==
  /\ PDX(at) = NPDENTRIES
  /\ pm' = PageDecref(pm, d)
  /\ env_pgdir' = [env_pgdir EXCEPT ![freeing] = NULL]
  /\ parent' = [f \in Envs |->
                  IF f = freeing \/ parent[f] = freeing THEN NULL ELSE parent[f]]
  /\ freeing' = NULL /\ at' = <<0, 0>>

EnvFree ==
  /\ freeing # NULL
  /\ LET d == env_pgdir[freeing] IN
     EnvFreePage(d) \/ EnvFreeTable(d) \/ EnvFreeDirectory(d)

Syscall(caller, e) ==
  /\ freeing = NULL
  /\ \/ SysExofork(caller, e)
     \/ EnvDestroy(caller, e)
     \/ \E va \in Vas :
          \/ SysPageUnmap(caller, e, va)
          \/ \E w \in BOOLEAN :
               \/ SysPageAlloc(caller, e, va, w)
               \/ \E dst \in Envs, dstva \in Vas :
                    SysPageMap(caller, e, va, dst, dstva, w)

Next == EnvFree \/ \E caller, e \in Envs : Syscall(caller, e)

Spec == Init /\ [][Next]_vars

-----------------------------------------------------------------------------
(* Properties *)

\* In memory m, with the page directories D of the environments: the environments
\* that there are, the page table for entry i of a directory, and the entry of va.
Live(D) == {e \in Envs : D[e] # NULL}
Table(m, D, e, i) == m.mem[D[e]][i].pa
Pte(m, D, e, va) == PageLookup(m, D[e], va)

\* What refers to page p: mappings, environments, and entries of directories.
Mapped(m, D, p) == {x \in Live(D) \X Vas : Pte(m, D, x[1], x[2]).pa = p}
AsDirectory(D, p) == {e \in Live(D) : D[e] = p}
AsTable(m, D, p) == {x \in Live(D) \X Pdes : Table(m, D, x[1], x[2]) = p}

\* pp_ref is the number of mappings below UTOP, and uses as directory or table. A page
\* is on the free list, once, if nothing refers to it: calls that fail half way and
\* environments that exit lose no page; and the asserts of page_free() hold.
RefsExact ==
  /\ \A p \in Pages :
       pm.ref[p] = Cardinality(Mapped(pm, env_pgdir, p))
                 + Cardinality(AsDirectory(env_pgdir, p))
                 + Cardinality(AsTable(pm, env_pgdir, p))
  /\ IsInjective(pm.free) /\ Range(pm.free) = {p \in Pages : pm.ref[p] = 0}
  /\ ~pm.panicked

\* Users cannot reach page directories and page tables through a mapping, and no
\* two environments share one.
TablesPrivate ==
  \A p \in Pages : AsDirectory(env_pgdir, p) # {} \/ AsTable(pm, env_pgdir, p) # {} =>
    pm.ref[p] = 1 /\ Mapped(pm, env_pgdir, p) = {}

WritablePages ==
  {p \in Pages : \E e \in Alive, va \in Vas :
     Pte(pm, env_pgdir, e, va).pa = p /\ Pte(pm, env_pgdir, e, va).w}

\* sys_page_map() "must not grant write access to a read-only page": only a page
\* that was free, or that somebody could write already, can be written.
ReadOnlyStays ==
  [][WritablePages' \subseteq WritablePages \cup Range(pm.free)]_vars
=============================================================================
