--------------------------------- MODULE Vm ---------------------------------
(***************************************************************************)
(* The page allocator of kalloc.c and the address spaces of vm.c, as       *)
(* operators on the state k of the kernel. The fields they are about:      *)
(*   freelist     the free pages                                           *)
(*   mem          what a page holds                                        *)
(*   lost         the pages that a page fault took and did not map         *)
(*   panic        what the kernel panicked about, or ""                    *)
(* An address space d is a record with the fields                          *)
(*   dir          the page of the page directory, 0 for no address space   *)
(*   tab          the pages of the page tables that there are; the last    *)
(*                one stands for those of the kernel's half                *)
(*   pte          the entries of the user pages that are present           *)
(*   u            the user pages that the user may access: PTE_U           *)
(* A user address is a number below KERNBASE. A page has a single value.   *)
(***************************************************************************)
EXTENDS Integers, Sequences, SequencesExt

CONSTANTS
  PGSIZE,      \* addresses in a page
  NPTENTRIES,  \* entries of a page table
  NPDENTRIES,  \* entries of the page directory for user addresses
  NPAGES       \* pages of physical memory

ASSUME VmConstants ==
  /\ PGSIZE \in Nat \ {0} /\ NPTENTRIES \in Nat \ {0}
  /\ NPDENTRIES \in Nat \ {0} /\ NPAGES \in Nat

Pages == 1 .. NPAGES
KERNBASE == PGSIZE * NPTENTRIES * NPDENTRIES
PDX(v) == v \div NPTENTRIES
\* PGROUNDUP(), as a number of pages; the pages a, a + 1, ... below b.
PageUp(a) == (a + PGSIZE - 1) \div PGSIZE
PagesFrom(a, b) == [j \in 1 .. (IF b > a THEN b - a ELSE 0) |-> a + j - 1]

NoSpace == [dir |-> 0, tab |-> <<>>, pte |-> <<>>, u |-> {}]

-----------------------------------------------------------------------------
(* kalloc.c *)

\* kalloc(): the page that was freed last, or 0.
Kalloc(k) ==
  IF k.freelist = <<>> THEN [k |-> k, r |-> 0]
  ELSE [k |-> [k EXCEPT !.freelist = Tail(@)], r |-> Head(k.freelist)]

\* kfree() of pages, one after the other: junk is written to each of them.
KfreeAll(k, fs) ==
  IF ~(ToSet(fs) \subseteq Pages) THEN [k EXCEPT !.panic = "kfree"]
  ELSE [k EXCEPT !.freelist = Reverse(fs) \o @,
                 !.mem = [f \in Pages |-> IF f \in ToSet(fs) THEN "junk" ELSE @[f]]]

Kfree(k, f) == KfreeAll(k, <<f>>)

\* kinit1() and kinit2(): every page is freed.
Kinit(k) == KfreeAll(k, [f \in 1 .. NPAGES |-> f])

-----------------------------------------------------------------------------
(* vm.c *)

\* walkpgdir() for page v: with alloc, the page table is made if it is not there.
\* r says whether there is one.
NewTable(a, d, v) ==
  IF a.r = 0 THEN [k |-> a.k, d |-> d, r |-> FALSE]
  ELSE [k |-> a.k, d |-> [d EXCEPT !.tab = (PDX(v) :> a.r) @@ @], r |-> TRUE]
Walkpgdir(k, d, v, alloc) ==
  IF PDX(v) \in DOMAIN d.tab THEN [k |-> k, d |-> d, r |-> TRUE]
  ELSE IF ~alloc THEN [k |-> k, d |-> d, r |-> FALSE]
  ELSE NewTable(Kalloc(k), d, v)

\* mappages() of one page.
Entered(w, v, f, user) ==
  IF ~w.r THEN [k |-> w.k, d |-> w.d, r |-> -1]
  ELSE IF v \in DOMAIN w.d.pte THEN [k |-> [w.k EXCEPT !.panic = "remap"], d |-> w.d, r |-> 0]
  ELSE [k |-> w.k, r |-> 0,
        d |-> [w.d EXCEPT !.pte = (v :> f) @@ @, !.u = IF user THEN @ \cup {v} ELSE @ \ {v}]]
Mappages(k, d, v, f, user) == Entered(Walkpgdir(k, d, v, TRUE), v, f, user)

\* What f maps the elements of a set of page numbers to, in their order.
Ascending(S) == SelectSeq(PagesFrom(0, NPAGES + NPTENTRIES * NPDENTRIES + 1), LAMBDA v : v \in S)
Along(f, order) == [j \in DOMAIN order |-> f[order[j]]]
InOrder(f, S) == Along(f, Ascending(S))

\* deallocuvm(): the pages from newsz to oldsz that are present.
Unmapped(k, d, gone) ==
  [k |-> KfreeAll(k, InOrder(d.pte, gone)),
   d |-> [d EXCEPT !.pte = Restrict(@, DOMAIN @ \ gone), !.u = @ \ gone]]
Deallocuvm(k, d, oldsz, newsz) ==
  Unmapped(k, d, {v \in DOMAIN d.pte : PageUp(newsz) <= v /\ v < PageUp(oldsz)})

\* freevm(): the user pages, the page tables, and the page directory.
Freevm(k, d) ==
  IF d.dir = 0 THEN [k EXCEPT !.panic = "freevm: no pgdir"]
  ELSE KfreeAll(Deallocuvm(k, d, KERNBASE, 0).k, InOrder(d.tab, DOMAIN d.tab) \o <<d.dir>>)

\* setupkvm(): r says whether there was memory for it.
KernelTables(t, d) ==
  IF t.r = 0 THEN [k |-> Freevm(t.k, d), d |-> NoSpace, r |-> FALSE]
  ELSE [k |-> t.k, d |-> [d EXCEPT !.tab = NPDENTRIES :> t.r], r |-> TRUE]
Directory(a) ==
  IF a.r = 0 THEN [k |-> a.k, d |-> NoSpace, r |-> FALSE]
  ELSE KernelTables(Kalloc(a.k), [NoSpace EXCEPT !.dir = a.r])
Setupkvm(k) == Directory(Kalloc(k))

\* A new user page v that holds value: kalloc(), memset() or memmove(), mappages();
\* r says whether there was memory for it, left is a page that could not be mapped.
Mapped(m, f) == [k |-> m.k, d |-> m.d, r |-> m.r = 0, left |-> IF m.r = 0 THEN 0 ELSE f]
MapPage(a, d, v, value, user) ==
  IF a.r = 0 THEN [k |-> a.k, d |-> d, r |-> FALSE, left |-> 0]
  ELSE Mapped(Mappages([a.k EXCEPT !.mem[a.r] = value], d, v, a.r, user), a.r)
NewPage(k, d, v, value, user) == MapPage(Kalloc(k), d, v, value, user)

KfreeLeft(k, f) == IF f = 0 THEN k ELSE Kfree(k, f)

\* allocuvm(): r is the new size, or 0.
Undone(s, left) == [k |-> KfreeLeft(s.k, left), d |-> s.d, r |-> 0]
Grown(s, oldsz, newsz) ==
  IF s.r THEN [k |-> s.k, d |-> s.d, r |-> newsz]
  ELSE Undone(Deallocuvm(s.k, s.d, newsz, oldsz), s.left)
Allocuvm(k, d, oldsz, newsz) ==
  IF newsz >= KERNBASE THEN [k |-> k, d |-> d, r |-> 0]
  ELSE IF newsz < oldsz THEN [k |-> k, d |-> d, r |-> oldsz]
  ELSE Grown(FoldLeft(LAMBDA s, v : IF s.r THEN NewPage(s.k, s.d, v, "zero", TRUE) ELSE s,
                      [k |-> k, d |-> d, r |-> TRUE, left |-> 0],
                      PagesFrom(PageUp(oldsz), PageUp(newsz))),
             oldsz, newsz)

\* Faulty variant: the child gets the parent's pages themselves.
CopyuvmShares(k, d, sz) ==
  FoldLeft(LAMBDA s, v : IF ~s.r \/ v \notin DOMAIN d.pte THEN s
                         ELSE Mapped(Mappages(s.k, s.d, v, d.pte[v], v \in d.u), 0),
           Setupkvm(k), PagesFrom(0, PageUp(sz)))

\* copyuvm(): a copy of the pages below sz, which must be there; r says whether there
\* was memory for it.
CopyPage(s, d, v) ==
  IF ~s.r \/ s.k.panic # "" THEN s
  ELSE IF PDX(v) \notin DOMAIN d.tab THEN [s EXCEPT !.k.panic = "copyuvm: pte should exist"]
  ELSE IF v \notin DOMAIN d.pte THEN [s EXCEPT !.k.panic = "copyuvm: page not present"]
  ELSE NewPage(s.k, s.d, v, s.k.mem[d.pte[v]], v \in d.u)
Copied(s) ==
  IF s.r \/ s.d = NoSpace THEN s
  ELSE [k |-> Freevm(KfreeLeft(s.k, s.left), s.d), d |-> NoSpace, r |-> FALSE]
Copyuvm(k, d, sz) ==
  Copied(FoldLeft(LAMBDA s, v : CopyPage(s, d, v), Setupkvm(k) @@ [left |-> 0],
                  PagesFrom(0, PageUp(sz))))

\* clearpteu(): the user may not access page v.
Clearpteu(d, v) == [d EXCEPT !.u = @ \ {v}]

\* copyout() to page v of d, through uva2ka(): r says whether it was done.
Copyout(k, d, v, value) ==
  IF v \notin DOMAIN d.pte \/ v \notin d.u THEN [k |-> k, r |-> FALSE]
  ELSE [k |-> [k EXCEPT !.mem[d.pte[v]] = value], r |-> TRUE]

\* T_PGFLT in trap(), at page v of d: a page is put there, and r says that the
\* instruction is to be tried again. A page that cannot be mapped is not freed, and a
\* page that is there, but may not be accessed, is mapped again.
NotFreed(s) == [s EXCEPT !.k.lost = IF s.left = 0 THEN @ ELSE @ \cup {s.left}]
PageFault(k, d, v) == NotFreed(NewPage(k, d, v, "zero", TRUE))

=============================================================================
