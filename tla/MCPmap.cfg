\* Two environments share six pages; with two page directories and up to four
\* page tables, memory runs out in every call that allocates.
SPECIFICATION Spec
CONSTANTS
  NENV = 2
  Pages = {p1, p2, p3, p4, p5, p6}
  NULL = NULL
  NPDENTRIES = 2
  NPTENTRIES = 2
  Wrap = 65536
SYMMETRY Symmetry
INVARIANTS RefsExact TablesPrivate
PROPERTIES ReadOnlyStays
CHECK_DEADLOCK FALSE
