CONSTANTS
  Procs = {p1, p2}
  NInodes = 4
  NINODE = 3
  Names = {"a", "b", "d"}
  Workloads <- AllCalls
SPECIFICATION Spec
SYMMETRY Symmetry
CHECK_DEADLOCK FALSE
INVARIANTS
  NoPanic RefsExact LinkCountsExact LookupsDoNotDeadlock
