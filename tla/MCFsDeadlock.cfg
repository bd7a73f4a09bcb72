CONSTANTS
  Procs = {p1, p2}
  NInodes = 4
  NINODE = 3
  Names = {"a", "d"}
  Workloads <- RemovalCalls
SPECIFICATION Spec
SYMMETRY Symmetry
CHECK_DEADLOCK FALSE
INVARIANT LocksAcyclic
