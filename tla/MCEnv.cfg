\* Two CPUs; two environments at first, which create others, start and destroy them,
\* and exit. The third environment of a slot has the id of the first.
CONSTANTS
  NENV = 3
  NCPU = 2
  NInit = 2
  MaxGen = 2
SPECIFICATION Spec
CHECK_DEADLOCK FALSE
INVARIANTS FreeListExact NoneAbandoned SomebodyAwake
