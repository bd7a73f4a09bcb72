\* Three environments in three slots: none is created, so none is the child of another.
CONSTANTS
  NENV = 3
  NCPU = 2
  NInit = 3
  MaxGen = 2
SPECIFICATION Spec
CHECK_DEADLOCK FALSE
INVARIANT OneCPU
