\* Processes fork, exit, wait, kill and sleep on two CPUs.
CONSTANTS
  NPROC = 3
  NCPU = 2
  MaxPid = 4
  Wrap = 2
  SleepTimes = {1}
SPECIFICATION Spec
INVARIANTS
  NoPanic OneStackOneCPU TickSleepersHaveReason NoOrphans WaitersHaveReason
