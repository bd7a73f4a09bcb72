CONSTANTS
  NPROC = 3
  NCPU = 2
  MaxPid = 3
  Wrap = 1
  SleepTimes = {}
SPECIFICATION FairSpec
PROPERTIES Scheduled KilledExits InitReaps
