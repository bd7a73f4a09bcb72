\* Two readers and a writer; the array wraps around twice before the counters do.
CONSTANTS
  Procs = {p1, p2, p3}
  Readers = {p1, p2}
  Writers = {p3}
  Bytes = {0, 1}
  PIPESIZE = 2
  Wrap = 4
  ReadLengths = {1}
  WriteLengths = {2}
SPECIFICATION FairSpec
CHECK_DEADLOCK FALSE
INVARIANTS SleepersHaveReason NotFreedInUse
PROPERTIES IsFifo CallsEnd
