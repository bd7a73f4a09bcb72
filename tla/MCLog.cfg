\* Three processes and a log with room for two calls, each reserving three blocks and
\* writing at most two.
CONSTANTS
  Procs = {p1, p2, p3}
  Blocks = {b1, b2}
  Values = {0, 1}
  Zero = 0
  MAXOPBLOCKS = 3
  LOGSIZE = 6
  NLOG = 7
  OpBlocks = 2
SPECIFICATION FairSpec
INVARIANTS SleepersHaveReason DurableWhenQuiet NoPanic
PROPERTIES AtomicSpec SleeperWakes
