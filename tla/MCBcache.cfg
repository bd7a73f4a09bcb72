\* Four blocks for three buffers, two uses at a time and two pinned blocks: bget() may
\* find no buffer, and panic.
CONSTANTS
  Procs = {p1, p2}
  Blocks = {b1, b2, b3, b4}
  Values = {v1, v2}
  Bufs = {x, y, z}
  MaxPinned = 2
  ReadStatus = {"good"}
SPECIFICATION Spec
SYMMETRY Symmetry
CHECK_DEADLOCK FALSE
INVARIANTS NoPanic RightBuffer SleepersHaveReason
PROPERTY StoresBlocks
