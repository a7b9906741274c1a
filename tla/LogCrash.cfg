CONSTANTS
  p1 = p1 p2 = p2
  b1 = b1 b2 = b2
  Procs = {p1, p2}
  Blocks = {b1, b2}
  Vals = {0, 1}
  NotCached = NotCached
  NoBlock = NoBlock
  MAXOPBLOCKS = 2
  LOGSIZE = 4
  LogBlocks = 4
  OpMax = 2
  MaxCrashes = 2
SPECIFICATION Spec
SYMMETRY Symmetry
INVARIANT PinnedUntilInstalled
PROPERTY AtomicCommit
