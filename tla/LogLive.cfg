CONSTANTS
  p1 = p1 p2 = p2
  b1 = b1 b2 = b2 b3 = b3
  Procs = {p1, p2}
  Blocks = {b1, b2, b3}
  Vals = {0}
  NotCached = NotCached
  NoBlock = NoBlock
  MAXOPBLOCKS = 2
  LOGSIZE = 4
  LogBlocks = 4
  OpMax = 1
  MaxCrashes = 2
SPECIFICATION FairSpec
INVARIANTS CommitIsExclusive NoLogPanic
PROPERTIES SleeperIsWoken RecoveryFinishes
