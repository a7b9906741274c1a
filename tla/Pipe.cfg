CONSTANTS
  w1 = w1 w2 = w2 r1 = r1
  Writers = {w1, w2}
  Readers = {r1}
  Bytes = {0, 1}
  PIPESIZE = 2
  UINT = 4
  Counts = {3}
  Free = Free
SPECIFICATION FairSpec
INVARIANTS SleepIsJustified FreedIsUnused
PROPERTIES PipeIsFifo CloseEndsCalls
CHECK_DEADLOCK FALSE
