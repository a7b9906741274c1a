CONSTANTS
  c1 = c1 c2 = c2
  NPROC = 2
  CPUs = {c1, c2}
  hart0 = c1
  Free = Free
  SleepArgs = {1, 2}
  MaxTicks = 2
SPECIFICATION Spec
INVARIANT NoAcquirePanic
CHECK_DEADLOCK FALSE
