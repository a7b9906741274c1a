CONSTANTS
  c1 = c1
  NPROC = 3
  CPUs = {c1}
  Free = Free
  Sched = Sched
  MaxPid = 3
SPECIFICATION FairSpec
PROPERTY InitReaps
