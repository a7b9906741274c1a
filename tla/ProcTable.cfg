CONSTANTS
  c1 = c1 c2 = c2
  NPROC = 3
  CPUs = {c1, c2}
  Free = Free
  Sched = Sched
  MaxPid = 4
SPECIFICATION Spec
SYMMETRY Symmetry
INVARIANTS OneCpuPerStack FreedIsOffCpu SchedHoldsOnlyItsLock NoSleepOnZombie ParentCanWait
