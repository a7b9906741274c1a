CONSTANTS
  NPROC = 3
  MaxTicks = 2
SPECIFICATION Spec
INVARIANT ReportIsExact
