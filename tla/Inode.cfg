CONSTANTS
  Procs = {p1, p2, p3}
  NoProc = NoProc
  Names = {"x", "d"}
  NINODES = 6
  Calls <- MCCalls
SPECIFICATION Spec
INVARIANTS NoPanic CopyIsCurrent LinksBalance NoCircularWait
SYMMETRY Symmetry
