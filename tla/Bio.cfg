CONSTANTS
  Accesses = {p1, p2, p3}
  Blocks = {n1, n2, n3}
  Values = {0, 1}
  Zero = 0
  NoAccess = NoAccess
  NoBlock = NoBlock
  NBUF = 2
  MaxPins = 1
SPECIFICATION Spec
SYMMETRY Symmetry
INVARIANTS RefcntsBalance SleeperHasHolder PanicIsShortage
PROPERTY CacheIsStore
