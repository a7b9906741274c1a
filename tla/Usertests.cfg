CONSTANTS
  BSIZE = 4
  NDIRECT = 8
  IPB = 4
  NINODES = 20
  NBLOCKS = 40
  NINODE = 8
  MAXOPBLOCKS = 10
  NFILE = 10
  NOFILE = 7
  NDEV = 10
  PIPESIZE = 4
  NPIPES = 2
  PROGSZ = 1
  MAXARG = 4
  PGSIZE = 2
  NPTE = 4
  NPAGES = 58
  WORD = 256
  Procs = {1, 2, 3, 4, 5, 6}
  Programs <- MCPrograms
  N = 2
  Tests <- MCTests
SPECIFICATION Spec
INVARIANTS AsExpected NoPanic TransactionsFit RefsBalance LinksBalance BlocksBalance PagesBalance
