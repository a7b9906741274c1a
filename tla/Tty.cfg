CONSTANTS
  Readers = {r1, r2}
  Writers = {w1, w2}
  r1 = r1 r2 = r2 w1 = w1 w2 = w2
  INPUT_BUF = 2
  UART_TX_BUF_SIZE = 2
  UINT = 4
  UINT64 = 4
  TXFIFO = 3
  MaxCount = 2
  Loads <- MCLoads
SPECIFICATION FairSpec
INVARIANTS NoOverrun SleepIsJustified
PROPERTIES InputIsLines OutputIsFifo OutputDrains
CHECK_DEADLOCK FALSE
