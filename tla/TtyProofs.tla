----------------------------- MODULE TtyProofs ------------------------------
(***************************************************************************)
(* The console for any number of processes, any sizes of the two buffers   *)
(* and any moduli of their indices.  The invariant says which slots of the *)
(* buffers are in use and who may write to the transmitter.                *)
(***************************************************************************)
EXTENDS Tty, SharedTheorems, TLAPS

USE ZenonT(60), SMTT(30)

Char == Stored \cup {None}
LineChar == {"a"}
TxChar == Writers \cup {None}
States == {"idle", "putc", "full", "start", "read", "wait"}

(* The indices of cons.buf never pass each other, a slot in use holds a    *)
(* character, and the line that is edited has neither newline nor ^D.      *)
ConsOK ==
  /\ cons = [r |-> cons.r, w |-> cons.w, e |-> cons.e, buf |-> cons.buf]
  /\ Buffer(UINT, INPUT_BUF, LineChar, Stored, Char, cons.r, cons.w, cons.e, cons.buf)

(* The same for uart_tx_buf, where nothing is taken back.                  *)
TxOK ==
  /\ tx = [r |-> tx.r, w |-> tx.w, buf |-> tx.buf]
  /\ Buffer(UINT64, UART_TX_BUF_SIZE, Writers, Writers, TxChar, tx.r, tx.w, tx.w, tx.buf)

LockOK ==
  /\ conslock \in Procs \cup {None, Intr} /\ txlock \in Procs \cup {None, Intr}
  /\ hand \in TxChar /\ (hand # None => txlock # None)

(* Where a process can be, and that a read() that goes on wants more.      *)
CallOK ==
  /\ pc \in [Procs -> States]
  /\ \A p \in Writers : pc[p] \in {"idle", "putc", "full", "start"}
  /\ \A p \in Readers : pc[p] \in {"idle", "read", "wait"}
  /\ left \in [Writers -> 0 .. MaxCount] /\ want \in [Readers -> 0 .. MaxCount]
  /\ dst \in [Readers -> Seq({"a", "nl"})]
  /\ \A p \in Readers : /\ Len(dst[p]) <= want[p]
                        /\ pc[p] # "idle" => Len(dst[p]) < want[p]
  /\ killed \in [Readers -> BOOLEAN]

IntrOK ==
  /\ intr \in [at : {"off", "getc", "echo", "thr", "tx", "start"}, c : Keys \cup {None},
               n : 0 .. INPUT_BUF]
  /\ intr.at = "thr" => intr.n > 0
  /\ printf \in {"idle", "put", "thr"}

DeviceOK ==
  /\ rx \in Keys \cup {None} /\ irq \in BOOLEAN
  /\ fifo \in Seq(Writers \cup {Sync})
  /\ load \in Loads

(* Who has seen an idle transmitter and is about to write to it.           *)
Pending == (IF hand = None THEN 0 ELSE 1) + (IF intr.at = "thr" THEN 1 ELSE 0)
           + (IF printf = "thr" THEN 1 ELSE 0)

(* Each of the three writes at most one character, and the characters of   *)
(* write() leave one at a time.                                            *)
FifoInv ==
  /\ Len(fifo) + Pending <= 3
  /\ \A i \in DOMAIN fifo : fifo[i] # Sync => hand = None
  /\ \A i, j \in DOMAIN fifo : fifo[i] # Sync /\ fifo[j] # Sync => i = j

(* No wakeup is lost.                                                      *)
Sleeping ==
  \A p \in Procs : /\ pc[p] = "full" => tx.w = TxPlus(tx.r, UART_TX_BUF_SIZE)
                   /\ pc[p] = "wait" => cons.r = cons.w

IInv ==
  ConsOK /\ TxOK /\ LockOK /\ CallOK /\ IntrOK /\ DeviceOK /\ FifoInv /\ Sleeping

-----------------------------------------------------------------------------
LEMMA Sizes ==
  /\ Cycle(UINT, INPUT_BUF) /\ INPUT_BUF \in Nat \ {0} /\ UINT \in Nat \ {0}
  /\ Cycle(UINT64, UART_TX_BUF_SIZE) /\ UART_TX_BUF_SIZE \in Nat \ {0} /\ UINT64 \in Nat \ {0}
  /\ MaxCount \in Nat
  BY TtyAssumption, SMTT(30) DEF Cycle, Wraps

LEMMA Contents == Nested(LineChar, Stored, Char) /\ Nested(Writers, Writers, TxChar)
  BY DEF Nested, LineChar, Stored, Char, TxChar

LEMMA Names ==
  /\ None \notin Stored /\ None \notin Writers /\ None \notin Readers /\ Sync \notin Writers
  /\ Intr \notin Procs /\ None # Intr /\ None # Sync
  /\ \A p \in Writers : p \notin Readers /\ p \in Procs
  /\ \A p \in Readers : p \notin Writers /\ p \in Procs
  BY TtyAssumption DEF None, Stored, Intr, Sync, Procs

LEMMA TypeCorrect == IInv => TypeOK
<1> SUFFICES ASSUME IInv PROVE TypeOK
  OBVIOUS
<1>1. ConsOK /\ TxOK /\ LockOK /\ CallOK /\ IntrOK /\ DeviceOK
  BY DEF IInv
<1>2. cons \in [r : 0 .. UINT - 1, w : 0 .. UINT - 1, e : 0 .. UINT - 1,
                buf : [0 .. INPUT_BUF - 1 -> Stored \cup {None}]]
  BY <1>1 DEF ConsOK, Buffer, Slots, Char
<1>3. tx \in [r : 0 .. UINT64 - 1, w : 0 .. UINT64 - 1,
              buf : [0 .. UART_TX_BUF_SIZE - 1 -> Writers \cup {None}]]
  BY <1>1 DEF TxOK, Buffer, Slots, TxChar
<1>4. /\ conslock \in Procs \cup {None, Intr} /\ txlock \in Procs \cup {None, Intr}
      /\ hand \in Writers \cup {None} /\ (hand # None => txlock # None)
  BY <1>1 DEF LockOK, TxChar
<1>5. /\ pc \in [Procs -> {"idle", "putc", "full", "start", "read", "wait"}]
      /\ left \in [Writers -> 0 .. MaxCount] /\ want \in [Readers -> 0 .. MaxCount]
      /\ \A p \in Readers : dst[p] \in Seq({"a", "nl"}) /\ Len(dst[p]) <= want[p]
      /\ killed \in [Readers -> BOOLEAN]
  BY <1>1 DEF CallOK, States
<1>6. QED
  BY <1>1, <1>2, <1>3, <1>4, <1>5 DEF TypeOK, IntrOK, DeviceOK

LEMMA InitInv == Init => IInv
<1> SUFFICES ASSUME Init PROVE IInv
  OBVIOUS
<1>1. /\ 0 \in 0 .. UINT - 1 /\ 0 \in 0 .. UINT64 - 1 /\ 0 \in 0 .. MaxCount
      /\ 0 \in 0 .. INPUT_BUF
  BY Sizes, SMTT(30)
<1>2. Distance(0, 0, UINT) = 0 /\ Distance(0, 0, UINT64) = 0
  BY Sizes, SMTT(30) DEF Distance
<1>3. ConsOK
  <2>1. cons.r = 0 /\ cons.w = 0 /\ cons.e = 0 /\ cons.buf \in Slots(INPUT_BUF, Char)
        /\ cons = [r |-> 0, w |-> 0, e |-> 0, buf |-> cons.buf]
    BY DEF Init, Slots, Char
  <2>2. Good(UINT, INPUT_BUF, LineChar, Stored, 0, 0, 0, cons.buf)
    BY <1>2, Sizes, SMTT(30) DEF Good
  <2>3. Buffer(UINT, INPUT_BUF, LineChar, Stored, Char, 0, 0, 0, cons.buf)
    BY <1>1, <2>1, <2>2, Sizes, Contents DEF Buffer
  <2>4. QED
    BY <2>1, <2>3 DEF ConsOK
<1>4. TxOK
  <2>1. tx.r = 0 /\ tx.w = 0 /\ tx.buf \in Slots(UART_TX_BUF_SIZE, TxChar)
        /\ tx = [r |-> 0, w |-> 0, buf |-> tx.buf]
    BY DEF Init, Slots, TxChar
  <2>2. Good(UINT64, UART_TX_BUF_SIZE, Writers, Writers, 0, 0, 0, tx.buf)
    BY <1>2, Sizes, SMTT(30) DEF Good
  <2>3. Buffer(UINT64, UART_TX_BUF_SIZE, Writers, Writers, TxChar, 0, 0, 0, tx.buf)
    BY <1>1, <2>1, <2>2, Sizes, Contents DEF Buffer
  <2>4. QED
    BY <2>1, <2>3 DEF TxOK
<1>5. LockOK /\ IntrOK
  BY <1>1 DEF Init, LockOK, IntrOK, TxChar
<1>6. CallOK
  BY <1>1, Names, SMTT(30) DEF Init, CallOK, States
<1>7. DeviceOK /\ FifoInv
  <2>1. fifo = <<>> /\ hand = None /\ intr.at = "off" /\ printf = "idle"
    BY DEF Init
  <2>2. Pending = 0
    BY <2>1, SMTT(30) DEF Pending
  <2>3. Len(fifo) + Pending <= 3 /\ DOMAIN fifo = {}
    BY <2>1, <2>2, SMTT(30)
  <2>4. FifoInv
    BY <2>3 DEF FifoInv
  <2>5. rx = None /\ irq = FALSE /\ load \in Loads /\ fifo \in Seq(Writers \cup {Sync})
    BY SMTT(30) DEF Init
  <2>6. QED
    BY <2>4, <2>5 DEF DeviceOK
<1>8. Sleeping
  BY DEF Init, Sleeping
<1>9. QED
  BY <1>3, <1>4, <1>5, <1>6, <1>7, <1>8 DEF IInv

-----------------------------------------------------------------------------
(* What a step leaves alone keeps its part of the invariant.               *)
LEMMA Frame ==
  ASSUME IInv
  PROVE  /\ cons' = cons => ConsOK'
         /\ tx' = tx => TxOK'
         /\ UNCHANGED <<locks, hand>> => LockOK'
         /\ procs' = procs => CallOK'
         /\ UNCHANGED <<intr, printf>> => IntrOK'
         /\ UNCHANGED <<device, load>> => DeviceOK'
<1>1. ConsOK /\ TxOK /\ LockOK /\ CallOK /\ IntrOK /\ DeviceOK
  BY DEF IInv
<1>2. cons' = cons => ConsOK'
  BY <1>1 DEF ConsOK
<1>3. tx' = tx => TxOK'
  BY <1>1 DEF TxOK
<1>4. UNCHANGED <<locks, hand>> => LockOK'
  BY <1>1 DEF LockOK, locks
<1>5. procs' = procs => CallOK'
  BY <1>1 DEF CallOK, procs
<1>6. UNCHANGED <<intr, printf>> => IntrOK'
  BY <1>1 DEF IntrOK
<1>7. UNCHANGED <<device, load>> => DeviceOK'
  BY <1>1 DEF DeviceOK, device
<1>8. QED
  BY <1>2, <1>3, <1>4, <1>5, <1>6, <1>7

LEMMA FifoFrame ==
  ASSUME IInv, UNCHANGED <<fifo, hand, printf>>, intr'.at = "thr" => intr.at = "thr"
  PROVE  FifoInv'
<1>1. FifoInv
  BY DEF IInv
<1>2. Pending \in Nat /\ Pending' \in Nat /\ Pending' <= Pending
  BY SMTT(30) DEF Pending
<1>3. Len(fifo) \in Nat
  BY SMTT(30) DEF IInv, DeviceOK
<1>4. Len(fifo') + Pending' <= 3
  BY <1>1, <1>2, <1>3, SMTT(30) DEF FifoInv
<1>5. QED
  BY <1>1, <1>4 DEF FifoInv

LEMMA SleepFrame ==
  ASSUME IInv, UNCHANGED <<cons, tx>>,
         \A p \in Procs : (pc'[p] = "full" => pc[p] = "full") /\ (pc'[p] = "wait" => pc[p] = "wait")
  PROVE  Sleeping'
  BY DEF IInv, Sleeping

(* Steps that change only the state of processes, and let nobody sleep.    *)
LEMMA CallFrame ==
  ASSUME IInv, UNCHANGED <<cons, tx, hand, intr, printf, locks, device, load>>, CallOK',
         \A p \in Procs : (pc'[p] = "full" => pc[p] = "full") /\ (pc'[p] = "wait" => pc[p] = "wait")
  PROVE  IInv'
<1>1. FifoInv'
  BY FifoFrame DEF device
<1>2. Sleeping'
  BY SleepFrame
<1>3. QED
  BY <1>1, <1>2, Frame DEF IInv

LEMMA WriteInv ==
  ASSUME IInv, NEW p \in Writers, NEW n \in 1 .. MaxCount, load' = load, consolewrite(p, n)
  PROVE  IInv'
<1>1. /\ UNCHANGED <<cons, tx, hand, intr, printf, want, dst, killed, locks, device>>
      /\ pc' = [pc EXCEPT ![p] = "putc"] /\ left' = [left EXCEPT ![p] = n]
  BY DEF consolewrite
<1>2. CallOK
  BY DEF IInv
<1>3. /\ pc' \in [Procs -> States]
      /\ \A q \in Procs : pc'[q] = pc[q] \/ (q = p /\ pc'[q] = "putc")
  BY <1>1, <1>2 DEF CallOK, States
<1>4. left' \in [Writers -> 0 .. MaxCount]
  BY <1>1, <1>2, Sizes, SMTT(30) DEF CallOK
<1>5. CallOK'
  BY <1>1, <1>2, <1>3, <1>4, Names, SMTT(30) DEF CallOK
<1>6. QED
  BY <1>1, <1>3, <1>5, CallFrame

LEMMA ReadInv ==
  ASSUME IInv, NEW p \in Readers, NEW n \in 1 .. MaxCount, load' = load, consoleread(p, n)
  PROVE  IInv'
<1>1. /\ UNCHANGED <<cons, tx, hand, intr, printf, left, killed, locks, device>>
      /\ pc' = [pc EXCEPT ![p] = "read"]
      /\ want' = [want EXCEPT ![p] = n] /\ dst' = [dst EXCEPT ![p] = <<>>]
  BY DEF consoleread
<1>2. CallOK
  BY DEF IInv
<1>3. /\ pc' \in [Procs -> States]
      /\ \A q \in Procs : pc'[q] = pc[q] \/ (q = p /\ pc'[q] = "read")
  BY <1>1, <1>2 DEF CallOK, States
<1>4. /\ want' \in [Readers -> 0 .. MaxCount] /\ dst' \in [Readers -> Seq({"a", "nl"})]
      /\ want'[p] = n /\ dst'[p] = <<>>
      /\ \A q \in Readers : q # p => want'[q] = want[q] /\ dst'[q] = dst[q] /\ pc'[q] = pc[q]
  BY <1>1, <1>2, Sizes, Names, SMTT(30) DEF CallOK
<1>5. \A q \in Readers : /\ Len(dst'[q]) <= want'[q]
                         /\ pc'[q] # "idle" => Len(dst'[q]) < want'[q]
  <2>1. \A q \in Readers : /\ Len(dst[q]) <= want[q]
                           /\ pc[q] # "idle" => Len(dst[q]) < want[q]
    BY <1>2 DEF CallOK
  <2>2. Len(dst'[p]) <= want'[p] /\ Len(dst'[p]) < want'[p]
    BY <1>4, SMTT(30)
  <2>3. QED
    BY <1>4, <2>1, <2>2
<1>6. CallOK'
  BY <1>1, <1>2, <1>3, <1>4, <1>5, Names, SMTT(30) DEF CallOK
<1>7. QED
  BY <1>1, <1>3, <1>6, CallFrame

LEMMA KillInv ==
  ASSUME IInv, NEW p \in Procs, load' = load, kill(p)
  PROVE  IInv'
<1>1. UNCHANGED <<cons, tx, hand, intr, printf, left, want, dst, locks, device>>
  BY DEF kill
<1>2. CallOK
  BY DEF IInv
<1>3. killed' \in [Readers -> BOOLEAN]
  BY <1>2 DEF kill, CallOK
<1>4. /\ pc' \in [Procs -> States]
      /\ \A q \in Procs : \/ pc'[q] = pc[q]
                          \/ pc[q] = "wait" /\ pc'[q] = "read"
                          \/ pc[q] = "full" /\ pc'[q] = "putc"
  BY <1>2 DEF kill, CallOK, States
<1>5. CallOK'
  BY <1>1, <1>2, <1>3, <1>4, Names DEF CallOK
<1>6. QED
  BY <1>1, <1>4, <1>5, CallFrame

-----------------------------------------------------------------------------
(* uartputc() and uartstart().                                             *)
Queue == Part(UINT64, UART_TX_BUF_SIZE, tx.r, tx.w, tx.buf)

LEMMA TxParts ==
  ASSUME IInv
  PROVE  /\ tx = [r |-> tx.r, w |-> tx.w, buf |-> tx.buf]
         /\ Buffer(UINT64, UART_TX_BUF_SIZE, Writers, Writers, TxChar, tx.r, tx.w, tx.w, tx.buf)
         /\ tx.r \in 0 .. UINT64 - 1 /\ tx.w \in 0 .. UINT64 - 1
         /\ tx.buf \in Slots(UART_TX_BUF_SIZE, TxChar)
         /\ tx.r % UART_TX_BUF_SIZE \in 0 .. UART_TX_BUF_SIZE - 1
         /\ tx.w % UART_TX_BUF_SIZE \in 0 .. UART_TX_BUF_SIZE - 1
<1>1. /\ tx = [r |-> tx.r, w |-> tx.w, buf |-> tx.buf]
      /\ Buffer(UINT64, UART_TX_BUF_SIZE, Writers, Writers, TxChar, tx.r, tx.w, tx.w, tx.buf)
  BY DEF IInv, TxOK
<1>2. /\ tx.r \in 0 .. UINT64 - 1 /\ tx.w \in 0 .. UINT64 - 1
      /\ tx.buf \in Slots(UART_TX_BUF_SIZE, TxChar)
  BY <1>1 DEF Buffer
<1>3. tx.r \in Int /\ tx.w \in Int /\ UART_TX_BUF_SIZE \in Nat \ {0}
  BY <1>2, Sizes, SMTT(30)
<1>4. QED
  BY <1>1, <1>2, <1>3, Quotient

(* The next contents of tx, field by field.                                *)
LEMMA TxFrom ==
  ASSUME NEW r, NEW w, NEW f, tx' = [r |-> r, w |-> w, buf |-> f]
  PROVE  /\ Queue' = Part(UINT64, UART_TX_BUF_SIZE, r, w, f)
         /\ Buffer(UINT64, UART_TX_BUF_SIZE, Writers, Writers, TxChar, r, w, w, f) => TxOK'
<1>1. tx'.r = r /\ tx'.w = w /\ tx'.buf = f
  OBVIOUS
<1>2. QED
  BY <1>1 DEF Queue, TxOK

LEMMA PutcStep ==
  ASSUME IInv, NEW p \in Writers, uartputc(p), ~TxFull
  PROVE  TxOK' /\ Queue' = Append(Queue, p) /\ Len(Queue) < UART_TX_BUF_SIZE
<1> DEFINE s == tx.w % UART_TX_BUF_SIZE
           f == [tx.buf EXCEPT ![s] = p]
           v == (tx.w + 1) % UINT64
<1>1. /\ s \in 0 .. UART_TX_BUF_SIZE - 1 /\ tx.buf \in Slots(UART_TX_BUF_SIZE, TxChar)
      /\ Buffer(UINT64, UART_TX_BUF_SIZE, Writers, Writers, TxChar, tx.r, tx.w, tx.w, tx.buf)
  BY TxParts
<1>2. tx' = [r |-> tx.r, w |-> v, buf |-> f] /\ tx.w # (tx.r + UART_TX_BUF_SIZE) % UINT64
  BY TxParts DEF uartputc, TxFull, TxPlus
<1> HIDE DEF s
<1>3. /\ f \in Slots(UART_TX_BUF_SIZE, TxChar) /\ f[s] = p
      /\ OnlyAt(s, f, tx.buf, UART_TX_BUF_SIZE)
  BY <1>1 DEF Slots, TxChar, OnlyAt
<1> HIDE DEF f
<1>4. v = (tx.w + 1) % UINT64
  OBVIOUS
<1> HIDE DEF v
<1>5. /\ Buffer(UINT64, UART_TX_BUF_SIZE, Writers, Writers, TxChar, tx.r, v, v, f)
      /\ Part(UINT64, UART_TX_BUF_SIZE, tx.r, v, f) = Append(Queue, p)
      /\ Len(Queue) < UART_TX_BUF_SIZE
  <2>1. Queues(UINT64, UART_TX_BUF_SIZE, Writers, TxChar, tx.r, tx.w, tx.buf, f, v, p)
    BY <1>1, <1>2, <1>3, <1>4 DEF s, Queues
  <2>2. QED
    BY <2>1, BufferQueue DEF Queue
<1>6. QED
  BY <1>2, <1>5, TxFrom

LEMMA PutcInv ==
  ASSUME IInv, NEW p \in Writers, load' = load, uartputc(p)
  PROVE  IInv'
<1>1. /\ UNCHANGED <<cons, hand, intr, printf, left, want, dst, killed, conslock, device>>
      /\ pc[p] = "putc" /\ txlock = None
  BY DEF uartputc
<1>2. CallOK /\ LockOK /\ Sleeping
  BY DEF IInv
<1>3. FifoInv' /\ ConsOK' /\ IntrOK' /\ DeviceOK'
  BY <1>1, FifoFrame, Frame DEF device
<1>4. CASE TxFull
  <2>1. pc' = [pc EXCEPT ![p] = "full"] /\ UNCHANGED <<tx, txlock>>
    BY <1>4 DEF uartputc
  <2>2. /\ pc' \in [Procs -> States] /\ pc'[p] = "full"
        /\ \A q \in Procs : q # p => pc'[q] = pc[q]
    BY <1>2, <2>1, Names DEF CallOK, States
  <2>3. CallOK'
    BY <1>1, <1>2, <2>2, Names DEF CallOK
  <2>4. Sleeping'
    BY <1>1, <1>2, <1>4, <2>1, <2>2 DEF Sleeping, TxFull
  <2>5. QED
    BY <1>1, <1>3, <2>1, <2>3, <2>4, Frame DEF IInv, locks
<1>5. CASE ~TxFull
  <2>1. txlock' = p /\ pc' = [pc EXCEPT ![p] = "start"]
    BY <1>5 DEF uartputc
  <2>2. TxOK'
    BY <1>5, PutcStep
  <2>3. /\ pc' \in [Procs -> States] /\ pc'[p] = "start"
        /\ \A q \in Procs : q # p => pc'[q] = pc[q]
    BY <1>2, <2>1, Names DEF CallOK, States
  <2>4. CallOK'
    BY <1>1, <1>2, <2>3, Names DEF CallOK
  <2>5. LockOK'
    BY <1>1, <1>2, <2>1, Names DEF LockOK
  <2>6. Sleeping'
    <3>1. \A q \in Procs : pc[q] # "full"
      BY <1>2, <1>5 DEF Sleeping, TxFull
    <3>2. QED
      BY <1>1, <1>2, <2>3, <3>1 DEF Sleeping
  <2>7. QED
    BY <1>3, <2>2, <2>4, <2>5, <2>6 DEF IInv
<1>6. QED
  BY <1>4, <1>5

LEMMA TakeStep ==
  ASSUME IInv, NEW t, uartstart_take(t)
  PROVE  /\ TxOK' /\ hand' \in Writers
         /\ Queue # <<>> /\ hand' = Head(Queue) /\ Queue' = Tail(Queue)
<1> DEFINE s == tx.r % UART_TX_BUF_SIZE
           f == [tx.buf EXCEPT ![s] = None]
           v == (tx.r + 1) % UINT64
<1>1. /\ s \in 0 .. UART_TX_BUF_SIZE - 1 /\ tx.buf \in Slots(UART_TX_BUF_SIZE, TxChar)
      /\ Buffer(UINT64, UART_TX_BUF_SIZE, Writers, Writers, TxChar, tx.r, tx.w, tx.w, tx.buf)
  BY TxParts
<1>2. tx' = [r |-> v, w |-> tx.w, buf |-> f] /\ tx.r # tx.w /\ hand' = tx.buf[s]
  BY TxParts DEF uartstart_take, TxPlus
<1> HIDE DEF s
<1>3. /\ f \in Slots(UART_TX_BUF_SIZE, TxChar)
      /\ OnlyAt(s, f, tx.buf, UART_TX_BUF_SIZE)
  BY <1>1 DEF Slots, TxChar, OnlyAt
<1> HIDE DEF f
<1>4. v = (tx.r + 1) % UINT64
  OBVIOUS
<1> HIDE DEF v
<1>5. /\ Buffer(UINT64, UART_TX_BUF_SIZE, Writers, Writers, TxChar, v, tx.w, tx.w, f)
      /\ tx.buf[s] \in Writers
      /\ Queue # <<>> /\ Head(Queue) = tx.buf[s]
      /\ Part(UINT64, UART_TX_BUF_SIZE, v, tx.w, f) = Tail(Queue)
  <2>1. Takes(UINT64, UART_TX_BUF_SIZE, Writers, Writers, TxChar, tx.r, tx.w, tx.w, tx.buf, f, v)
    BY <1>1, <1>2, <1>3, <1>4 DEF s, Takes
  <2> DEFINE P == Part(UINT64, UART_TX_BUF_SIZE, tx.r, tx.w, tx.buf)
  <2>2. /\ Buffer(UINT64, UART_TX_BUF_SIZE, Writers, Writers, TxChar, v, tx.w, tx.w, f)
        /\ P # <<>> /\ Head(P) = tx.buf[tx.r % UART_TX_BUF_SIZE]
        /\ tx.buf[tx.r % UART_TX_BUF_SIZE] \in Writers
        /\ Part(UINT64, UART_TX_BUF_SIZE, v, tx.w, f) = Tail(P)
    BY <2>1, BufferTake, SMTT(30)
  <2>3. QED
    BY <2>2 DEF s, Queue
<1>6. QED
  BY <1>2, <1>5, TxFrom

(* Nothing has been sent when the transmitter is seen idle.                *)
LEMMA SyncIdle ==
  ASSUME fifo' = <<>>
  PROVE  FifoInv'
  BY SMTT(30) DEF FifoInv, Pending

LEMMA TakeInv ==
  ASSUME IInv, NEW t \in Writers \cup {Intr}, load' = load, uartstart_take(t)
  PROVE  IInv'
<1>1. /\ UNCHANGED <<cons, intr, printf, left, want, dst, killed, locks, device>>
      /\ txlock = t /\ hand = None /\ fifo = <<>> /\ pc' = Wake("full", "putc")
  BY DEF uartstart_take, TxIdle
<1>2. CallOK /\ LockOK /\ Sleeping /\ IntrOK
  BY DEF IInv
<1>3. /\ pc' \in [Procs -> States]
      /\ \A q \in Procs : pc'[q] = IF pc[q] = "full" THEN "putc" ELSE pc[q]
  BY <1>1, <1>2 DEF Wake, CallOK, States
<1>4. TxOK' /\ hand' \in Writers
  BY TakeStep
<1>5. ConsOK' /\ IntrOK' /\ DeviceOK'
  BY <1>1, Frame
<1>6. LockOK'
  BY <1>1, <1>2, <1>4, Names DEF LockOK, TxChar, locks
<1>7. CallOK'
  BY <1>1, <1>2, <1>3, Names DEF CallOK
<1>8. Sleeping'
  BY <1>1, <1>2, <1>3 DEF Sleeping
<1>9. FifoInv'
  BY <1>1, SyncIdle DEF device
<1>10. QED
  BY <1>4, <1>5, <1>6, <1>7, <1>8, <1>9 DEF IInv

(* A character is added to the transmitter.                                *)
LEMMA Added ==
  ASSUME IInv, NEW c \in Writers \cup {Sync}, fifo' = Append(fifo, c), rx' = rx, irq' = irq, load' = load
  PROVE  /\ DeviceOK' /\ Len(fifo') = Len(fifo) + 1
         /\ DOMAIN fifo = 1 .. Len(fifo) /\ DOMAIN fifo' = 1 .. Len(fifo) + 1 /\ Len(fifo) \in Nat
         /\ \A i \in DOMAIN fifo : fifo'[i] = fifo[i]
         /\ fifo'[Len(fifo) + 1] = c
<1>1. DeviceOK
  BY DEF IInv
<1>2. fifo \in Seq(Writers \cup {Sync})
  BY <1>1 DEF DeviceOK
<1>3. /\ fifo' \in Seq(Writers \cup {Sync}) /\ Len(fifo') = Len(fifo) + 1
      /\ DOMAIN fifo = 1 .. Len(fifo) /\ DOMAIN fifo' = 1 .. Len(fifo) + 1 /\ Len(fifo) \in Nat
      /\ \A i \in DOMAIN fifo : fifo'[i] = fifo[i]
      /\ fifo'[Len(fifo) + 1] = c
  BY <1>2, SMTT(30)
<1>4. DeviceOK'
  BY <1>1, <1>3 DEF DeviceOK
<1>5. QED
  BY <1>3, <1>4

(* Steps that change only the transmitter and who writes to it.            *)
LEMMA SendFrame ==
  ASSUME IInv, UNCHANGED <<cons, tx, procs>>, LockOK', IntrOK', DeviceOK', FifoInv'
  PROVE  IInv'
<1>1. ConsOK' /\ TxOK' /\ CallOK'
  BY Frame
<1>2. Sleeping'
  BY SleepFrame DEF procs
<1>3. QED
  BY <1>1, <1>2 DEF IInv

LEMMA ThrInv ==
  ASSUME IInv, NEW t \in Writers \cup {Intr}, load' = load, uartstart_thr(t)
  PROVE  IInv'
<1>1. /\ UNCHANGED <<cons, tx, intr, printf, procs, locks, rx, irq>>
      /\ hand # None /\ fifo' = Append(fifo, hand) /\ hand' = None
  BY DEF uartstart_thr
<1>2. LockOK /\ FifoInv /\ hand \in Writers
  BY <1>1 DEF IInv, LockOK, TxChar
<1>3. /\ DeviceOK' /\ Len(fifo') = Len(fifo) + 1 /\ Len(fifo) \in Nat
      /\ DOMAIN fifo = 1 .. Len(fifo) /\ DOMAIN fifo' = 1 .. Len(fifo) + 1
      /\ \A i \in DOMAIN fifo : fifo'[i] = fifo[i]
  BY <1>1, <1>2, Added
<1>4. LockOK'
  BY <1>1, <1>2 DEF LockOK, locks, TxChar
<1>5. FifoInv'
  <2>1. \A i \in DOMAIN fifo : fifo'[i] = Sync
    BY <1>1, <1>2, <1>3 DEF FifoInv
  <2>2. \A i, j \in DOMAIN fifo' : fifo'[i] # Sync /\ fifo'[j] # Sync => i = j
    BY <1>3, <2>1, SMTT(30)
  <2>3. Pending \in Nat /\ Pending' \in Nat /\ Pending = Pending' + 1
    BY <1>1, SMTT(30) DEF Pending
  <2>4. Len(fifo) + Pending <= 3
    BY <1>2 DEF FifoInv
  <2>5. Len(fifo') + Pending' <= 3
    BY <1>3, <2>3, <2>4, SMTT(30)
  <2>6. QED
    BY <1>1, <2>2, <2>5 DEF FifoInv
<1>6. QED
  BY <1>1, <1>3, <1>4, <1>5, SendFrame, Frame

LEMMA PutcDoneInv ==
  ASSUME IInv, NEW p \in Writers, load' = load, uartputc_done(p)
  PROVE  IInv'
<1>1. /\ UNCHANGED <<cons, tx, hand, intr, printf, want, dst, killed, conslock, device>>
      /\ hand = None /\ txlock' = None
  BY DEF uartputc_done, uartstart_done
<1>2. CallOK /\ LockOK
  BY DEF IInv
<1>3. left' \in [Writers -> 0 .. MaxCount]
  <2>1. left \in [Writers -> 0 .. MaxCount] /\ left[p] \in 0 .. MaxCount /\ MaxCount \in Nat
    BY <1>2, Sizes DEF CallOK
  <2>2. left[p] > 1 => left[p] - 1 \in 0 .. MaxCount
    BY <2>1, SMTT(30)
  <2>3. CASE left[p] > 1 /\ left' = [left EXCEPT ![p] = @ - 1]
    BY <2>1, <2>2, <2>3
  <2>4. CASE left' = [left EXCEPT ![p] = 0]
    BY <2>1, <2>4, SMTT(30)
  <2>5. QED
    BY <2>3, <2>4 DEF uartputc_done
<1>4. /\ pc' \in [Procs -> States]
      /\ \A q \in Procs : pc'[q] = pc[q] \/ (q = p /\ pc'[q] \in {"putc", "idle"})
  <2>1. pc \in [Procs -> States] /\ p \in Procs
    BY <1>2, Names DEF CallOK
  <2>2. PICK s \in {"putc", "idle"} : pc' = [pc EXCEPT ![p] = s]
    BY DEF uartputc_done
  <2>3. QED
    BY <2>1, <2>2 DEF States
<1>5. CallOK'
  BY <1>1, <1>2, <1>3, <1>4, Names DEF CallOK
<1>6. LockOK'
  BY <1>1, <1>2 DEF LockOK
<1>7. FifoInv' /\ ConsOK' /\ TxOK' /\ IntrOK' /\ DeviceOK'
  BY <1>1, FifoFrame, Frame DEF device
<1>8. Sleeping'
  BY <1>1, <1>4, SleepFrame
<1>9. QED
  BY <1>5, <1>6, <1>7, <1>8 DEF IInv

-----------------------------------------------------------------------------
(* printf(), the echoes of the handler, and the UART.                      *)
LEMMA SyncAdded ==
  ASSUME IInv, fifo' = Append(fifo, Sync), UNCHANGED <<hand, rx, irq, load>>,
         Pending = Pending' + 1
  PROVE  DeviceOK' /\ FifoInv'
<1>1. FifoInv
  BY DEF IInv
<1>2. /\ DeviceOK' /\ Len(fifo') = Len(fifo) + 1 /\ Len(fifo) \in Nat
      /\ DOMAIN fifo = 1 .. Len(fifo) /\ DOMAIN fifo' = 1 .. Len(fifo) + 1
      /\ \A i \in DOMAIN fifo : fifo'[i] = fifo[i]
      /\ fifo'[Len(fifo) + 1] = Sync
  BY Added
<1>3. \A i \in DOMAIN fifo' : fifo'[i] # Sync => i \in DOMAIN fifo /\ fifo[i] # Sync
  BY <1>2, SMTT(30)
<1>4. Len(fifo') + Pending' <= 3
  <2>1. Len(fifo) + Pending <= 3
    BY <1>1 DEF FifoInv
  <2>2. Pending \in Nat /\ Pending' \in Nat
    BY SMTT(30) DEF Pending
  <2>3. Len(fifo) + 1 + Pending' <= 3
    BY <1>2, <2>1, <2>2, SMTT(30)
  <2>4. QED
    BY <1>2, <2>3
<1>5. QED
  BY <1>1, <1>2, <1>3, <1>4 DEF FifoInv

LEMMA PrintfInv ==
  ASSUME IInv, load' = load, printf_char
  PROVE  IInv'
<1>1. UNCHANGED <<cons, tx, hand, intr, procs, locks, rx, irq>>
  BY DEF printf_char
<1>2. DeviceOK' /\ FifoInv' /\ printf' \in {"idle", "put", "thr"}
  <2>1. CASE printf = "idle" /\ printf' = "put" /\ UNCHANGED fifo
    <3>1. Pending \in Nat /\ Pending' \in Nat /\ Pending' = Pending
      BY <1>1, <2>1, SMTT(30) DEF Pending
    <3>2. FifoInv'
      BY <1>1, <2>1, <3>1 DEF IInv, FifoInv
    <3>3. QED
      BY <1>1, <2>1, <3>2, Frame DEF device
  <2>2. CASE printf = "put" /\ fifo = <<>> /\ printf' = "thr" /\ UNCHANGED fifo
    BY <1>1, <2>2, SyncIdle, Frame DEF device
  <2>3. CASE printf = "thr" /\ fifo' = Append(fifo, Sync) /\ printf' = "idle"
    <3>1. Pending = Pending' + 1
      BY <1>1, <2>3, SMTT(30) DEF Pending
    <3>2. QED
      BY <1>1, <2>3, <3>1, SyncAdded
  <2>4. QED
    BY <2>1, <2>2, <2>3 DEF printf_char
<1>3. IntrOK'
  BY <1>1, <1>2 DEF IInv, IntrOK
<1>4. QED
  BY <1>1, <1>2, <1>3, SendFrame, Frame

LEMMA SendInv ==
  ASSUME IInv, load' = load, send
  PROVE  IInv'
<1>1. /\ UNCHANGED <<cons, tx, hand, intr, printf, procs, locks, rx>>
      /\ fifo # <<>> /\ fifo' = Tail(fifo)
  BY DEF send
<1>2. DeviceOK /\ FifoInv /\ fifo \in Seq(Writers \cup {Sync})
  BY DEF IInv, DeviceOK
<1>3. /\ fifo' \in Seq(Writers \cup {Sync}) /\ Len(fifo') = Len(fifo) - 1 /\ Len(fifo) \in Nat
      /\ DOMAIN fifo = 1 .. Len(fifo) /\ DOMAIN fifo' = 1 .. Len(fifo) - 1
      /\ \A i \in 1 .. Len(fifo) - 1 : fifo'[i] = fifo[i + 1]
  BY <1>1, <1>2, SMTT(30)
<1>4. DeviceOK'
  <2>1. irq' \in BOOLEAN
    BY <1>2 DEF send, DeviceOK
  <2>2. QED
    BY <1>1, <1>2, <1>3, <2>1 DEF DeviceOK
<1>5. FifoInv'
  <2>1. \A i \in DOMAIN fifo' : i + 1 \in DOMAIN fifo /\ fifo'[i] = fifo[i + 1] /\ i \in Int
    BY <1>3, SMTT(30)
  <2>2. Len(fifo') + Pending' <= 3
    <3>1. Pending \in Nat /\ Pending' = Pending
      BY <1>1, SMTT(30) DEF Pending
    <3>2. Len(fifo) + Pending <= 3
      BY <1>2 DEF FifoInv
    <3>3. QED
      BY <1>3, <3>1, <3>2, SMTT(30)
  <2>3. \A i \in DOMAIN fifo' : fifo'[i] # Sync => hand' = None
    BY <1>1, <1>2, <2>1 DEF FifoInv
  <2>4. ASSUME NEW i \in DOMAIN fifo', NEW j \in DOMAIN fifo', fifo'[i] # Sync, fifo'[j] # Sync
        PROVE  i = j
    <3>1. i + 1 = j + 1
      BY <1>2, <2>1, <2>4 DEF FifoInv
    <3>2. QED
      BY <2>1, <3>1, SMTT(30)
  <2>5. QED
    BY <2>2, <2>3, <2>4 DEF FifoInv
<1>6. QED
  BY <1>1, <1>4, <1>5, SendFrame, Frame

LEMMA ReceiveInv ==
  ASSUME IInv, NEW c \in Keys, load' = load, receive(c)
  PROVE  IInv'
<1>1. /\ UNCHANGED <<cons, tx, hand, intr, printf, procs, locks, fifo>>
      /\ rx' = c /\ irq' = TRUE
  BY DEF receive
<1>2. DeviceOK'
  BY <1>1 DEF IInv, DeviceOK
<1>3. FifoInv'
  BY <1>1, FifoFrame
<1>4. QED
  BY <1>1, <1>2, <1>3, SendFrame, Frame

LEMMA EchoInv ==
  ASSUME IInv, load' = load, echo_idle \/ echo_thr
  PROVE  IInv'
<1>1. UNCHANGED <<cons, tx, hand, printf, procs, locks, rx, irq>>
  BY DEF echo_idle, echo_thr, device
<1>2. IntrOK
  BY DEF IInv
<1>3. CASE echo_idle
  <2>1. intr.n > 0 /\ fifo' = <<>> /\ intr' = [intr EXCEPT !.at = "thr"] /\ fifo' = fifo
    BY <1>3 DEF echo_idle, device
  <2>2. IntrOK'
    BY <1>1, <1>2, <2>1 DEF IntrOK
  <2>3. FifoInv' /\ DeviceOK'
    BY <1>1, <2>1, SyncIdle, Frame DEF device
  <2>4. QED
    BY <1>1, <2>2, <2>3, SendFrame, Frame
<1>4. CASE echo_thr
  <2>1. /\ intr.at = "thr" /\ fifo' = Append(fifo, Sync)
        /\ intr' = [intr EXCEPT !.at = "echo", !.n = @ - 1]
    BY <1>4 DEF echo_thr
  <2>2. intr'.at = "echo" /\ intr.n \in 0 .. INPUT_BUF /\ intr.n > 0
    BY <1>2, <2>1 DEF IntrOK
  <2>3. intr.n - 1 \in 0 .. INPUT_BUF
    BY <2>2, Sizes, SMTT(30)
  <2>4. IntrOK'
    BY <1>1, <1>2, <2>1, <2>2, <2>3 DEF IntrOK
  <2>5. Pending = Pending' + 1
    BY <1>1, <2>1, <2>2, SMTT(30) DEF Pending
  <2>6. FifoInv' /\ DeviceOK'
    BY <1>1, <2>1, <2>5, SyncAdded
  <2>7. QED
    BY <1>1, <2>4, <2>6, SendFrame, Frame
<1>5. QED
  BY <1>3, <1>4

(* The handler's steps that touch neither the buffers nor the transmitter. *)
LEMMA HandlerFrame ==
  ASSUME IInv, UNCHANGED <<cons, tx, hand, printf, procs, fifo>>, IntrOK', LockOK', DeviceOK',
         intr'.at # "thr"
  PROVE  IInv'
<1>1. FifoInv'
  BY FifoFrame
<1>2. QED
  BY <1>1, SendFrame

LEMMA HandlerInv ==
  ASSUME IInv, load' = load, uartintr \/ uartintr_send \/ uartintr_done
  PROVE  IInv'
<1>1. UNCHANGED <<cons, tx, hand, printf, procs, conslock, rx, fifo>>
  BY DEF uartintr, uartintr_send, uartintr_done, locks, device
<1>2. IntrOK /\ LockOK /\ DeviceOK
  BY DEF IInv
<1>3. PICK a \in {"getc", "start", "off"} : intr' = [intr EXCEPT !.at = a]
  BY DEF uartintr, uartintr_send, uartintr_done, IntrSends
<1>4. IntrOK' /\ intr'.at # "thr"
  BY <1>1, <1>2, <1>3 DEF IntrOK
<1>5. DeviceOK'
  BY <1>1, <1>2 DEF DeviceOK, uartintr, uartintr_send, uartintr_done, device
<1>6. LockOK'
  <2>1. txlock' \in {txlock, Intr, None} /\ (txlock' = None => txlock = None \/ hand = None)
    BY DEF uartintr, uartintr_send, uartintr_done, uartstart_done, locks
  <2>2. QED
    BY <1>1, <1>2, <2>1, Names DEF LockOK
<1>7. QED
  BY <1>1, <1>4, <1>5, <1>6, HandlerFrame

-----------------------------------------------------------------------------
(* cons.buf: what can be read, and the line that is edited.                *)
Readable == Part(UINT, INPUT_BUF, cons.r, cons.w, cons.buf)
Editing == Part(UINT, INPUT_BUF, cons.w, cons.e, cons.buf)

ConsBuffer(r, w, e, f) == Buffer(UINT, INPUT_BUF, LineChar, Stored, Char, r, w, e, f)

LEMMA ConsParts ==
  ASSUME IInv
  PROVE  /\ cons = [r |-> cons.r, w |-> cons.w, e |-> cons.e, buf |-> cons.buf]
         /\ ConsBuffer(cons.r, cons.w, cons.e, cons.buf)
         /\ cons.e \in 0 .. UINT - 1 /\ cons.buf \in Slots(INPUT_BUF, Char)
         /\ cons.r % INPUT_BUF \in 0 .. INPUT_BUF - 1
         /\ cons.e % INPUT_BUF \in 0 .. INPUT_BUF - 1
<1>1. /\ cons = [r |-> cons.r, w |-> cons.w, e |-> cons.e, buf |-> cons.buf]
      /\ ConsBuffer(cons.r, cons.w, cons.e, cons.buf)
  BY DEF IInv, ConsOK, ConsBuffer
<1>2. /\ cons.r \in 0 .. UINT - 1 /\ cons.e \in 0 .. UINT - 1
      /\ cons.buf \in Slots(INPUT_BUF, Char)
  BY <1>1 DEF ConsBuffer, Buffer
<1>3. cons.r \in Int /\ cons.e \in Int /\ INPUT_BUF \in Nat \ {0}
  BY <1>2, Sizes, SMTT(30)
<1>4. QED
  BY <1>1, <1>2, <1>3, Quotient

LEMMA ConsDistances ==
  ASSUME IInv
  PROVE  /\ Minus(cons.w, cons.r) = Len(Readable) /\ Minus(cons.e, cons.w) = Len(Editing)
         /\ Minus(cons.e, cons.r) = Len(Readable) + Len(Editing)
         /\ Len(Readable) \in Nat /\ Len(Editing) \in Nat
         /\ Len(Readable) + Len(Editing) <= INPUT_BUF
         /\ cons.r = cons.w <=> Len(Readable) = 0
         /\ cons.w = cons.e <=> Len(Editing) = 0
         /\ Readable \in Seq(Char) /\ Editing \in Seq(Char)
<1>1. /\ Minus(cons.w, cons.r) = Distance(cons.r, cons.w, UINT)
      /\ Minus(cons.e, cons.w) = Distance(cons.w, cons.e, UINT)
      /\ Minus(cons.e, cons.r) = Distance(cons.r, cons.e, UINT)
  BY DEF Minus, Distance
<1>2. Buffer(UINT, INPUT_BUF, LineChar, Stored, Char, cons.r, cons.w, cons.e, cons.buf)
  BY ConsParts DEF ConsBuffer
<1>3. QED
  BY <1>1, <1>2, BufferFacts, SMTT(30) DEF Readable, Editing

(* The next contents of cons, field by field.                              *)
LEMMA ConsFrom ==
  ASSUME NEW r, NEW w, NEW e, NEW f, cons' = [r |-> r, w |-> w, e |-> e, buf |-> f]
  PROVE  /\ cons'.r = r /\ cons'.w = w
         /\ Readable' = Part(UINT, INPUT_BUF, r, w, f) /\ Editing' = Part(UINT, INPUT_BUF, w, e, f)
         /\ ConsBuffer(r, w, e, f) => ConsOK'
<1>1. cons'.r = r /\ cons'.w = w /\ cons'.e = e /\ cons'.buf = f
  OBVIOUS
<1>2. QED
  BY <1>1 DEF Readable, Editing, ConsOK, ConsBuffer

(* What consoleread() takes.                                               *)
Taken == [cons EXCEPT !.r = Plus(@, 1), !.buf[cons.r % INPUT_BUF] = None]

LEMMA ReadStep ==
  ASSUME IInv, cons.r # cons.w, cons' = Taken
  PROVE  /\ ConsOK' /\ Readable # <<>> /\ Readable' = Tail(Readable) /\ Editing' = Editing
<1> DEFINE s == cons.r % INPUT_BUF
           f == [cons.buf EXCEPT ![s] = None]
           v == (cons.r + 1) % UINT
<1>1. cons' = [r |-> v, w |-> cons.w, e |-> cons.e, buf |-> f]
  BY ConsParts DEF Taken, Plus
<1>2. /\ s \in 0 .. INPUT_BUF - 1 /\ cons.buf \in Slots(INPUT_BUF, Char)
      /\ ConsBuffer(cons.r, cons.w, cons.e, cons.buf)
  BY ConsParts
<1> HIDE DEF s
<1>3. f \in Slots(INPUT_BUF, Char) /\ OnlyAt(s, f, cons.buf, INPUT_BUF)
  BY <1>2 DEF Slots, Char, OnlyAt
<1> HIDE DEF f
<1>4. v = (cons.r + 1) % UINT
  OBVIOUS
<1> HIDE DEF v
<1>5. Takes(UINT, INPUT_BUF, LineChar, Stored, Char, cons.r, cons.w, cons.e, cons.buf, f, v)
  BY <1>2, <1>3, <1>4 DEF s, Takes, ConsBuffer
<1>6. /\ ConsBuffer(v, cons.w, cons.e, f) /\ Readable # <<>>
      /\ Part(UINT, INPUT_BUF, v, cons.w, f) = Tail(Readable)
      /\ Part(UINT, INPUT_BUF, cons.w, cons.e, f) = Editing
  BY <1>5, BufferTake, SMTT(30) DEF ConsBuffer, Readable, Editing
<1>7. /\ ConsOK' /\ Readable' = Part(UINT, INPUT_BUF, v, cons.w, f)
      /\ Editing' = Part(UINT, INPUT_BUF, cons.w, cons.e, f)
  BY <1>1, <1>6, ConsFrom, SMTT(30)
<1>8. QED
  BY <1>6, <1>7

(* The character that can be read next.                                    *)
LEMMA FirstReadable ==
  ASSUME IInv, cons.r # cons.w
  PROVE  /\ Readable # <<>> /\ Head(Readable) = cons.buf[cons.r % INPUT_BUF]
         /\ cons.buf[cons.r % INPUT_BUF] \in Stored
<1>1. PICK v : v = (cons.r + 1) % UINT
  OBVIOUS
<1>2. Takes(UINT, INPUT_BUF, LineChar, Stored, Char, cons.r, cons.w, cons.e, cons.buf, cons.buf, v)
  BY <1>1, ConsParts DEF Takes, ConsBuffer, OnlyAt
<1>3. /\ Part(UINT, INPUT_BUF, cons.r, cons.w, cons.buf) # <<>>
      /\ Head(Part(UINT, INPUT_BUF, cons.r, cons.w, cons.buf)) = cons.buf[cons.r % INPUT_BUF]
      /\ cons.buf[cons.r % INPUT_BUF] \in Stored
  BY <1>2, BufferTake, SMTT(30)
<1>4. QED
  BY <1>3 DEF Readable

(* The keys: ^U, ^H, and a character that is stored.                       *)
LEMMA KillStep ==
  ASSUME IInv, cons' = Erased(Minus(cons.e, cons.w))
  PROVE  /\ ConsOK' /\ Editing' = <<>> /\ Readable' = Readable
         /\ cons'.r = cons.r /\ cons'.w = cons.w
<1> DEFINE n == Distance(cons.w, cons.e, UINT)
           f == [i \in 0 .. INPUT_BUF - 1 |->
                   IF \E k \in 0 .. n - 1 : i = (cons.w + k) % INPUT_BUF THEN None ELSE cons.buf[i]]
<1>1. /\ cons.buf \in Slots(INPUT_BUF, Char)
      /\ ConsBuffer(cons.r, cons.w, cons.e, cons.buf)
  BY ConsParts
<1>2. Minus(cons.e, cons.w) = n
  BY DEF Minus, Distance
<1> HIDE DEF n
<1>3. Minus(cons.e, n) = cons.w
  <2>1. OnlyFrom(cons.w, n, cons.buf, cons.buf, INPUT_BUF)
    BY DEF OnlyFrom
  <2>2. Kills(UINT, INPUT_BUF, LineChar, Stored, Char, cons.r, cons.w, cons.e, cons.buf, cons.buf)
    BY <1>1, <2>1 DEF n, Kills, ConsBuffer
  <2>3. QED
    BY <2>2, BufferKill, SMTT(30) DEF n, Minus
<1>4. cons' = [r |-> cons.r, w |-> cons.w, e |-> cons.w, buf |-> f]
  <2>1. DOMAIN cons.buf = 0 .. INPUT_BUF - 1
    BY <1>1 DEF Slots
  <2>2. cons' = [cons EXCEPT !.e = cons.w, !.buf = f]
    BY <1>2, <1>3, <2>1 DEF Erased
  <2>3. QED
    BY <2>2, ConsParts
<1>5. f \in Slots(INPUT_BUF, Char) /\ OnlyFrom(cons.w, n, f, cons.buf, INPUT_BUF)
  BY <1>1 DEF Slots, Char, OnlyFrom, Slot
<1> HIDE DEF f
<1>6. Kills(UINT, INPUT_BUF, LineChar, Stored, Char, cons.r, cons.w, cons.e, cons.buf, f)
  BY <1>1, <1>5 DEF n, Kills, ConsBuffer
<1>7. /\ ConsBuffer(cons.r, cons.w, cons.w, f)
      /\ Part(UINT, INPUT_BUF, cons.r, cons.w, f) = Readable
      /\ Part(UINT, INPUT_BUF, cons.w, cons.w, f) = <<>>
  BY <1>6, BufferKill, SMTT(30) DEF ConsBuffer, Readable
<1>8. /\ ConsOK' /\ cons'.r = cons.r /\ cons'.w = cons.w
      /\ Readable' = Part(UINT, INPUT_BUF, cons.r, cons.w, f)
      /\ Editing' = Part(UINT, INPUT_BUF, cons.w, cons.w, f)
  BY <1>4, <1>7, ConsFrom, SMTT(30)
<1>9. QED
  BY <1>7, <1>8

LEMMA EraseStep ==
  ASSUME IInv, cons.e # cons.w, cons' = Erased(1)
  PROVE  /\ ConsOK' /\ Editing # <<>> /\ Editing' = SubSeq(Editing, 1, Len(Editing) - 1)
         /\ Readable' = Readable /\ cons'.r = cons.r /\ cons'.w = cons.w
<1> DEFINE v == (cons.e - 1) % UINT
           s == v % INPUT_BUF
           f == [cons.buf EXCEPT ![s] = None]
<1>1. /\ cons.e \in 0 .. UINT - 1 /\ cons.buf \in Slots(INPUT_BUF, Char)
      /\ ConsBuffer(cons.r, cons.w, cons.e, cons.buf)
  BY ConsParts
<1>2. v \in Int
  <2>1. cons.e - 1 \in Int /\ UINT \in Nat \ {0}
    BY <1>1, Sizes, SMTT(30)
  <2>2. QED
    BY <2>1, Quotient, SMTT(30)
<1>3. cons' = [r |-> cons.r, w |-> cons.w, e |-> v, buf |-> f]
  <2>1. DOMAIN cons.buf = 0 .. INPUT_BUF - 1
    BY <1>1 DEF Slots
  <2>2. Minus(cons.e, 1) = v
    BY DEF Minus
  <2> HIDE DEF v
  <2>3. \A i : (\E k \in 0 .. 1 - 1 : i = (v + k) % INPUT_BUF) <=> i = s
    <3>1. 0 .. 1 - 1 = {0} /\ v + 0 = v
      BY <1>2, SMTT(30)
    <3>2. QED
      BY <3>1
  <2> HIDE DEF s
  <2>4. f = [i \in DOMAIN cons.buf |-> IF \E k \in 0 .. 1 - 1 : i = (v + k) % INPUT_BUF
                                       THEN None ELSE cons.buf[i]]
    BY <2>3
  <2> HIDE DEF f
  <2>5. cons' = [cons EXCEPT !.e = v, !.buf = f]
    BY <2>2, <2>4 DEF Erased
  <2>6. QED
    BY <2>5, ConsParts
<1>4. v = (cons.e - 1) % UINT
  OBVIOUS
<1> HIDE DEF v
<1>5. f \in Slots(INPUT_BUF, Char) /\ OnlyAt(s, f, cons.buf, INPUT_BUF)
  BY <1>1 DEF Slots, Char, OnlyAt
<1> HIDE DEF f
<1>6. Erases(UINT, INPUT_BUF, LineChar, Stored, Char, cons.r, cons.w, cons.e, cons.buf, f, v)
  BY <1>1, <1>4, <1>5 DEF Erases, ConsBuffer
<1>7. /\ ConsBuffer(cons.r, cons.w, v, f) /\ Editing # <<>>
      /\ Part(UINT, INPUT_BUF, cons.r, cons.w, f) = Readable
      /\ Part(UINT, INPUT_BUF, cons.w, v, f) = SubSeq(Editing, 1, Len(Editing) - 1)
  BY <1>6, BufferErase, SMTT(30) DEF ConsBuffer, Readable, Editing
<1>8. /\ ConsOK' /\ cons'.r = cons.r /\ cons'.w = cons.w
      /\ Readable' = Part(UINT, INPUT_BUF, cons.r, cons.w, f)
      /\ Editing' = Part(UINT, INPUT_BUF, cons.w, v, f)
  BY <1>3, <1>7, ConsFrom, SMTT(30)
<1>9. QED
  BY <1>7, <1>8

(* A character that is stored fills the buffer or not.                     *)
Typed(c) ==
  LET put == [cons EXCEPT !.e = Plus(cons.e, 1), !.buf[cons.e % INPUT_BUF] = c]
  IN IF Delivers(c) THEN [put EXCEPT !.w = Plus(cons.e, 1)] ELSE put

LEMMA TypeStep ==
  ASSUME IInv, NEW c \in Stored, HasRoom, cons' = Typed(c)
  PROVE  /\ ConsOK' /\ cons'.r = cons.r /\ (~Delivers(c) => cons'.w = cons.w)
         /\ Len(Readable) + Len(Editing) < INPUT_BUF
         /\ Delivers(c) <=> c \in {"nl", "eof"} \/ Len(Readable) + Len(Editing) + 1 = INPUT_BUF
         /\ Delivers(c) => Editing' = <<>> /\ Joins(Readable', Readable, Append(Editing, c))
         /\ ~Delivers(c) => Editing' = Append(Editing, c) /\ Readable' = Readable
<1> DEFINE s == cons.e % INPUT_BUF
           f == [cons.buf EXCEPT ![s] = c]
           v == (cons.e + 1) % UINT
<1>1. /\ s \in 0 .. INPUT_BUF - 1 /\ cons.buf \in Slots(INPUT_BUF, Char)
      /\ ConsBuffer(cons.r, cons.w, cons.e, cons.buf)
  BY ConsParts
<1>2. /\ Delivers(c) => cons' = [r |-> cons.r, w |-> v, e |-> v, buf |-> f]
      /\ ~Delivers(c) => cons' = [r |-> cons.r, w |-> cons.w, e |-> v, buf |-> f]
  BY ConsParts DEF Typed, Plus
<1>3. Delivers(c) <=> c \in {"nl", "eof"} \/ v = (cons.r + INPUT_BUF) % UINT
  BY DEF Delivers, Plus
<1>4. Distance(cons.r, cons.e, UINT) < INPUT_BUF
  BY DEF HasRoom, Minus, Distance
<1> HIDE DEF s
<1>5. /\ f \in Slots(INPUT_BUF, Char) /\ f[s] = c
      /\ OnlyAt(s, f, cons.buf, INPUT_BUF)
  BY <1>1 DEF Slots, Char, OnlyAt
<1> HIDE DEF f
<1>6. v = (cons.e + 1) % UINT
  OBVIOUS
<1> HIDE DEF v
<1>7. Puts(UINT, INPUT_BUF, LineChar, Stored, Char, cons.r, cons.w, cons.e, cons.buf, f, v, c)
  BY <1>1, <1>4, <1>5, <1>6 DEF s, Puts, ConsBuffer
<1>8. /\ v = (cons.r + INPUT_BUF) % UINT
           <=> Distance(cons.r, cons.w, UINT) + Distance(cons.w, cons.e, UINT) + 1 = INPUT_BUF
      /\ c \in LineChar => ConsBuffer(cons.r, cons.w, v, f)
      /\ ConsBuffer(cons.r, v, v, f)
  BY <1>7, BufferPut, SMTT(30) DEF ConsBuffer
<1>9. /\ Part(UINT, INPUT_BUF, cons.r, cons.w, f) = Readable
      /\ Part(UINT, INPUT_BUF, cons.w, v, f) = Append(Editing, c)
      /\ Joins(Part(UINT, INPUT_BUF, cons.r, v, f), Readable, Append(Editing, c))
      /\ Part(UINT, INPUT_BUF, v, v, f) = <<>>
  BY <1>7, BufferPut, SMTT(30) DEF Readable, Editing
<1>10. /\ Distance(cons.r, cons.w, UINT) = Len(Readable)
       /\ Distance(cons.w, cons.e, UINT) = Len(Editing)
       /\ Len(Readable) + Len(Editing) < INPUT_BUF
  BY ConsDistances DEF Minus, Distance, HasRoom
<1>11. Delivers(c) <=> c \in {"nl", "eof"} \/ Len(Readable) + Len(Editing) + 1 = INPUT_BUF
  BY <1>3, <1>8, <1>10
<1>12. CASE Delivers(c)
  <2>1. cons' = [r |-> cons.r, w |-> v, e |-> v, buf |-> f]
    BY <1>2, <1>12
  <2>2. /\ ConsOK' /\ cons'.r = cons.r /\ Editing' = Part(UINT, INPUT_BUF, v, v, f)
        /\ Readable' = Part(UINT, INPUT_BUF, cons.r, v, f)
    BY <1>8, <2>1, ConsFrom
  <2>3. Editing' = <<>> /\ Joins(Readable', Readable, Append(Editing, c))
    BY <1>9, <2>2
  <2>4. QED
    BY <1>10, <1>11, <1>12, <2>2, <2>3
<1>13. CASE ~Delivers(c)
  <2>1. cons' = [r |-> cons.r, w |-> cons.w, e |-> v, buf |-> f]
    BY <1>2, <1>13
  <2>2. c \in LineChar
    BY <1>3, <1>13 DEF Stored, LineChar
  <2>3. /\ ConsOK' /\ cons'.r = cons.r /\ cons'.w = cons.w
        /\ Editing' = Part(UINT, INPUT_BUF, cons.w, v, f)
        /\ Readable' = Part(UINT, INPUT_BUF, cons.r, cons.w, f)
    BY <1>8, <2>1, <2>2, ConsFrom
  <2>4. Editing' = Append(Editing, c) /\ Readable' = Readable
    BY <1>9, <2>3
  <2>5. QED
    BY <1>10, <1>11, <1>13, <2>3, <2>4
<1>14. QED
  BY <1>12, <1>13

-----------------------------------------------------------------------------
(* consoleread().  A round finds nothing, an end of file, or a character   *)
(* that is copied or lost.                                                 *)
NothingRead(p) == cons.r = cons.w /\ cons' = cons /\ dst' = dst /\ pc'[p] \in {"idle", "wait"}
EofRead(p) ==
  /\ cons.r # cons.w /\ Head(Readable) = "eof" /\ dst' = dst /\ pc'[p] = "idle"
  /\ cons' = IF dst[p] # <<>> THEN cons ELSE Taken
CharRead(p) ==
  LET got == Append(dst[p], Head(Readable))
  IN /\ cons.r # cons.w /\ Head(Readable) # "eof" /\ cons' = Taken
     /\ dst' = [dst EXCEPT ![p] = got]
     /\ pc'[p] = IF Head(Readable) = "nl" \/ Len(got) = want[p] THEN "idle" ELSE "read"
CharLost(p) ==
  cons.r # cons.w /\ Head(Readable) # "eof" /\ cons' = Taken /\ dst' = dst /\ pc'[p] = "idle"

LEMMA LoopCases ==
  ASSUME IInv, NEW p \in Readers, consoleread_loop(p)
  PROVE  /\ UNCHANGED <<tx, hand, intr, printf, left, want, txlock, device>>
         /\ pc[p] = "read" /\ conslock' \in {None, p}
         /\ pc' \in [Procs -> States] /\ \A q \in Procs : q # p => pc'[q] = pc[q]
         /\ killed' \in [Readers -> BOOLEAN]
         /\ NothingRead(p) \/ EofRead(p) \/ CharRead(p) \/ CharLost(p)
<1>1. CallOK /\ p \in Procs
  BY Names DEF IInv
<1>2. /\ pc \in [Procs -> States] /\ killed \in [Readers -> BOOLEAN]
      /\ dst \in [Readers -> Seq({"a", "nl"})]
  BY <1>1 DEF CallOK
<1>3. /\ UNCHANGED <<tx, hand, intr, printf, left, want, txlock, device>>
      /\ pc[p] = "read"
  BY DEF consoleread_loop
<1> DEFINE c == cons.buf[cons.r % INPUT_BUF]
<1>4. cons.r # cons.w => Head(Readable) = c
  BY FirstReadable
<1> DEFINE Goal(s) ==
             /\ pc' = [pc EXCEPT ![p] = s] /\ conslock' \in {None, p}
             /\ killed' = killed \/ killed' = [killed EXCEPT ![p] = FALSE]
             /\ \/ cons.r = cons.w /\ s \in {"idle", "wait"} /\ cons' = cons /\ dst' = dst
                \/ /\ cons.r # cons.w /\ c = "eof" /\ cons' = (IF dst[p] # <<>> THEN cons ELSE Taken)
                   /\ dst' = dst /\ s = "idle"
                \/ /\ cons.r # cons.w /\ c # "eof" /\ cons' = Taken
                   /\ dst' = [dst EXCEPT ![p] = Append(@, c)]
                   /\ s = IF c = "nl" \/ Len(Append(dst[p], c)) = want[p] THEN "idle" ELSE "read"
                \/ cons.r # cons.w /\ c # "eof" /\ cons' = Taken /\ dst' = dst /\ s = "idle"
<1>5. PICK s \in {"idle", "wait", "read"} : Goal(s)
  <2> HIDE DEF c
  <2>1. CASE cons.r = cons.w /\ Return(p) /\ UNCHANGED <<cons, dst>>
    <3>1. Goal("idle")
      BY <2>1 DEF Return
    <3>2. QED
      BY <3>1
  <2>2. CASE /\ cons.r = cons.w /\ conslock' = None /\ pc' = [pc EXCEPT ![p] = "wait"]
             /\ UNCHANGED <<cons, dst, killed>>
    <3>1. Goal("wait")
      BY <2>2
    <3>2. QED
      BY <3>1
  <2>3. CASE /\ cons.r # cons.w /\ c = "eof" /\ cons' = (IF SaveEof(p) THEN cons ELSE Taken)
             /\ Return(p) /\ UNCHANGED dst
    <3>1. Goal("idle")
      BY <2>3 DEF Return, SaveEof
    <3>2. QED
      BY <3>1
  <2>4. CASE /\ cons.r # cons.w /\ c # "eof" /\ cons' = Taken
             /\ dst' = [dst EXCEPT ![p] = Append(@, c)]
             /\ IF c = "nl" \/ Len(dst'[p]) = want[p] THEN Return(p)
                ELSE conslock' = p /\ UNCHANGED <<pc, killed>>
    <3>1. dst'[p] = Append(dst[p], c)
      BY <1>2, <2>4
    <3>2. CASE c = "nl" \/ Len(dst'[p]) = want[p]
      <4>1. Goal("idle")
        BY <2>4, <3>1, <3>2 DEF Return
      <4>2. QED
        BY <4>1
    <3>3. CASE ~(c = "nl" \/ Len(dst'[p]) = want[p])
      <4>1. pc' = [pc EXCEPT ![p] = "read"]
        BY <1>1, <1>2, <1>3, <2>4, <3>3
      <4>2. Goal("read")
        BY <2>4, <3>1, <3>3, <4>1
      <4>3. QED
        BY <4>2
    <3>4. QED
      BY <3>2, <3>3
  <2>5. CASE cons.r # cons.w /\ c # "eof" /\ cons' = Taken /\ Return(p) /\ UNCHANGED dst
    <3>1. Goal("idle")
      BY <2>5 DEF Return
    <3>2. QED
      BY <3>1
  <2>6. QED
    BY <2>1, <2>2, <2>3, <2>4, <2>5 DEF consoleread_loop, c, Taken
<1> HIDE DEF c
<1>6. /\ pc' \in [Procs -> States] /\ pc'[p] = s /\ \A q \in Procs : q # p => pc'[q] = pc[q]
  BY <1>1, <1>2, <1>5 DEF States
<1>7. killed' \in [Readers -> BOOLEAN]
  BY <1>2, <1>5
<1>8. NothingRead(p) \/ EofRead(p) \/ CharRead(p) \/ CharLost(p)
  BY <1>4, <1>5, <1>6 DEF NothingRead, EofRead, CharRead, CharLost
<1>9. QED
  BY <1>3, <1>5, <1>6, <1>7, <1>8

LEMMA LoopInv ==
  ASSUME IInv, NEW p \in Readers, load' = load, consoleread_loop(p)
  PROVE  IInv'
<1>1. /\ UNCHANGED <<tx, hand, intr, printf, left, want, txlock, device>>
      /\ pc[p] = "read" /\ conslock' \in {None, p}
      /\ pc' \in [Procs -> States] /\ \A q \in Procs : q # p => pc'[q] = pc[q]
      /\ killed' \in [Readers -> BOOLEAN] /\ p \in Procs
  BY LoopCases, Names
<1>2. CallOK /\ LockOK /\ Sleeping
  BY DEF IInv
<1>3. NothingRead(p) \/ EofRead(p) \/ CharRead(p) \/ CharLost(p)
  BY LoopCases
<1>4. FifoInv' /\ TxOK' /\ IntrOK' /\ DeviceOK'
  BY <1>1, FifoFrame, Frame DEF device
<1>5. LockOK'
  BY <1>1, <1>2 DEF LockOK
<1>6. /\ cons' = cons \/ (cons.r # cons.w /\ cons' = Taken)
      /\ pc'[p] \in {"idle", "read", "wait"} /\ (pc'[p] = "wait" => cons.r = cons.w)
  BY <1>3 DEF NothingRead, EofRead, CharRead, CharLost
<1>7. ConsOK'
  BY <1>6, ReadStep, Frame
<1>8. Sleeping'
  <2>1. \A q \in Procs : pc'[q] = "full" => tx'.w = TxPlus(tx'.r, UART_TX_BUF_SIZE)
    BY <1>1, <1>2, <1>6 DEF Sleeping
  <2>2. ASSUME NEW q \in Procs, pc'[q] = "wait" PROVE cons'.r = cons'.w
    <3>1. cons.r = cons.w
      BY <1>1, <1>2, <1>6, <2>2 DEF Sleeping
    <3>2. QED
      BY <1>6, <3>1
  <2>3. TxPlus(tx.r, UART_TX_BUF_SIZE)' = TxPlus(tx'.r, UART_TX_BUF_SIZE)
    BY DEF TxPlus
  <2>4. QED
    BY <2>1, <2>2, <2>3 DEF Sleeping
<1>9. /\ dst' \in [Readers -> Seq({"a", "nl"})] /\ \A q \in Readers : q # p => dst'[q] = dst[q]
      /\ Len(dst'[p]) <= want[p] /\ (pc'[p] # "idle" => Len(dst'[p]) < want[p])
  <2>1. /\ dst \in [Readers -> Seq({"a", "nl"})] /\ want[p] \in 0 .. MaxCount
        /\ Len(dst[p]) <= want[p] /\ Len(dst[p]) < want[p]
    BY <1>1, <1>2 DEF CallOK
  <2>2. CASE dst' = dst
    BY <2>1, <2>2
  <2>3. CASE CharRead(p)
    <3> DEFINE got == Append(dst[p], Head(Readable))
    <3>1. /\ dst' = [dst EXCEPT ![p] = got] /\ cons.r # cons.w /\ Head(Readable) # "eof"
          /\ pc'[p] # "idle" => Len(got) # want[p]
      BY <2>3 DEF CharRead
    <3>2. Head(Readable) \in {"a", "nl"}
      BY <3>1, FirstReadable DEF Stored
    <3>3. dst[p] \in Seq({"a", "nl"})
      BY <2>1
    <3>4. got \in Seq({"a", "nl"}) /\ Len(got) = Len(dst[p]) + 1 /\ Len(dst[p]) \in Nat
      BY <3>2, <3>3, SMTT(30)
    <3> HIDE DEF got
    <3>5. Len(got) <= want[p] /\ (pc'[p] # "idle" => Len(got) < want[p])
      BY <2>1, <3>1, <3>4, Sizes, SMTT(30)
    <3>6. QED
      BY <2>1, <3>1, <3>4, <3>5
  <2>4. QED
    BY <1>3, <2>2, <2>3 DEF NothingRead, EofRead, CharLost
<1>10. CallOK'
  <2>1. /\ \A q \in Writers : pc'[q] \in {"idle", "putc", "full", "start"}
        /\ \A q \in Readers : pc'[q] \in {"idle", "read", "wait"}
    BY <1>1, <1>2, <1>6, Names DEF CallOK
  <2>2. \A q \in Readers : /\ Len(dst'[q]) <= want'[q]
                           /\ pc'[q] # "idle" => Len(dst'[q]) < want'[q]
    <3>1. \A q \in Readers : q # p => /\ Len(dst'[q]) <= want'[q]
                                      /\ pc'[q] # "idle" => Len(dst'[q]) < want'[q]
      BY <1>1, <1>2, <1>9, Names DEF CallOK
    <3>2. QED
      BY <1>1, <1>9, <3>1
  <2>3. QED
    BY <1>1, <1>2, <1>9, <2>1, <2>2 DEF CallOK
<1>11. QED
  BY <1>4, <1>5, <1>7, <1>8, <1>10 DEF IInv

-----------------------------------------------------------------------------
(* The handler's work on the input.                                        *)
LEMMA GetcInv ==
  ASSUME IInv, load' = load, uartgetc
  PROVE  IInv'
<1>1. UNCHANGED <<cons, tx, hand, printf, procs, txlock, fifo, irq>>
  BY DEF uartgetc
<1>2. IntrOK /\ LockOK /\ DeviceOK
  BY DEF IInv
<1>3. \A c \in Keys : Echoes(c) \in 0 .. INPUT_BUF
  <2>1. /\ Minus(cons.e, cons.w) \in 0 .. INPUT_BUF
        /\ 0 \in 0 .. INPUT_BUF /\ 1 \in 0 .. INPUT_BUF
    BY ConsDistances, Sizes, SMTT(30)
  <2>2. QED
    BY <2>1 DEF Echoes
<1>4. CASE rx = None
  <2>1. intr' = [intr EXCEPT !.at = "tx"] /\ UNCHANGED <<conslock, rx>>
    BY <1>4 DEF uartgetc
  <2>2. IntrOK' /\ intr'.at # "thr"
    BY <1>1, <1>2, <2>1 DEF IntrOK
  <2>3. LockOK' /\ DeviceOK'
    BY <1>1, <1>2, <2>1 DEF LockOK, DeviceOK
  <2>4. QED
    BY <1>1, <2>2, <2>3, HandlerFrame
<1>5. CASE rx # None
  <2>1. conslock' = Intr /\ intr' = [at |-> "echo", c |-> rx, n |-> Echoes(rx)] /\ rx' = None
    BY <1>5 DEF uartgetc
  <2>2. rx \in Keys
    BY <1>2, <1>5 DEF DeviceOK
  <2>3. IntrOK' /\ intr'.at # "thr"
    BY <1>1, <1>2, <1>3, <2>1, <2>2 DEF IntrOK
  <2>4. LockOK' /\ DeviceOK'
    BY <1>1, <1>2, <2>1 DEF LockOK, DeviceOK
  <2>5. QED
    BY <1>1, <2>3, <2>4, HandlerFrame
<1>6. QED
  BY <1>4, <1>5

KeyKills == cons' = Erased(Minus(cons.e, cons.w)) /\ pc' = pc
KeyErases == cons.e # cons.w /\ cons' = Erased(1) /\ pc' = pc
KeyTypes(c) == HasRoom /\ cons' = Typed(c) /\ pc' = IF Delivers(c) THEN WakeReaders ELSE pc
KeyIgnored == cons' = cons /\ pc' = pc

LEMMA KeyCases ==
  ASSUME consoleintr
  PROVE  /\ UNCHANGED <<tx, hand, printf, left, want, dst, killed, txlock, device>>
         /\ conslock' = None /\ intr' = [at |-> "getc", c |-> None, n |-> 0]
         /\ KeyKills \/ KeyErases \/ (\E c \in Stored : KeyTypes(c)) \/ KeyIgnored
<1>1. /\ UNCHANGED <<tx, hand, printf, left, want, dst, killed, txlock, device>>
      /\ conslock' = None /\ intr' = [at |-> "getc", c |-> None, n |-> 0]
  BY DEF consoleintr
<1> DEFINE c == intr.c
<1>2. /\ cons' = CASE c = "kill" -> Erased(Minus(cons.e, cons.w))
                   [] c = "bs" /\ cons.e # cons.w -> Erased(1)
                   [] c \in Stored /\ HasRoom -> Typed(c)
                   [] OTHER -> cons
      /\ pc' = IF c \in Stored /\ HasRoom /\ Delivers(c) THEN WakeReaders ELSE pc
  BY DEF consoleintr, Typed
<1> HIDE DEF c
<1>3. c = "kill" \/ c = "bs" => c \notin Stored
  BY DEF Stored
<1>4. CASE c = "kill"
  BY <1>1, <1>2, <1>3, <1>4 DEF KeyKills
<1>5. CASE c = "bs" /\ cons.e # cons.w
  BY <1>1, <1>2, <1>3, <1>5 DEF KeyErases
<1>6. CASE c \in Stored /\ HasRoom
  <2>1. cons' = Typed(c) /\ pc' = IF Delivers(c) THEN WakeReaders ELSE pc
    BY <1>2, <1>3, <1>6
  <2>2. KeyTypes(c)
    BY <1>6, <2>1 DEF KeyTypes
  <2>3. QED
    BY <1>1, <1>6, <2>2
<1>7. CASE c # "kill" /\ ~(c = "bs" /\ cons.e # cons.w) /\ ~(c \in Stored /\ HasRoom)
  <2>1. cons' = cons /\ pc' = pc
    BY <1>2, <1>7
  <2>2. QED
    BY <1>1, <2>1 DEF KeyIgnored
<1>8. QED
  BY <1>4, <1>5, <1>6, <1>7

LEMMA KeyInv ==
  ASSUME IInv, load' = load, consoleintr
  PROVE  IInv'
<1>1. /\ UNCHANGED <<tx, hand, printf, left, want, dst, killed, txlock, device>>
      /\ conslock' = None /\ intr' = [at |-> "getc", c |-> None, n |-> 0]
  BY KeyCases
<1>2. CallOK /\ LockOK /\ IntrOK /\ Sleeping
  BY DEF IInv
<1>3. IntrOK' /\ intr'.at # "thr"
  <2>1. 0 \in 0 .. INPUT_BUF
    BY Sizes, SMTT(30)
  <2>2. QED
    BY <1>1, <1>2, <2>1 DEF IntrOK
<1>4. FifoInv' /\ TxOK' /\ DeviceOK'
  BY <1>1, <1>3, FifoFrame, Frame DEF device
<1>5. LockOK'
  BY <1>1, <1>2 DEF LockOK
<1>6. /\ ConsOK'
      /\ \/ pc' = pc /\ cons'.r = cons.r /\ cons'.w = cons.w
         \/ pc' = WakeReaders
  <2>1. CASE KeyKills
    BY <2>1, KillStep DEF KeyKills
  <2>2. CASE KeyErases
    BY <2>2, EraseStep DEF KeyErases
  <2>3. ASSUME NEW c \in Stored, KeyTypes(c)
        PROVE  /\ ConsOK'
               /\ \/ pc' = pc /\ cons'.r = cons.r /\ cons'.w = cons.w
                  \/ pc' = WakeReaders
    BY <2>3, TypeStep DEF KeyTypes
  <2>4. CASE KeyIgnored
    BY <2>4, Frame DEF KeyIgnored
  <2>5. QED
    BY <2>1, <2>2, <2>3, <2>4, KeyCases
<1>7. /\ pc' \in [Procs -> States]
      /\ \A q \in Procs : pc'[q] = pc[q] \/ (pc[q] = "wait" /\ pc'[q] = "read")
      /\ pc' = pc \/ \A q \in Procs : pc'[q] # "wait"
  BY <1>2, <1>6 DEF CallOK, WakeReaders, Wake, States
<1>8. CallOK'
  BY <1>1, <1>2, <1>7, Names DEF CallOK
<1>9. Sleeping'
  <2>1. \A q \in Procs : pc'[q] = "wait" => pc[q] = "wait" /\ cons'.r = cons.r /\ cons'.w = cons.w
    BY <1>6, <1>7 DEF WakeReaders, Wake
  <2>2. QED
    BY <1>1, <1>2, <1>7, <2>1 DEF Sleeping
<1>10. QED
  BY <1>3, <1>4, <1>5, <1>6, <1>8, <1>9 DEF IInv

-----------------------------------------------------------------------------
LEMMA NextInv == IInv /\ [Next]_vars => IInv'
<1> SUFFICES ASSUME IInv, [Next]_vars PROVE IInv'
  OBVIOUS
<1>1. CASE UNCHANGED vars
  <2>1. UNCHANGED <<cons, tx, hand, intr, printf, locks, device, load, procs>>
    BY <1>1 DEF vars, state
  <2>2. QED
    BY <2>1, Frame, CallFrame DEF procs
<1>2. CASE Next
  <2>1. load' = load /\ Step
    BY <1>2 DEF Next
  <2>2. load.counts \subseteq 1 .. MaxCount /\ load.keys \subseteq Keys
    BY TtyAssumption DEF IInv, DeviceOK
  <2>3. ASSUME NEW p \in Writers, write(p) PROVE IInv'
    BY <2>1, <2>3, PutcInv, TakeInv, ThrInv, PutcDoneInv DEF write, uartstart
  <2>4. ASSUME NEW p \in Readers, consoleread_loop(p) PROVE IInv'
    BY <2>1, <2>4, LoopInv
  <2>5. ASSUME NEW p \in Procs, kill(p) PROVE IInv'
    BY <2>1, <2>5, KillInv
  <2>6. CASE handle
    BY <2>1, <2>6, HandlerInv, GetcInv, EchoInv, KeyInv, TakeInv, ThrInv DEF handle, uartstart
  <2>7. CASE printf_char \/ send
    BY <2>1, <2>7, PrintfInv, SendInv
  <2>8. ASSUME NEW p \in Writers \cap load.procs, NEW n \in load.counts, consolewrite(p, n)
        PROVE  IInv'
    BY <2>1, <2>2, <2>8, WriteInv
  <2>9. ASSUME NEW p \in Readers \cap load.procs, NEW n \in load.counts, consoleread(p, n)
        PROVE  IInv'
    BY <2>1, <2>2, <2>9, ReadInv
  <2>10. ASSUME NEW c \in load.keys, receive(c) PROVE IInv'
    BY <2>1, <2>2, <2>10, ReceiveInv
  <2>11. QED
    BY <2>1, <2>3, <2>4, <2>5, <2>6, <2>7, <2>8, <2>9, <2>10 DEF Step
<1>3. QED
  BY <1>1, <1>2

(* The invariant holds in every state the console reaches.                 *)
THEOREM Invariance == Spec => []IInv
  BY InitInv, NextInv, PTL DEF Spec

(* The transmitter never overruns (uart.c:106-119, 127-160), although      *)
(* uartputc_sync() takes no lock: whatever the number of processes.        *)
THEOREM Overrun == Spec => []NoOverrun
<1>1. IInv => NoOverrun
  <2> SUFFICES ASSUME IInv PROVE Len(fifo) <= TXFIFO
    BY DEF NoOverrun
  <2>1. Len(fifo) + Pending <= 3 /\ fifo \in Seq(Writers \cup {Sync})
    BY DEF IInv, FifoInv, DeviceOK
  <2>2. Pending \in Nat /\ Len(fifo) \in Nat /\ TXFIFO \in Nat /\ TXFIFO >= 3
    BY <2>1, TtyAssumption, SMTT(30) DEF Pending
  <2>3. QED
    BY <2>1, <2>2, SMTT(30)
<1>2. QED
  BY <1>1, Invariance, PTL

(* Types, and no lost wakeup: a writer sleeps in uartputc() only while     *)
(* uart_tx_buf is full and a reader in consoleread() only while there is   *)
(* nothing to read.                                                        *)
THEOREM Sleepers == Spec => []SleepIsJustified
<1>1. IInv => SleepIsJustified
  BY TypeCorrect DEF IInv, Sleeping, SleepIsJustified
<1>2. QED
  BY <1>1, Invariance, PTL

-----------------------------------------------------------------------------
(* The input refines Lines.                                                *)
line == Between(cons.buf, INPUT_BUF, cons.w, Minus(cons.e, cons.w))
ready == Between(cons.buf, INPUT_BUF, cons.r, Minus(cons.w, cons.r))

LEMMA InputMap == line = Editing /\ ready = Readable
<1>1. /\ Minus(cons.w, cons.r) = Distance(cons.r, cons.w, UINT)
      /\ Minus(cons.e, cons.w) = Distance(cons.w, cons.e, UINT)
  BY DEF Minus, Distance
<1>2. QED
  BY <1>1 DEF line, ready, Editing, Readable, Part, Between, Entry

LEMMA InputInit == Init => Input!Init
<1> SUFFICES ASSUME Init PROVE Input!Init
  OBVIOUS
<1>1. cons.r = 0 /\ cons.w = 0 /\ cons.e = 0 /\ Minus(0, 0) = 0
  BY Sizes, SMTT(30) DEF Init, Minus
<1>2. \A d : Between(d, INPUT_BUF, 0, 0) = <<>>
  BY SMTT(30) DEF Between
<1>3. line = <<>> /\ ready = <<>>
  BY <1>1, <1>2 DEF line, ready
<1>4. Reading = {}
  <2>1. \A p \in Readers : pc[p] = "idle"
    BY Names DEF Init
  <2>2. QED
    BY <2>1 DEF Reading
<1>5. want = [p \in Readers |-> 0] /\ dst = [p \in Readers |-> <<>>]
  BY DEF Init
<1>6. QED
  BY <1>3, <1>4, <1>5 DEF Input!Init, line, ready

(* Steps that leave the input alone.                                       *)
LEMMA InputStutters ==
  ASSUME cons' = cons, want' = want, dst' = dst, Reading' = Reading
  PROVE  UNCHANGED Input!vars
<1>1. line' = line /\ ready' = ready
  BY DEF line, ready
<1>2. QED
  BY <1>1 DEF Input!vars, Input!call, line, ready

LEMMA ReadingSame ==
  ASSUME \A p \in Readers : pc'[p] = pc[p] \/ (pc[p] = "wait" /\ pc'[p] = "read")
  PROVE  Reading' = Reading
  BY DEF Reading

(* The reader p leaves read(), or does not.                                *)
LEMMA ReadingStep ==
  ASSUME IInv, NEW p \in Readers, pc[p] = "read", \A q \in Procs : q # p => pc'[q] = pc[q]
  PROVE  /\ p \in Reading
         /\ pc'[p] = "idle" => Reading' = Reading \ {p}
         /\ pc'[p] # "idle" => (pc'[p] \in {"read", "wait"} => Reading' = Reading)
<1>1. \A q \in Readers : q # p => pc'[q] = pc[q]
  BY Names
<1>2. p \in Reading
  BY DEF Reading
<1>3. ASSUME pc'[p] = "idle" PROVE Reading' = Reading \ {p}
  BY <1>1, <1>3 DEF Reading
<1>4. ASSUME pc'[p] \in {"read", "wait"} PROVE Reading' = Reading
  BY <1>1, <1>4 DEF Reading
<1>5. QED
  BY <1>2, <1>3, <1>4

LEMMA InputMapNext == line' = Editing' /\ ready' = Readable'
<1>1. (line = Editing /\ ready = Readable)'
  BY InputMap, PTL
<1>2. QED
  BY <1>1

LEMMA EmptyReadable ==
  ASSUME IInv
  PROVE  cons.r = cons.w <=> Readable = <<>>
<1>1. Readable \in Seq(Char) /\ (cons.r = cons.w <=> Len(Readable) = 0)
  BY ConsDistances
<1>2. QED
  BY <1>1, SMTT(30)

LEMMA InputReads ==
  ASSUME IInv, NEW p \in Readers, consoleread_loop(p)
  PROVE  [Input!Next]_(Input!vars)
<1>1. /\ pc[p] = "read" /\ \A q \in Procs : q # p => pc'[q] = pc[q]
      /\ want' = want
  BY LoopCases
<1>2. /\ p \in Reading
      /\ pc'[p] = "idle" => Reading' = Reading \ {p}
      /\ pc'[p] \in {"read", "wait"} => Reading' = Reading
  BY <1>1, ReadingStep
<1>3. /\ line = Editing /\ ready = Readable /\ line' = Editing' /\ ready' = Readable'
  BY InputMap, InputMapNext
<1>4. cons.r = cons.w <=> Readable = <<>>
  BY EmptyReadable
<1>5. cons.r # cons.w /\ cons' = Taken => Readable' = Tail(Readable) /\ Editing' = Editing
  BY ReadStep
<1>6. cons' = cons => Readable' = Readable /\ Editing' = Editing
  BY DEF Readable, Editing
<1>7. CASE NothingRead(p)
  <2>1. cons' = cons /\ dst' = dst /\ Readable = <<>> /\ pc'[p] \in {"idle", "wait"}
    BY <1>4, <1>7 DEF NothingRead
  <2>2. CASE pc'[p] = "wait"
    BY <1>1, <1>2, <2>1, <2>2, InputStutters
  <2>3. CASE pc'[p] = "idle"
    <3>1. Input!Fail(p)
      BY <1>1, <1>2, <1>3, <1>6, <2>1, <2>3 DEF Input!Fail, line, ready
    <3>2. QED
      BY <3>1 DEF Input!Next
  <2>4. QED
    BY <2>1, <2>2, <2>3
<1>8. CASE EofRead(p)
  <2>1. /\ Readable # <<>> /\ Head(Readable) = "eof" /\ dst' = dst /\ pc'[p] = "idle"
        /\ Editing' = Editing /\ Readable' = IF dst[p] = <<>> THEN Tail(Readable) ELSE Readable
    BY <1>4, <1>5, <1>6, <1>8 DEF EofRead
  <2>2. Input!EndOfFile(p)
    BY <1>1, <1>2, <1>3, <2>1 DEF Input!EndOfFile, line, ready
  <2>3. QED
    BY <2>2 DEF Input!Next
<1>9. CASE CharRead(p)
  <2> DEFINE g == Append(dst[p], Head(Readable))
  <2>1. /\ Readable # <<>> /\ Head(Readable) # "eof" /\ dst' = [dst EXCEPT ![p] = g]
        /\ Editing' = Editing /\ Readable' = Tail(Readable)
        /\ pc'[p] = IF Head(Readable) = "nl" \/ Len(g) = want[p] THEN "idle" ELSE "read"
    BY <1>4, <1>5, <1>9 DEF CharRead
  <2>2. Reading' = IF Head(Readable) = "nl" \/ Len(g) = want[p] THEN Reading \ {p} ELSE Reading
    BY <1>2, <2>1
  <2>3. Input!Take(p)
    BY <1>1, <1>2, <1>3, <2>1, <2>2 DEF Input!Take, line, ready
  <2>4. QED
    BY <2>3 DEF Input!Next
<1>10. CASE CharLost(p)
  <2>1. /\ Readable # <<>> /\ Head(Readable) # "eof" /\ dst' = dst /\ pc'[p] = "idle"
        /\ Editing' = Editing /\ Readable' = Tail(Readable)
    BY <1>4, <1>5, <1>10 DEF CharLost
  <2>2. Input!Fail(p)
    BY <1>1, <1>2, <1>3, <2>1 DEF Input!Fail, line, ready
  <2>3. QED
    BY <2>2 DEF Input!Next
<1>11. QED
  BY <1>7, <1>8, <1>9, <1>10, LoopCases

LEMMA InputKeys ==
  ASSUME IInv, consoleintr
  PROVE  [Input!Next]_(Input!vars)
<1>1. want' = want /\ dst' = dst
  BY KeyCases
<1>2. pc' = pc \/ pc' = WakeReaders => Reading' = Reading
  <2>1. CallOK
    BY DEF IInv
  <2>2. pc' = pc \/ pc' = WakeReaders
          => \A p \in Readers : pc'[p] = pc[p] \/ (pc[p] = "wait" /\ pc'[p] = "read")
    BY Names DEF WakeReaders, Wake
  <2>3. QED
    BY <2>2, ReadingSame
<1>3. line = Editing /\ ready = Readable /\ line' = Editing' /\ ready' = Readable'
  BY InputMap, InputMapNext
<1>4. CASE KeyKills
  <2>1. Editing' = <<>> /\ Readable' = Readable /\ Reading' = Reading
    BY <1>2, <1>4, KillStep DEF KeyKills
  <2>2. Input!Kill
    BY <1>1, <1>3, <2>1 DEF Input!Kill, Input!call, line, ready
  <2>3. QED
    BY <2>2 DEF Input!Next
<1>5. CASE KeyErases
  <2>1. /\ Editing # <<>> /\ Editing' = SubSeq(Editing, 1, Len(Editing) - 1)
        /\ Readable' = Readable /\ Reading' = Reading
    BY <1>2, <1>5, EraseStep DEF KeyErases
  <2>2. Input!Erase
    BY <1>1, <1>3, <2>1 DEF Input!Erase, Input!call, line, ready
  <2>3. QED
    BY <2>2 DEF Input!Next
<1>6. ASSUME NEW c \in Stored, KeyTypes(c) PROVE Input!Type(c)
  <2>1. Reading' = Reading
    BY <1>2, <1>6 DEF KeyTypes
  <2>2. HasRoom /\ cons' = Typed(c)
    BY <1>6 DEF KeyTypes
  <2>3. /\ Len(Readable) + Len(Editing) < INPUT_BUF
        /\ Delivers(c) <=> c \in {"nl", "eof"} \/ Len(Readable) + Len(Editing) + 1 = INPUT_BUF
        /\ Delivers(c) => Editing' = <<>> /\ Joins(Readable', Readable, Append(Editing, c))
        /\ ~Delivers(c) => Editing' = Append(Editing, c) /\ Readable' = Readable
    BY <2>2, TypeStep
  <2>4. /\ Readable \in Seq(Char) /\ Editing \in Seq(Char)
    BY ConsDistances
  <2>5. Len(Readable) + Len(Append(Editing, c)) = Len(Readable) + Len(Editing) + 1
    BY <2>4, SMTT(30)
  <2>6. IF c \in {"nl", "eof"} \/ Len(Readable) + Len(Append(Editing, c)) = INPUT_BUF
          THEN Editing' = <<>> /\ Readable' = Readable \o Append(Editing, c)
          ELSE Editing' = Append(Editing, c) /\ Readable' = Readable
    BY <2>3, <2>5 DEF Joins
  <2>7. QED
    BY <1>1, <1>3, <2>1, <2>3, <2>6 DEF Input!Type, Input!call, line, ready
<1>7. CASE KeyIgnored
  BY <1>1, <1>2, <1>7, InputStutters DEF KeyIgnored
<1>8. QED
  BY <1>4, <1>5, <1>6, <1>7, KeyCases DEF Input!Next, Stored

(* Steps that leave the readers where they are.                            *)
LEMMA InputQuiet ==
  ASSUME IInv, cons' = cons, want' = want, dst' = dst,
         \A p \in Readers : pc'[p] = pc[p] \/ (pc[p] = "wait" /\ pc'[p] = "read")
  PROVE  [Input!Next]_(Input!vars)
  BY ReadingSame, InputStutters

LEMMA InputWrites ==
  ASSUME IInv, NEW p \in Writers, write(p) \/ \E n \in load.counts : consolewrite(p, n)
  PROVE  [Input!Next]_(Input!vars)
<1>1. CallOK /\ p \notin Readers
  BY TtyAssumption DEF IInv
<1>2. cons' = cons /\ want' = want /\ dst' = dst
  BY DEF write, uartputc, uartstart, uartstart_take, uartstart_thr, uartputc_done, consolewrite, procs
<1>3. \A q \in Readers : pc[q] # "full"
  BY <1>1 DEF CallOK
<1>4. \A q \in Readers : pc'[q] = pc[q]
  <2>1. \/ pc' = pc \/ pc' = Wake("full", "putc") \/ \E s \in States : pc' = [pc EXCEPT ![p] = s]
    BY DEF write, uartputc, uartstart, uartstart_take, uartstart_thr, uartputc_done, consolewrite, procs, States
  <2>2. QED
    BY <1>1, <1>3, <2>1, Names DEF Wake, CallOK
<1>5. QED
  BY <1>2, <1>4, InputQuiet

LEMMA InputHandler ==
  ASSUME IInv, handle \/ printf_char \/ send \/ \E c \in load.keys : receive(c)
  PROVE  [Input!Next]_(Input!vars)
<1>1. CASE consoleintr
  BY <1>1, InputKeys
<1>2. CASE ~consoleintr
  <2>1. cons' = cons /\ want' = want /\ dst' = dst /\ (pc' = pc \/ pc' = Wake("full", "putc"))
    BY <1>2 DEF handle, uartintr, uartgetc, echo_idle, echo_thr, uartintr_send, uartstart,
                uartstart_take, uartstart_thr, uartintr_done, printf_char, send, receive, procs
  <2>2. \A q \in Readers : pc[q] # "full"
    BY DEF IInv, CallOK
  <2>3. \A q \in Readers : pc'[q] = pc[q]
    BY <2>1, <2>2, Names DEF Wake
  <2>4. QED
    BY <2>1, <2>3, InputQuiet
<1>3. QED
  BY <1>1, <1>2

LEMMA InputCalls ==
  ASSUME IInv, NEW p \in Readers, NEW n \in 1 .. MaxCount, consoleread(p, n)
  PROVE  [Input!Next]_(Input!vars)
<1>1. CallOK
  BY DEF IInv
<1>2. /\ pc[p] = "idle" /\ pc' = [pc EXCEPT ![p] = "read"] /\ cons' = cons
      /\ want' = [want EXCEPT ![p] = n] /\ dst' = [dst EXCEPT ![p] = <<>>]
  BY DEF consoleread
<1>3. p \notin Reading /\ Reading' = Reading \cup {p}
  BY <1>1, <1>2, Names DEF Reading, CallOK
<1>4. line' = line /\ ready' = ready
  BY <1>2 DEF line, ready
<1>5. Input!Read(p, n)
  BY <1>2, <1>3, <1>4 DEF Input!Read, line, ready
<1>6. QED
  BY <1>5 DEF Input!Next

LEMMA InputKilled ==
  ASSUME IInv, NEW p \in Procs, kill(p)
  PROVE  [Input!Next]_(Input!vars)
<1>1. CallOK
  BY DEF IInv
<1>2. cons' = cons /\ want' = want /\ dst' = dst
      /\ pc' = [pc EXCEPT ![p] = CASE @ = "wait" -> "read" [] @ = "full" -> "putc" [] OTHER -> @]
  BY DEF kill
<1>3. \A q \in Readers : pc'[q] = pc[q] \/ (pc[q] = "wait" /\ pc'[q] = "read")
  BY <1>1, <1>2, Names DEF CallOK
<1>4. QED
  BY <1>2, <1>3, InputQuiet

LEMMA InputStep ==
  ASSUME IInv, [Next]_vars
  PROVE  [Input!Next]_(Input!vars)
<1>1. CASE UNCHANGED vars
  <2>1. cons' = cons /\ want' = want /\ dst' = dst /\ pc' = pc
    BY <1>1 DEF vars, state, procs
  <2>2. QED
    BY <2>1, InputQuiet
<1>2. CASE Next
  <2>1. \A n \in load.counts : n \in 1 .. MaxCount
    BY TtyAssumption DEF IInv, DeviceOK
  <2>2. Step
    BY <1>2 DEF Next
  <2>3. QED
    BY <2>1, <2>2, InputReads, InputWrites, InputHandler, InputCalls, InputKilled DEF Step
<1>3. QED
  BY <1>1, <1>2

(* Editing and reading: cons.buf with its three indices is a line that is  *)
(* edited and the lines that can be read, for every size of the buffer,    *)
(* however the indices wrap (InputIsLines).                                *)
THEOREM InputRefinement == Spec => InputIsLines
<1>1. Init => Input!Init
  BY InputInit
<1>2. IInv /\ [Next]_vars => [Input!Next]_(Input!vars)
  BY InputStep
<1>3. QED
  BY <1>1, <1>2, Invariance, PTL DEF Spec, InputIsLines, Input!Spec

-----------------------------------------------------------------------------
(* The output refines Fifo: what is on its way to the wire, before what is *)
(* in uart_tx_buf.                                                         *)
queue == Sent \o Between(tx.buf, UART_TX_BUF_SIZE, tx.r, (tx.w - tx.r) % UINT64)

LEMMA OutputMap == queue = Sent \o Queue
<1>1. (tx.w - tx.r) % UINT64 = Distance(tx.r, tx.w, UINT64)
  BY DEF Distance
<1>2. Between(tx.buf, UART_TX_BUF_SIZE, tx.r, (tx.w - tx.r) % UINT64) = Queue
  BY <1>1 DEF Queue, Part, Between, Entry
<1>3. QED
  BY <1>2 DEF queue

LEMMA OutputMapNext == queue' = (Sent \o Queue)'
<1>1. (queue = Sent \o Queue)'
  BY OutputMap, PTL
<1>2. QED
  BY <1>1

LEMMA PutBehind ==
  ASSUME NEW A, NEW s \in Seq(A), NEW t \in Seq(A), NEW x \in A
  PROVE  s \o Append(t, x) = Append(s \o t, x)
<1>1. Append(t, x) \in Seq(A) /\ s \o t \in Seq(A)
  BY Appended, Joined
<1>2. s \o Append(t, x) \in Seq(A) /\ Append(s \o t, x) \in Seq(A)
  BY <1>1, Appended, Joined
<1>3. QED
  BY <1>1, <1>2, SameEntries, SMTT(30)

LEMMA TakeBefore ==
  ASSUME NEW A, NEW t \in Seq(A), NEW x \in A
  PROVE  <<>> \o t = t /\ <<x>> \o t # <<>> /\ Tail(<<x>> \o t) = t
         /\ (t # <<>> => <<Head(t)>> \o Tail(t) = t)
  BY SMTT(30)

(* The character of write() that is on its way.                            *)
OnItsWay == \A i \in DOMAIN fifo : fifo[i] # Sync => Sent = <<fifo[i]>>
InHand == (\A i \in DOMAIN fifo : fifo[i] = Sync) => Sent = IF hand # None THEN <<hand>> ELSE <<>>

LEMMA SentCases == IInv => OnItsWay /\ InHand
<1> SUFFICES ASSUME IInv PROVE OnItsWay /\ InHand
  OBVIOUS
<1>1. ASSUME NEW i \in DOMAIN fifo, fifo[i] # Sync PROVE Sent = <<fifo[i]>>
  <2>1. Written = {i}
    BY <1>1 DEF IInv, FifoInv, Written
  <2>2. (CHOOSE j \in Written : TRUE) = i
    BY <2>1
  <2>3. QED
    BY <2>1, <2>2 DEF Sent
<1>2. ASSUME \A i \in DOMAIN fifo : fifo[i] = Sync
      PROVE  Sent = IF hand # None THEN <<hand>> ELSE <<>>
  <2>1. Written = {}
    BY <1>2 DEF Written
  <2>2. QED
    BY <2>1 DEF Sent
<1>3. QED
  BY <1>1, <1>2 DEF OnItsWay, InHand

LEMMA SentType ==
  ASSUME IInv
  PROVE  Sent \in Seq(Writers) /\ Len(Sent) <= 1
<1>1. LockOK /\ DeviceOK /\ OnItsWay /\ InHand
  BY SentCases DEF IInv
<1>2. CASE \A i \in DOMAIN fifo : fifo[i] = Sync
  <2>1. Sent = <<>> \/ (Sent = <<hand>> /\ hand \in Writers)
    BY <1>1, <1>2 DEF InHand, LockOK, TxChar
  <2>2. CASE Sent = <<>>
    BY <2>2, SMTT(30)
  <2>3. CASE Sent = <<hand>> /\ hand \in Writers
    BY <2>3, SMTT(30)
  <2>4. QED
    BY <2>1, <2>2, <2>3
<1>3. ASSUME NEW i \in DOMAIN fifo, fifo[i] # Sync PROVE Sent \in Seq(Writers) /\ Len(Sent) <= 1
  <2>1. Sent = <<fifo[i]>> /\ fifo[i] \in Writers
    BY <1>1, <1>3, SMTT(30) DEF OnItsWay, DeviceOK
  <2>2. QED
    BY <2>1, SMTT(30)
<1>4. QED
  BY <1>2, <1>3

LEMMA QueueType ==
  ASSUME IInv
  PROVE  Queue \in Seq(TxChar)
  BY TxParts, BufferFacts DEF Queue

(* What each step does to it.                                              *)
LEMMA SentSame ==
  ASSUME fifo' = fifo, hand' = hand
  PROVE  Sent' = Sent
<1>1. Written' = Written
  BY DEF Written
<1>2. QED
  BY <1>1, SMTT(30) DEF Sent

LEMMA SentTaken ==
  ASSUME IInv, IInv', fifo = <<>>, fifo' = <<>>, hand = None, hand' \in Writers
  PROVE  Sent = <<>> /\ Sent' = <<hand'>>
<1>1. Written = {} /\ Written' = {}
  BY SMTT(30) DEF Written
<1>2. QED
  BY <1>1, Names DEF Sent

LEMMA SentOn ==
  ASSUME IInv, IInv', NEW c \in Writers \cup {Sync}, fifo' = Append(fifo, c), rx' = rx, irq' = irq, load' = load,
         \/ c = Sync /\ hand' = hand
         \/ c = hand /\ hand # None /\ hand' = None
  PROVE  Sent' = Sent
<1>1. FifoInv /\ OnItsWay /\ InHand /\ OnItsWay' /\ InHand'
  <2>1. (OnItsWay /\ InHand)'
    BY SentCases, PTL
  <2>2. QED
    BY <2>1, SentCases DEF IInv
<1>2. /\ DOMAIN fifo = 1 .. Len(fifo) /\ DOMAIN fifo' = 1 .. Len(fifo) + 1 /\ Len(fifo) \in Nat
      /\ \A i \in DOMAIN fifo : fifo'[i] = fifo[i]
      /\ fifo'[Len(fifo) + 1] = c
  BY Added
<1>3. \A i \in DOMAIN fifo' : i \in DOMAIN fifo \/ i = Len(fifo) + 1
  BY <1>2, SMTT(30)
<1>4. Len(fifo) + 1 \in DOMAIN fifo' /\ \A i \in DOMAIN fifo : i \in DOMAIN fifo'
  BY <1>2, SMTT(30)
<1>5. CASE \E i \in DOMAIN fifo : fifo[i] # Sync
  BY <1>1, <1>2, <1>4, <1>5 DEF OnItsWay
<1>6. CASE (\A i \in DOMAIN fifo : fifo[i] = Sync) /\ c = Sync /\ hand' = hand
  <2>1. \A i \in DOMAIN fifo' : fifo'[i] = Sync
    BY <1>2, <1>3, <1>6
  <2>2. QED
    BY <1>1, <1>6, <2>1, SMTT(30) DEF InHand
<1>7. CASE (\A i \in DOMAIN fifo : fifo[i] = Sync) /\ c = hand /\ c # Sync /\ hand # None
  BY <1>1, <1>2, <1>4, <1>7 DEF InHand, OnItsWay
<1>8. hand # None => hand # Sync
  BY Names DEF IInv, LockOK, TxChar
<1>9. QED
  BY <1>5, <1>6, <1>7, <1>8

LEMMA SentGoes ==
  ASSUME IInv, IInv', send
  PROVE  Sent' = Sent \/ \E c \in Writers : Sent = <<c>> /\ Sent' = <<>>
<1>1. FifoInv /\ DeviceOK /\ OnItsWay /\ InHand /\ OnItsWay' /\ InHand'
  <2>1. (OnItsWay /\ InHand)'
    BY SentCases, PTL
  <2>2. QED
    BY <2>1, SentCases DEF IInv
<1>2. fifo # <<>> /\ fifo' = Tail(fifo) /\ hand' = hand /\ fifo \in Seq(Writers \cup {Sync})
  BY <1>1 DEF send, DeviceOK
<1>3. /\ DOMAIN fifo = 1 .. Len(fifo) /\ DOMAIN fifo' = 1 .. Len(fifo) - 1
      /\ Len(fifo) \in Nat \ {0}
      /\ \A i \in 1 .. Len(fifo) - 1 : fifo'[i] = fifo[i + 1]
  BY <1>2, SMTT(30)
<1>4. CASE fifo[1] # Sync
  <2>1. 1 \in DOMAIN fifo /\ fifo[1] \in Writers /\ Sent = <<fifo[1]>> /\ hand = None
    BY <1>1, <1>2, <1>3, <1>4, SMTT(30) DEF OnItsWay, FifoInv
  <2>2. \A i \in DOMAIN fifo' : i + 1 \in DOMAIN fifo /\ i + 1 # 1 /\ fifo'[i] = fifo[i + 1]
    BY <1>3, SMTT(30)
  <2>3. \A i \in DOMAIN fifo' : fifo'[i] = Sync
    BY <1>1, <1>4, <2>1, <2>2 DEF FifoInv
  <2>4. Sent' = <<>>
    BY <1>1, <1>2, <2>1, <2>3 DEF InHand
  <2>5. QED
    BY <2>1, <2>4
<1>5. ASSUME NEW i \in DOMAIN fifo, fifo[i] # Sync, fifo[1] = Sync PROVE Sent' = Sent
  <2>1. i - 1 \in DOMAIN fifo' /\ fifo'[i - 1] = fifo[i]
    BY <1>3, <1>5, SMTT(30)
  <2>2. QED
    BY <1>1, <1>5, <2>1 DEF OnItsWay
<1>6. CASE \A i \in DOMAIN fifo : fifo[i] = Sync
  <2>1. \A i \in DOMAIN fifo' : fifo'[i] = Sync
    BY <1>3, <1>6, SMTT(30)
  <2>2. QED
    BY <1>1, <1>2, <1>6, <2>1 DEF InHand
<1>7. QED
  BY <1>4, <1>5, <1>6

OutputStep == [Output!Next]_<<queue, 1, 1>>

LEMMA OutputStutters ==
  ASSUME tx' = tx, Sent' = Sent
  PROVE  OutputStep
<1>1. queue' = queue
  BY DEF queue
<1>2. QED
  BY <1>1 DEF OutputStep

LEMMA OutputPuts ==
  ASSUME IInv, NEW p \in Writers, uartputc(p)
  PROVE  OutputStep
<1>1. Sent' = Sent
  BY SentSame DEF uartputc, device
<1>2. CASE TxFull
  BY <1>1, <1>2, OutputStutters DEF uartputc
<1>3. CASE ~TxFull
  <2>1. Queue' = Append(Queue, p) /\ Len(Queue) < UART_TX_BUF_SIZE
    BY <1>3, PutcStep
  <2>2. queue = Sent \o Queue /\ queue' = Sent \o Append(Queue, p)
    BY <1>1, <2>1, OutputMap, OutputMapNext
  <2>3. Queue \in Seq(TxChar) /\ Sent \in Seq(TxChar) /\ Len(Sent) <= 1 /\ p \in TxChar
    BY QueueType, SentType, SMTT(30) DEF TxChar
  <2>4. queue' = Append(queue, p)
    BY <2>2, <2>3, PutBehind, SMTT(30)
  <2>5. Len(queue) = Len(Sent) + Len(Queue) /\ Len(Sent) \in Nat /\ Len(Queue) \in Nat
    BY <2>2, <2>3, SMTT(30)
  <2>6. Len(queue) < UART_TX_BUF_SIZE + 1
    BY <2>1, <2>3, <2>5, Sizes, SMTT(30)
  <2>7. Output!Put(p)
    BY <2>4, <2>6 DEF Output!Put, queue
  <2>8. QED
    BY <2>7 DEF OutputStep, Output!Next
<1>4. QED
  BY <1>2, <1>3

LEMMA OutputTakes ==
  ASSUME IInv, IInv', NEW t, uartstart_take(t)
  PROVE  OutputStep
<1>1. hand' \in Writers /\ Queue # <<>> /\ hand' = Head(Queue) /\ Queue' = Tail(Queue)
  BY TakeStep
<1>2. Sent = <<>> /\ Sent' = <<hand'>>
  BY <1>1, SentTaken DEF uartstart_take, TxIdle, device
<1>3. queue = <<>> \o Queue /\ queue' = <<Head(Queue)>> \o Tail(Queue)
  BY <1>1, <1>2, OutputMap, OutputMapNext
<1>4. queue' = queue
  BY <1>1, <1>3, QueueType, TakeBefore, SMTT(30) DEF TxChar
<1>5. QED
  BY <1>4 DEF OutputStep

LEMMA OutputSends ==
  ASSUME IInv, IInv', send
  PROVE  OutputStep
<1>1. tx' = tx
  BY DEF send
<1>2. CASE Sent' = Sent
  BY <1>1, <1>2, OutputStutters
<1>3. ASSUME NEW c \in Writers, Sent = <<c>>, Sent' = <<>> PROVE OutputStep
  <2>1. Queue' = Queue
    BY <1>1 DEF Queue
  <2>2. queue = <<c>> \o Queue /\ queue' = <<>> \o Queue
    BY <1>3, <2>1, OutputMap, OutputMapNext
  <2>3. queue # <<>> /\ queue' = Tail(queue)
    BY <2>2, QueueType, TakeBefore, SMTT(30) DEF TxChar
  <2>4. Output!Get
    BY <2>3 DEF Output!Get, queue
  <2>5. QED
    BY <2>4 DEF OutputStep, Output!Next
<1>4. QED
  BY <1>2, <1>3, SentGoes

(* Steps that leave the output alone.                                      *)
LEMMA OutputQuiet ==
  ASSUME tx' = tx, fifo' = fifo, hand' = hand
  PROVE  OutputStep
  BY SentSame, OutputStutters

LEMMA OutputStart ==
  ASSUME IInv, IInv', load' = load, NEW t, uartstart(t)
  PROVE  OutputStep
<1>1. CASE uartstart_take(t)
  BY <1>1, OutputTakes
<1>2. CASE uartstart_thr(t)
  <2>1. /\ fifo' = Append(fifo, hand) /\ hand # None /\ hand' = None /\ rx' = rx /\ irq' = irq
        /\ tx' = tx
    BY <1>2 DEF uartstart_thr
  <2>2. hand \in Writers \cup {Sync}
    BY <2>1 DEF IInv, LockOK, TxChar
  <2>3. Sent' = Sent
    BY <2>1, <2>2, SentOn
  <2>4. QED
    BY <2>1, <2>3, OutputStutters
<1>3. QED
  BY <1>1, <1>2 DEF uartstart

LEMMA OutputSyncs ==
  ASSUME IInv, IInv', load' = load, echo_thr \/ printf_char
  PROVE  OutputStep
<1>1. tx' = tx /\ hand' = hand /\ rx' = rx /\ irq' = irq /\ (fifo' = fifo \/ fifo' = Append(fifo, Sync))
  BY DEF echo_thr, printf_char
<1>2. CASE fifo' = fifo
  BY <1>1, <1>2, OutputQuiet
<1>3. CASE fifo' = Append(fifo, Sync)
  <2>1. Sent' = Sent
    BY <1>1, <1>3, SentOn
  <2>2. QED
    BY <1>1, <2>1, OutputStutters
<1>4. QED
  BY <1>1, <1>2, <1>3

LEMMA OutputNext ==
  ASSUME IInv, [Next]_vars
  PROVE  OutputStep
<1>1. IInv'
  BY NextInv
<1>2. CASE UNCHANGED vars
  BY <1>2, OutputQuiet DEF vars, state, device
<1>3. CASE Next
  <2>1. load' = load /\ Step
    BY <1>3 DEF Next
  <2>2. ASSUME NEW p \in Writers, write(p) PROVE OutputStep
    <3>1. uartputc_done(p) => OutputStep
      BY OutputQuiet DEF uartputc_done, device
    <3>2. QED
      BY <1>1, <2>1, <2>2, <3>1, OutputPuts, OutputStart DEF write
  <2>3. ASSUME handle \/ printf_char \/ send PROVE OutputStep
    <3>1. uartintr \/ uartgetc \/ echo_idle \/ consoleintr \/ uartintr_send \/ uartintr_done
            => tx' = tx /\ fifo' = fifo /\ hand' = hand
      BY DEF uartintr, uartgetc, echo_idle, consoleintr, uartintr_send, uartintr_done, device
    <3>2. QED
      BY <1>1, <2>1, <2>3, <3>1, OutputQuiet, OutputStart, OutputSyncs, OutputSends DEF handle
  <2>4. ASSUME ~(\E p \in Writers : write(p)), ~(handle \/ printf_char \/ send)
        PROVE  tx' = tx /\ fifo' = fifo /\ hand' = hand
    BY <2>1, <2>4 DEF Step, consoleread_loop, kill, consolewrite, consoleread, receive, device
  <2>5. QED
    BY <2>2, <2>3, <2>4, OutputQuiet
<1>4. QED
  BY <1>2, <1>3

LEMMA OutputInit == Init => Output!Init
<1> SUFFICES ASSUME Init PROVE Output!Init
  OBVIOUS
<1>1. /\ Written = {} /\ hand = None /\ tx.r = 0 /\ tx.w = 0
  BY SMTT(30) DEF Init, Written
<1>2. (tx.w - tx.r) % UINT64 = 0
  BY <1>1, Sizes, SMTT(30)
<1>3. \A d : Between(d, UART_TX_BUF_SIZE, 0, 0) = <<>>
  BY SMTT(30) DEF Between
<1>4. queue = <<>>
  BY <1>1, <1>2, <1>3, SMTT(30) DEF queue, Sent
<1>5. QED
  BY <1>4 DEF Output!Init, queue

(* Output: the characters of write() reach the wire once each and in the   *)
(* order in which uartputc() took them, for any number of writers, any     *)
(* size of the buffer and however the indices wrap (OutputIsFifo).         *)
THEOREM OutputRefinement == Spec => OutputIsFifo
<1>1. Init => Output!Init
  BY OutputInit
<1>2. IInv /\ [Next]_vars => [Output!Next]_<<queue, 1, 1>>
  BY OutputNext DEF OutputStep
<1>3. QED
  BY <1>1, <1>2, Invariance, PTL DEF Spec, OutputIsFifo, Output!Spec, queue
=============================================================================
