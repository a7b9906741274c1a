-------------------------------- MODULE Tty ---------------------------------
(***************************************************************************)
(* kernel/console.c and kernel/uart.c: processes that read() and write()   *)
(* the console, the interrupt handler, a CPU that calls printf(), and the  *)
(* UART.  Only uart_tx_lock and cons.lock order them; uartputc_sync()      *)
(* takes neither.                                                          *)
(***************************************************************************)
EXTENDS Integers, Sequences

CONSTANTS Readers, Writers,
          INPUT_BUF, UART_TX_BUF_SIZE,
          UINT,         \* the indices of cons.buf are taken modulo UINT (2^32)
          UINT64,       \* and those of uart_tx_buf modulo UINT64 (2^64)
          TXFIFO,       \* characters the UART's transmitter holds (16)
          MaxCount,     \* largest count of a read() or write()
          Loads         \* who is active in a behaviour, and the keys that are hit

Procs == Readers \cup Writers

Stored == {"a", "nl", "eof"}                    \* any character, '\n', C('D')
Keys == Stored \cup {"bs", "kill", "ps"}        \* C('H'), C('U'), C('P')
None == "none"
Intr == "intr"          \* the interrupt handler, as the holder of a lock
Sync == "sync"          \* a character that uartputc_sync() sends

ASSUME TtyAssumption ==
  /\ {INPUT_BUF, UART_TX_BUF_SIZE, UINT, UINT64, TXFIFO, MaxCount} \subseteq Nat \ {0}
  /\ UINT % INPUT_BUF = 0 /\ UINT > INPUT_BUF
  /\ UINT64 % UART_TX_BUF_SIZE = 0 /\ UINT64 > UART_TX_BUF_SIZE
  /\ TXFIFO >= 3
  /\ Readers \cap Writers = {} /\ Procs \cap {None, Intr, Sync} = {}
  /\ \A l \in Loads : /\ l.procs \subseteq Procs /\ l.keys \subseteq Keys
                     /\ l.counts \subseteq 1 .. MaxCount

VARIABLES cons,         \* cons.r, cons.w, cons.e, cons.buf
          tx,           \* uart_tx_r, uart_tx_w, uart_tx_buf
          conslock, txlock, \* who holds cons.lock and uart_tx_lock, or None
          hand,         \* the character uartstart() is about to write to THR
          pc,           \* where a process is
          left,         \* characters left in consolewrite()
          want, dst,    \* consoleread()'s target, and what it has copied
          killed,       \* p->killed
          intr,         \* uartintr(): where it is, its character, the echoes left
          printf,       \* the CPU in printf()
          rx, fifo,     \* the UART's receiver and transmitter
          irq,          \* its interrupt is pending
          load          \* a member of Loads, which never changes

procs == <<pc, left, want, dst, killed>>
locks == <<conslock, txlock>>
device == <<rx, fifo, irq>>
state == <<cons, tx, hand, intr, printf, procs, locks, device>>
vars == <<state, load>>

TypeOK ==
  /\ cons \in [r : 0 .. UINT - 1, w : 0 .. UINT - 1, e : 0 .. UINT - 1,
               buf : [0 .. INPUT_BUF - 1 -> Stored \cup {None}]]
  /\ tx \in [r : 0 .. UINT64 - 1, w : 0 .. UINT64 - 1,
             buf : [0 .. UART_TX_BUF_SIZE - 1 -> Writers \cup {None}]]
  /\ conslock \in Procs \cup {None, Intr} /\ txlock \in Procs \cup {None, Intr}
  /\ hand \in Writers \cup {None} /\ (hand # None => txlock # None)
  /\ pc \in [Procs -> {"idle", "putc", "full", "start", "read", "wait"}]
  /\ left \in [Writers -> 0 .. MaxCount] /\ want \in [Readers -> 0 .. MaxCount]
  /\ \A p \in Readers : dst[p] \in Seq({"a", "nl"}) /\ Len(dst[p]) <= want[p]
  /\ killed \in [Readers -> BOOLEAN]
  /\ intr \in [at : {"off", "getc", "echo", "thr", "tx", "start"}, c : Keys \cup {None},
               n : 0 .. INPUT_BUF]
  /\ printf \in {"idle", "put", "thr"}
  /\ rx \in Keys \cup {None} /\ irq \in BOOLEAN
  /\ fifo \in Seq(Writers \cup {Sync})
  /\ load \in Loads

Init ==
  /\ cons = [r |-> 0, w |-> 0, e |-> 0, buf |-> [i \in 0 .. INPUT_BUF - 1 |-> None]]
  /\ tx = [r |-> 0, w |-> 0, buf |-> [i \in 0 .. UART_TX_BUF_SIZE - 1 |-> None]]
  /\ conslock = None /\ txlock = None /\ hand = None
  /\ pc = [p \in Procs |-> "idle"] /\ killed = [p \in Readers |-> FALSE]
  /\ left = [p \in Writers |-> 0]
  /\ want = [p \in Readers |-> 0] /\ dst = [p \in Readers |-> <<>>]
  /\ intr = [at |-> "off", c |-> None, n |-> 0] /\ printf = "idle"
  /\ rx = None /\ fifo = <<>> /\ irq = FALSE
  /\ load \in Loads

Plus(i, n) == (i + n) % UINT
TxPlus(i, n) == (i + n) % UINT64
Wake(from, to) == [p \in Procs |-> IF pc[p] = from THEN to ELSE pc[p]]

-----------------------------------------------------------------------------
(* A character is the process that wrote it.                               *)
consolewrite(p, n) ==
  /\ pc[p] = "idle"
  /\ pc' = [pc EXCEPT ![p] = "putc"]
  /\ left' = [left EXCEPT ![p] = n]
  /\ UNCHANGED <<cons, tx, hand, intr, printf, want, dst, killed, locks, device>>

(* Mutant: the buffer is never full.                                       *)
TxFull_Mutant == FALSE
TxFull == tx.w = TxPlus(tx.r, UART_TX_BUF_SIZE)

uartputc(p) ==
  /\ pc[p] = "putc" /\ txlock = None
  /\ IF TxFull
       THEN pc' = [pc EXCEPT ![p] = "full"] /\ UNCHANGED <<tx, txlock>>
       ELSE /\ tx' = [tx EXCEPT !.buf[tx.w % UART_TX_BUF_SIZE] = p, !.w = TxPlus(@, 1)]
            /\ txlock' = p
            /\ pc' = [pc EXCEPT ![p] = "start"]
  /\ UNCHANGED <<cons, hand, intr, printf, left, want, dst, killed, conslock, device>>

(* LSR_TX_IDLE.                                                            *)
TxIdle == fifo = <<>>

uartstart_take(t) ==
  /\ txlock = t /\ hand = None
  /\ tx.w # tx.r /\ TxIdle
  /\ hand' = tx.buf[tx.r % UART_TX_BUF_SIZE]
  /\ tx' = [tx EXCEPT !.r = TxPlus(@, 1), !.buf[tx.r % UART_TX_BUF_SIZE] = None]
  /\ pc' = Wake("full", "putc")
  /\ UNCHANGED <<cons, intr, printf, left, want, dst, killed, locks, device>>

uartstart_thr(t) ==
  /\ txlock = t /\ hand # None
  /\ fifo' = Append(fifo, hand)
  /\ hand' = None
  /\ UNCHANGED <<cons, tx, intr, printf, procs, locks, rx, irq>>

uartstart_done(t) == txlock = t /\ hand = None /\ (tx.w = tx.r \/ ~TxIdle)

(* uartputc() returns; consolewrite() goes on, or ends because all is      *)
(* written or either_copyin() fails.                                       *)
uartputc_done(p) ==
  /\ uartstart_done(p)
  /\ txlock' = None
  /\ LET more == left[p] > 1
     IN \/ /\ more
           /\ left' = [left EXCEPT ![p] = @ - 1] /\ pc' = [pc EXCEPT ![p] = "putc"]
        \/ left' = [left EXCEPT ![p] = 0] /\ pc' = [pc EXCEPT ![p] = "idle"]
  /\ UNCHANGED <<cons, tx, hand, intr, printf, want, dst, killed, conslock, device>>

-----------------------------------------------------------------------------
consoleread(p, n) ==
  /\ pc[p] = "idle"
  /\ pc' = [pc EXCEPT ![p] = "read"]
  /\ want' = [want EXCEPT ![p] = n] /\ dst' = [dst EXCEPT ![p] = <<>>]
  /\ UNCHANGED <<cons, tx, hand, intr, printf, left, killed, locks, device>>

(* p returns to user space, where a killed process exits.                  *)
Return(p) ==
  /\ conslock' = None
  /\ pc' = [pc EXCEPT ![p] = "idle"]
  /\ killed' = [killed EXCEPT ![p] = FALSE]

(* Mutant: the end of file is consumed although something was read.        *)
SaveEof_Mutant(p) == FALSE
SaveEof(p) == dst[p] # <<>>

(* One round of the loop of consoleread(), which p enters and leaves with  *)
(* cons.lock.  Either either_copyout() succeeds or it fails.               *)
consoleread_loop(p) ==
  LET c == cons.buf[cons.r % INPUT_BUF]
      next == [cons EXCEPT !.r = Plus(@, 1), !.buf[cons.r % INPUT_BUF] = None]
  IN /\ pc[p] = "read" /\ conslock \in {None, p}
     /\ \/ /\ cons.r = cons.w /\ killed[p]
           /\ Return(p) /\ UNCHANGED <<cons, dst>>
        \/ /\ cons.r = cons.w /\ ~killed[p]
           /\ conslock' = None /\ pc' = [pc EXCEPT ![p] = "wait"]
           /\ UNCHANGED <<cons, dst, killed>>
        \/ /\ cons.r # cons.w /\ c = "eof"
           /\ cons' = IF SaveEof(p) THEN cons ELSE next
           /\ Return(p) /\ UNCHANGED dst
        \/ /\ cons.r # cons.w /\ c # "eof"
           /\ cons' = next
           /\ dst' = [dst EXCEPT ![p] = Append(@, c)]
           /\ IF c = "nl" \/ Len(dst'[p]) = want[p] THEN Return(p)
              ELSE conslock' = p /\ UNCHANGED <<pc, killed>>
        \/ /\ cons.r # cons.w /\ c # "eof"
           /\ cons' = next /\ Return(p) /\ UNCHANGED dst
     /\ UNCHANGED <<tx, hand, intr, printf, left, want, txlock, device>>

(* kill(): a process that sleeps is made runnable (proc.c:593-596).        *)
(* uartputc() does not look at p->killed.                                  *)
kill(p) ==
  /\ IF p \in Readers
       THEN /\ pc[p] # "idle" /\ ~killed[p]
            /\ killed' = [killed EXCEPT ![p] = TRUE]
       ELSE pc[p] = "full" /\ UNCHANGED killed
  /\ pc' = [pc EXCEPT ![p] = CASE @ = "wait" -> "read" [] @ = "full" -> "putc" [] OTHER -> @]
  /\ UNCHANGED <<cons, tx, hand, intr, printf, left, want, dst, locks, device>>

-----------------------------------------------------------------------------
(* uartintr(), which plic_claim() gives to one CPU at a time.              *)
uartintr ==
  /\ irq /\ intr.at = "off"
  /\ irq' = FALSE
  /\ intr' = [intr EXCEPT !.at = "getc"]
  /\ UNCHANGED <<cons, tx, hand, printf, procs, locks, rx, fifo>>

Minus(i, j) == (i - j) % UINT

HasRoom == Minus(cons.e, cons.r) < INPUT_BUF

(* The characters consputc() sends for key c, those of a BACKSPACE as one. *)
(* procdump() is one printf().                                             *)
Echoes(c) ==
  CASE c = "ps" -> 1
    [] c = "kill" -> Minus(cons.e, cons.w)
    [] c = "bs" -> IF cons.e # cons.w THEN 1 ELSE 0
    [] OTHER -> IF HasRoom THEN 1 ELSE 0

(* uartgetc(), and consoleintr() up to its echo: with the lock of printf() *)
(* in the case of procdump().                                              *)
uartgetc ==
  /\ intr.at = "getc"
  /\ IF rx = None
       THEN intr' = [intr EXCEPT !.at = "tx"] /\ UNCHANGED <<conslock, rx>>
       ELSE /\ conslock = None /\ (rx = "ps" => printf = "idle")
            /\ conslock' = Intr
            /\ intr' = [at |-> "echo", c |-> rx, n |-> Echoes(rx)]
            /\ rx' = None
  /\ UNCHANGED <<cons, tx, hand, printf, procs, txlock, fifo, irq>>

(* uartputc_sync() of the handler.  Mutant: it does not wait.              *)
echo_idle_Mutant ==
  /\ intr.at = "echo" /\ intr.n > 0
  /\ intr' = [intr EXCEPT !.at = "thr"]
  /\ UNCHANGED <<cons, tx, hand, printf, procs, locks, device>>

echo_idle ==
  /\ intr.at = "echo" /\ intr.n > 0 /\ fifo = <<>>
  /\ intr' = [intr EXCEPT !.at = "thr"]
  /\ UNCHANGED <<cons, tx, hand, printf, procs, locks, device>>

echo_thr ==
  /\ intr.at = "thr"
  /\ fifo' = Append(fifo, Sync)
  /\ intr' = [intr EXCEPT !.at = "echo", !.n = @ - 1]
  /\ UNCHANGED <<cons, tx, hand, printf, procs, locks, rx, irq>>

Delivers(c) == c \in {"nl", "eof"} \/ Plus(cons.e, 1) = Plus(cons.r, INPUT_BUF)

(* Mutant: consoleread() is not told.                                      *)
WakeReaders_Mutant == pc
WakeReaders == Wake("wait", "read")

Erased(n) ==
  LET e == Minus(cons.e, n)
  IN [cons EXCEPT !.e = e,
                  !.buf = [i \in DOMAIN @ |-> IF \E k \in 0 .. n - 1 : i = (e + k) % INPUT_BUF
                                              THEN None ELSE @[i]]]

(* The end of consoleintr(): what the key does to the buffer.  A newline   *)
(* is delivered at once, so the kill stops at cons.w.                      *)
consoleintr ==
  LET c == intr.c
      e == Plus(cons.e, 1)
      put == [cons EXCEPT !.e = e, !.buf[cons.e % INPUT_BUF] = c]
      stores == c \in Stored /\ HasRoom
  IN /\ intr.at = "echo" /\ intr.n = 0
     /\ cons' = CASE c = "kill" -> Erased(Minus(cons.e, cons.w))
                  [] c = "bs" /\ cons.e # cons.w -> Erased(1)
                  [] stores -> IF Delivers(c) THEN [put EXCEPT !.w = e] ELSE put
                  [] OTHER -> cons
     /\ pc' = IF stores /\ Delivers(c) THEN WakeReaders ELSE pc
     /\ conslock' = None
     /\ intr' = [at |-> "getc", c |-> None, n |-> 0]
     /\ UNCHANGED <<tx, hand, printf, left, want, dst, killed, txlock, device>>

(* Mutant: uartintr() only reads.                                          *)
IntrSends_Mutant == "off"
IntrSends == "start"

uartintr_send ==
  /\ intr.at = "tx" /\ txlock = None
  /\ intr' = [intr EXCEPT !.at = IntrSends]
  /\ txlock' = IF intr'.at = "off" THEN None ELSE Intr
  /\ UNCHANGED <<cons, tx, hand, printf, procs, conslock, device>>

(* plic_complete().                                                        *)
uartintr_done ==
  /\ intr.at = "start" /\ uartstart_done(Intr)
  /\ txlock' = None
  /\ intr' = [intr EXCEPT !.at = "off"]
  /\ UNCHANGED <<cons, tx, hand, printf, procs, conslock, device>>

-----------------------------------------------------------------------------
(* A character of printf() on another CPU.                                 *)
printf_char ==
  /\ \/ printf = "idle" /\ load.printf /\ intr.c # "ps" /\ printf' = "put" /\ UNCHANGED fifo
     \/ printf = "put" /\ fifo = <<>> /\ printf' = "thr" /\ UNCHANGED fifo
     \/ printf = "thr" /\ fifo' = Append(fifo, Sync) /\ printf' = "idle"
  /\ UNCHANGED <<cons, tx, hand, intr, procs, locks, rx, irq>>

(* The UART receives a key, and sends a character; it interrupts when it   *)
(* has received one and when it has nothing left to send.                  *)
receive(c) ==
  /\ rx = None
  /\ rx' = c /\ irq' = TRUE
  /\ UNCHANGED <<cons, tx, hand, intr, printf, procs, locks, fifo>>

send ==
  /\ fifo # <<>>
  /\ fifo' = Tail(fifo)
  /\ irq' = (irq \/ fifo' = <<>>)
  /\ UNCHANGED <<cons, tx, hand, intr, printf, procs, locks, rx>>

-----------------------------------------------------------------------------
uartstart(t) == uartstart_take(t) \/ uartstart_thr(t)
write(p) == uartputc(p) \/ uartstart(p) \/ uartputc_done(p)
handle == uartintr \/ uartgetc \/ echo_idle \/ echo_thr \/ consoleintr
          \/ uartintr_send \/ uartstart(Intr) \/ uartintr_done

Step ==
  \/ \E p \in Writers : write(p)
  \/ \E p \in Readers : consoleread_loop(p)
  \/ \E p \in Procs : kill(p)
  \/ handle \/ printf_char \/ send
  \/ \E p \in Writers \cap load.procs, n \in load.counts : consolewrite(p, n)
  \/ \E p \in Readers \cap load.procs, n \in load.counts : consoleread(p, n)
  \/ \E c \in load.keys : receive(c)

Next == Step /\ UNCHANGED load

Spec == Init /\ [][Next]_vars

(* A process that holds a lock or can take it and keeps being able to runs *)
(* on, the UART sends, and interrupts are taken and handled.               *)
FairSpec ==
  /\ Spec
  /\ \A p \in Writers : WF_state(write(p))
  /\ \A p \in Readers : WF_state(consoleread_loop(p))
  /\ WF_state(handle) /\ WF_state(send) /\ WF_state(printf # "idle" /\ printf_char)

-----------------------------------------------------------------------------
Between(buf, size, i, n) == [k \in 1 .. n |-> buf[(i + k - 1) % size]]

(* Input: cons.buf with its three indices is a line that is edited and the *)
(* lines that can be read, and no read() sees anything else (Lines).       *)
Reading == {p \in Readers : pc[p] \in {"read", "wait"}}
Input == INSTANCE Lines WITH
  Procs <- Readers, Capacity <- INPUT_BUF,
  line <- Between(cons.buf, INPUT_BUF, cons.w, Minus(cons.e, cons.w)),
  ready <- Between(cons.buf, INPUT_BUF, cons.r, Minus(cons.w, cons.r)),
  open <- Reading, want <- want, got <- dst
InputIsLines == Input!Spec

(* Output: the characters of write() reach the wire once each and in the   *)
(* order in which uartputc() took them, whoever calls uartstart() and      *)
(* however many characters are echoed in between (Fifo).  Only one of them *)
(* is on its way at a time, from uartstart() through the transmitter.      *)
Written == {i \in DOMAIN fifo : fifo[i] # Sync}
Sent == IF Written # {} THEN <<fifo[CHOOSE i \in Written : TRUE]>>
        ELSE IF hand # None THEN <<hand>> ELSE <<>>
Output == INSTANCE Fifo WITH
  Bytes <- Writers, Capacity <- UART_TX_BUF_SIZE + 1,
  queue <- Sent \o Between(tx.buf, UART_TX_BUF_SIZE, tx.r, (tx.w - tx.r) % UINT64),
  readopen <- 1, writeopen <- 1
OutputIsFifo == Output!Spec

(* uartputc_sync() tests and writes the transmitter without the lock that  *)
(* uartstart() holds, but the UART's FIFO has room for all who may do so   *)
(* at once: the sender, the handler and one printf().                      *)
NoOverrun == Len(fifo) <= TXFIFO

(* The types hold, and no wakeup is lost: who sleeps in uartputc() or      *)
(* consoleread() has reason to (uart.c:97-100, 157; console.c:91-97, 172). *)
SleepIsJustified ==
  /\ TypeOK
  /\ \A p \in Procs : /\ pc[p] = "full" => tx.w = TxPlus(tx.r, UART_TX_BUF_SIZE)
                      /\ pc[p] = "wait" => cons.r = cons.w

(* Unless echoes and printf() never end, which may keep the transmitter    *)
(* busy whenever uartstart() looks at it, the oldest character of          *)
(* uart_tx_buf is taken, whoever refills the buffer meanwhile, and who     *)
(* waits for room in it is woken; another writer may be faster each time.  *)
OutputDrains ==
  <>[](intr.at \notin {"echo", "thr"} /\ printf = "idle")
    => /\ \A i \in 0 .. UINT64 - 1 : tx.r = i /\ tx.w # i ~> tx.r # i
       /\ \A p \in Writers : pc[p] = "full" ~> pc[p] # "full"
=============================================================================
