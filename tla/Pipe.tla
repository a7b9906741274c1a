-------------------------------- MODULE Pipe --------------------------------
(***************************************************************************)
(* A pipe of kernel/pipe.c shared by processes that hold its write end and *)
(* processes that hold its read end.  pi->lock is held across the loops    *)
(* of pipewrite() and piperead(), which go byte by byte; sleep() gives it  *)
(* up.  A process asleep is at "sleep"; wakeup() and kill() send it to     *)
(* "relock", where it waits for pi->lock again.  A process closes its end  *)
(* between two calls; the last close of an end is pipeclose().             *)
(***************************************************************************)
EXTENDS Integers, FiniteSets

CONSTANTS Writers, Readers,  \* the processes that hold each end
          Bytes,
          PIPESIZE,
          UINT,              \* 2^32, the modulus of nread and nwrite
          Counts,            \* the byte counts n of calls
          Free               \* nobody holds pi->lock

Procs == Writers \cup Readers

ASSUME PipeAssumption ==
  /\ Writers \cap Readers = {} /\ Free \notin Procs
  /\ PIPESIZE \in Nat \ {0} /\ UINT \in Nat
  /\ PIPESIZE < UINT /\ UINT % PIPESIZE = 0
  /\ Counts \subseteq Nat

VARIABLES
  data, nread, nwrite, readopen, writeopen, lock, \* the fields of struct pipe
  freed,    \* kfree(pi) has been called
  pc,       \* where a process is in pipewrite() or piperead()
  left,     \* n - i: the bytes its call has still to move
  killed,   \* pr->killed
  open      \* the processes whose file descriptor is open

pipe == <<data, nread, nwrite, readopen, writeopen, lock, freed>>
vars == <<pipe, pc, left, killed, open>>

PCs == {"user", "lock", "loop", "wait", "sleep", "relock", "copy"}

TypeOK ==
  /\ data \in [0 .. PIPESIZE - 1 -> Bytes]
  /\ nread \in 0 .. UINT - 1 /\ nwrite \in 0 .. UINT - 1
  /\ readopen \in {0, 1} /\ writeopen \in {0, 1}
  /\ lock \in Procs \cup {Free}
  /\ freed \in BOOLEAN
  /\ pc \in [Procs -> PCs]
  /\ left \in [Procs -> Nat]
  /\ killed \in [Procs -> BOOLEAN]
  /\ open \subseteq Procs

(* After pipealloc() and the forks that share the descriptors.             *)
Init ==
  /\ data \in [0 .. PIPESIZE - 1 -> Bytes]
  /\ nread = 0 /\ nwrite = 0
  /\ readopen = 1 /\ writeopen = 1
  /\ lock = Free
  /\ freed = FALSE
  /\ pc = [p \in Procs |-> "user"]
  /\ left = [p \in Procs |-> 0]
  /\ killed = [p \in Procs |-> FALSE]
  /\ open = Procs

-----------------------------------------------------------------------------
(* Mutant: a full test off by one.                                         *)
Full_Mutant == nwrite = (nread + PIPESIZE + 1) % UINT

Inc(x) == (x + 1) % UINT
Full == nwrite = (nread + PIPESIZE) % UINT
Empty == nread = nwrite

Goto(p, l) == pc' = [pc EXCEPT ![p] = l]

(* pc after wakeup() of the sleepers in S, for a caller that goes to l.    *)
Wake(S, p, l) ==
  [q \in Procs |-> IF q = p THEN l
                   ELSE IF q \in S /\ pc[q] = "sleep" THEN "relock" ELSE pc[q]]

(* read() or write() of m bytes; a killed process makes no more calls.     *)
call(p, m) ==
  /\ pc[p] = "user" /\ p \in open /\ ~killed[p]
  /\ Goto(p, "lock")
  /\ left' = [left EXCEPT ![p] = m]
  /\ UNCHANGED <<pipe, killed, open>>

(* acquire(&pi->lock), on entry or at the end of sleep().                  *)
acquire(p) ==
  /\ pc[p] \in {"lock", "relock"}
  /\ lock = Free
  /\ lock' = p
  /\ Goto(p, "loop")
  /\ UNCHANGED <<data, nread, nwrite, readopen, writeopen, freed, left, killed, open>>

(* wakeup() of the processes in S, release(&pi->lock) and return.          *)
Return(p, S) ==
  /\ pc' = Wake(S, p, "user")
  /\ lock' = Free
  /\ left' = [left EXCEPT ![p] = 0]

(* One iteration of pipewrite()'s loop, or what follows it.                *)
pipewrite(p, b) ==
  /\ p \in Writers /\ pc[p] = "loop"
  /\ IF left[p] = 0
       THEN Return(p, Readers) /\ UNCHANGED <<data, nwrite>>
     ELSE IF readopen = 0 \/ killed[p]
       THEN Return(p, {}) /\ UNCHANGED <<data, nwrite>>
     ELSE IF Full
       THEN Goto(p, "wait") /\ UNCHANGED <<data, nwrite, left, lock>>
       ELSE /\ data' = [data EXCEPT ![nwrite % PIPESIZE] = b]
            /\ nwrite' = Inc(nwrite)
            /\ left' = [left EXCEPT ![p] = @ - 1]
            /\ UNCHANGED <<pc, lock>>
  /\ UNCHANGED <<nread, readopen, writeopen, freed, killed, open>>

(* Mutant: a writer sleeps on the full pipe without waking the readers.    *)
sleep_Mutant(p) ==
  /\ pc[p] = "wait"
  /\ Goto(p, "sleep")
  /\ lock' = Free
  /\ UNCHANGED <<data, nread, nwrite, readopen, writeopen, freed, left, killed, open>>

(* A writer wakes the readers before it sleeps on the full pipe; a reader  *)
(* just sleeps.                                                            *)
sleep(p) ==
  /\ pc[p] = "wait"
  /\ pc' = Wake(IF p \in Writers THEN Readers ELSE {}, p, "sleep")
  /\ lock' = Free
  /\ UNCHANGED <<data, nread, nwrite, readopen, writeopen, freed, left, killed, open>>

(* copyin() of the next byte fails, which ends pipewrite()'s loop.         *)
pipewrite_fault(p) ==
  /\ p \in Writers /\ pc[p] = "loop"
  /\ left[p] > 0 /\ readopen = 1 /\ ~killed[p] /\ ~Full
  /\ Return(p, Readers)
  /\ UNCHANGED <<data, nread, nwrite, readopen, writeopen, freed, killed, open>>

(* Mutant: at the end of the file the reader tries again.                  *)
piperead_Mutant(p) ==
  /\ p \in Readers /\ pc[p] = "loop"
  /\ IF ~Empty THEN Goto(p, "copy") /\ UNCHANGED <<left, lock>>
     ELSE IF killed[p] THEN Return(p, {})
     ELSE IF writeopen = 1 THEN Goto(p, "wait") /\ UNCHANGED <<left, lock>>
     ELSE Goto(p, "lock") /\ lock' = Free /\ UNCHANGED left
  /\ UNCHANGED <<data, nread, nwrite, readopen, writeopen, freed, killed, open>>

(* The first loop of piperead().                                           *)
piperead(p) ==
  /\ p \in Readers /\ pc[p] = "loop"
  /\ IF Empty /\ writeopen = 1
       THEN IF killed[p]
              THEN Return(p, {})
              ELSE Goto(p, "wait") /\ UNCHANGED <<left, lock>>
       ELSE Goto(p, "copy") /\ UNCHANGED <<left, lock>>
  /\ UNCHANGED <<data, nread, nwrite, readopen, writeopen, freed, killed, open>>

(* One iteration of its second loop, or what follows it.  A byte whose     *)
(* copyout() fails has left the pipe all the same.                         *)
piperead_copy(p, copied) ==
  /\ p \in Readers /\ pc[p] = "copy"
  /\ IF left[p] = 0 \/ Empty
       THEN /\ copied
            /\ Return(p, Writers)
            /\ UNCHANGED nread
       ELSE /\ nread' = Inc(nread)
            /\ IF copied
                 THEN /\ left' = [left EXCEPT ![p] = @ - 1]
                      /\ UNCHANGED <<pc, lock>>
                 ELSE Return(p, Writers)
  /\ UNCHANGED <<data, nwrite, readopen, writeopen, freed, killed, open>>

(* kill(): a sleeping victim wakes up.                                     *)
kill(p) ==
  /\ ~killed[p]
  /\ killed' = [killed EXCEPT ![p] = TRUE]
  /\ Goto(p, IF pc[p] = "sleep" THEN "relock" ELSE pc[p])
  /\ UNCHANGED <<pipe, left, open>>

(* Mutant: pipeclose() frees the pipe at the first close.                  *)
close_Early(p) ==
  /\ pc[p] = "user" /\ p \in open
  /\ open' = open \ {p}
  /\ IF open' \cap Writers = {} /\ p \in Writers
       THEN /\ lock = Free
            /\ writeopen' = 0
            /\ freed' = TRUE
            /\ pc' = Wake(Readers, p, "user")
            /\ UNCHANGED readopen
     ELSE IF open' \cap Readers = {} /\ p \in Readers
       THEN /\ lock = Free
            /\ readopen' = 0
            /\ freed' = TRUE
            /\ pc' = Wake(Writers, p, "user")
            /\ UNCHANGED writeopen
       ELSE UNCHANGED <<readopen, writeopen, freed, pc>>
  /\ UNCHANGED <<data, nread, nwrite, lock, left, killed>>

(* fileclose() by p, which is pipeclose() when p is the last at its end.   *)
close(p) ==
  /\ pc[p] = "user" /\ p \in open
  /\ open' = open \ {p}
  /\ IF open' \cap Writers = {} /\ p \in Writers
       THEN /\ lock = Free
            /\ writeopen' = 0
            /\ freed' = (readopen = 0)
            /\ pc' = Wake(Readers, p, "user")
            /\ UNCHANGED readopen
     ELSE IF open' \cap Readers = {} /\ p \in Readers
       THEN /\ lock = Free
            /\ readopen' = 0
            /\ freed' = (writeopen = 0)
            /\ pc' = Wake(Writers, p, "user")
            /\ UNCHANGED writeopen
       ELSE UNCHANGED <<readopen, writeopen, freed, pc>>
  /\ UNCHANGED <<data, nread, nwrite, lock, left, killed>>

-----------------------------------------------------------------------------
Kernel(p) ==
  \/ acquire(p) \/ sleep(p)
  \/ \E b \in Bytes : pipewrite(p, b)
  \/ piperead(p) \/ piperead_copy(p, TRUE)

Next ==
  \E p \in Procs :
    \/ Kernel(p)
    \/ pipewrite_fault(p) \/ piperead_copy(p, FALSE)
    \/ \E m \in Counts : call(p, m)
    \/ kill(p) \/ close(p)

Spec == Init /\ [][Next]_vars

(* A process in the kernel keeps running, and gets pi->lock if it is free  *)
(* again and again.                                                        *)
FairSpec == Spec /\ \A p \in Procs : SF_vars(Kernel(p))

-----------------------------------------------------------------------------
Count == (nwrite - nread) % UINT

(* The bytes in the pipe, oldest first.                                    *)
Queue == [k \in 1 .. Count |-> data[((nread + k - 1) % UINT) % PIPESIZE]]

Abs == INSTANCE Fifo WITH queue <- Queue, Capacity <- PIPESIZE

(* A pipe is a FIFO of at most PIPESIZE bytes: no byte is lost, duplicated,*)
(* overwritten or reordered, also when nread and nwrite wrap around        *)
(* (pipe.c:89-97, 119-123).                                                *)
PipeIsFifo == Abs!Spec

(* No lost wakeup: while nobody holds pi->lock, a reader is asleep only if *)
(* the pipe is empty with its write end open, or a writer was killed in    *)
(* the middle of its call; and a writer only if the pipe is full with its  *)
(* read end open (pipe.c:88-91, 112-118, 126).                             *)
SleepIsJustified ==
  lock = Free =>
    /\ \A p \in Readers : pc[p] = "sleep" =>
         (Empty \/ \E w \in Writers : killed[w]) /\ writeopen = 1
    /\ \A p \in Writers : pc[p] = "sleep" => Full /\ readopen = 1

(* pipeclose() frees the pipe once, when both ends are closed and no       *)
(* process is inside one of its calls (pipe.c:68-71).                      *)
FreedIsUnused ==
  freed => /\ readopen = 0 /\ writeopen = 0
           /\ \A p \in Procs : pc[p] = "user" /\ p \notin open

(* Closing one end ends the calls at the other: once writers are gone      *)
(* every read returns, once readers are gone every write does              *)
(* (pipe.c:63, 66, 84, 112).                                               *)
CloseEndsCalls ==
  /\ \A p \in Readers : writeopen = 0 /\ pc[p] # "user" ~> pc[p] = "user"
  /\ \A p \in Writers : readopen = 0 /\ pc[p] # "user" ~> pc[p] = "user"
=============================================================================
