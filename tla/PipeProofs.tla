----------------------------- MODULE PipeProofs -----------------------------
(***************************************************************************)
(* The safety of a pipe for any number of writers and readers, any pipe    *)
(* size and any counts.  The invariant says who may hold pi->lock, what a  *)
(* process knows between testing a condition and sleeping on it, and why   *)
(* every sleeper is still rightly asleep or about to be woken by the       *)
(* holder of the lock.                                                     *)
(***************************************************************************)
EXTENDS Pipe, SharedTheorems, TLAPS

USE ZenonT(60), SMTT(30)

(* Who is in a critical section holds pi->lock, and only those.            *)
LockInv ==
  /\ \A p \in Procs : pc[p] \in {"loop", "wait", "copy"} <=> lock = p
  /\ \A p \in Writers : pc[p] # "copy"

(* Calls are made through open descriptors; an end that is closed has none *)
(* left; the pipe is freed when both are.                                  *)
EndsInv ==
  /\ \A p \in Procs : pc[p] # "user" => p \in open
  /\ writeopen = 0 => \A p \in Writers : p \notin open
  /\ readopen = 0 => \A p \in Readers : p \notin open
  /\ freed => writeopen = 0 /\ readopen = 0

(* The condition a process is about to sleep on still holds.               *)
WaitInv ==
  /\ \A p \in Readers : pc[p] = "wait" => Empty /\ writeopen = 1
  /\ \A p \in Writers : pc[p] = "wait" => Full /\ readopen = 1

(* SleepIsJustified while somebody holds the lock: a writer will wake the  *)
(* readers when it is done or sleeps, a reader that copies the writers.    *)
SleepInv ==
  /\ \A p \in Readers : pc[p] = "sleep" =>
       /\ writeopen = 1
       /\ Empty \/ lock \in Writers \/ \E w \in Writers : killed[w]
  /\ \A p \in Writers : pc[p] = "sleep" =>
       /\ readopen = 1
       /\ Full \/ \E r \in Readers : lock = r /\ pc[r] = "copy"

IInv == TypeOK /\ LockInv /\ EndsInv /\ WaitInv /\ SleepInv

LEMMA InitInv == Init => IInv
<1> SUFFICES ASSUME Init PROVE IInv
  OBVIOUS
<1>1. TypeOK
  <2>1. freed \in BOOLEAN /\ killed \in [Procs -> BOOLEAN]
    BY DEF Init
  <2>2. pc \in [Procs -> PCs] /\ left \in [Procs -> Nat] /\ open \subseteq Procs
    BY DEF Init, PCs
  <2>3. nread \in 0 .. UINT - 1 /\ nwrite \in 0 .. UINT - 1
    BY PipeAssumption, SMTT(30) DEF Init
  <2>4. QED
    BY <2>1, <2>2, <2>3 DEF Init, TypeOK
<1>2. \A p \in Procs : pc[p] = "user" /\ p \in open /\ lock # p
  BY PipeAssumption DEF Init
<1>3. LockInv /\ WaitInv /\ SleepInv
  BY <1>2 DEF LockInv, WaitInv, SleepInv, Procs
<1>4. EndsInv
  BY SMTT(30) DEF Init, EndsInv
<1>5. QED
  BY <1>1, <1>3, <1>4 DEF IInv

LEMMA CallInv ==
  ASSUME IInv, NEW p \in Procs, NEW m \in Counts, call(p, m) PROVE IInv'
<1> USE DEF call, Goto, pipe, Procs, Empty, Full
<1>1. TypeOK'
  BY PipeAssumption DEF IInv, TypeOK, PCs
<1>2. LockInv'
  BY DEF IInv, TypeOK, LockInv
<1>3. EndsInv'
  BY DEF IInv, TypeOK, EndsInv
<1>4. WaitInv'
  BY DEF IInv, TypeOK, WaitInv
<1>5. SleepInv'
  BY DEF IInv, TypeOK, SleepInv
<1>6. QED
  BY <1>1, <1>2, <1>3, <1>4, <1>5 DEF IInv

LEMMA AcquireInv ==
  ASSUME IInv, NEW p \in Procs, acquire(p) PROVE IInv'
<1> USE DEF acquire, Goto, Procs, Empty, Full
<1>1. TypeOK'
  BY DEF IInv, TypeOK, PCs
<1>2. LockInv'
  BY PipeAssumption DEF IInv, TypeOK, LockInv
<1>3. EndsInv'
  BY DEF IInv, TypeOK, EndsInv
<1>4. WaitInv'
  BY DEF IInv, TypeOK, WaitInv
<1>5. SleepInv'
  BY PipeAssumption DEF IInv, TypeOK, SleepInv
<1>6. QED
  BY <1>1, <1>2, <1>3, <1>4, <1>5 DEF IInv

LEMMA KillInv ==
  ASSUME IInv, NEW p \in Procs, kill(p) PROVE IInv'
<1> USE DEF kill, Goto, pipe, Procs, Empty, Full
<1>1. TypeOK'
  BY DEF IInv, TypeOK, PCs
<1>2. LockInv'
  BY DEF IInv, TypeOK, LockInv
<1>3. EndsInv'
  BY DEF IInv, TypeOK, EndsInv
<1>4. WaitInv'
  BY DEF IInv, TypeOK, WaitInv
<1>5. SleepInv'
  BY DEF IInv, TypeOK, SleepInv
<1>6. QED
  BY <1>1, <1>2, <1>3, <1>4, <1>5 DEF IInv

LEMMA SleepStepInv ==
  ASSUME IInv, NEW p \in Procs, sleep(p) PROVE IInv'
<1> USE DEF sleep, Wake, Procs, Empty, Full
<1>1. TypeOK'
  BY DEF IInv, TypeOK, PCs
<1>2. LockInv'
  BY PipeAssumption DEF IInv, TypeOK, LockInv
<1>3. EndsInv'
  BY DEF IInv, TypeOK, EndsInv
<1>4. WaitInv'
  BY DEF IInv, TypeOK, WaitInv, LockInv
<1>5. SleepInv'
  BY PipeAssumption DEF IInv, TypeOK, SleepInv, WaitInv, LockInv
<1>6. QED
  BY <1>1, <1>2, <1>3, <1>4, <1>5 DEF IInv

LEMMA ReadInv ==
  ASSUME IInv, NEW p \in Procs, piperead(p) PROVE IInv'
<1> USE DEF piperead, Return, Goto, Wake, Procs, Empty, Full
<1>1. TypeOK'
  BY SMTT(30) DEF IInv, TypeOK, PCs
<1>2. LockInv'
  BY PipeAssumption, SMTT(30) DEF IInv, TypeOK, LockInv
<1>3. EndsInv'
  BY DEF IInv, TypeOK, EndsInv
<1>4. WaitInv'
  BY PipeAssumption, SMTT(30) DEF IInv, TypeOK, WaitInv, LockInv
<1>5. SleepInv'
  BY PipeAssumption, SMTT(30) DEF IInv, TypeOK, SleepInv, LockInv
<1>6. QED
  BY <1>1, <1>2, <1>3, <1>4, <1>5 DEF IInv

LEMMA CopyInv ==
  ASSUME IInv, NEW p \in Procs, NEW copied \in BOOLEAN, piperead_copy(p, copied)
  PROVE  IInv'
<1> USE DEF piperead_copy, Return, Wake, Procs
<1>1. TypeOK'
  <2>1. Inc(nread) \in 0 .. UINT - 1
    BY PipeAssumption, SMTT(30) DEF IInv, TypeOK, Inc
  <2>2. QED
    BY <2>1, SMTT(30) DEF IInv, TypeOK, PCs
<1>2. LockInv'
  BY PipeAssumption, SMTT(30) DEF IInv, TypeOK, LockInv
<1>3. EndsInv'
  BY DEF IInv, TypeOK, EndsInv
<1>4. WaitInv'
  BY PipeAssumption, SMTT(30) DEF IInv, TypeOK, WaitInv, LockInv
<1>5. SleepInv'
  BY PipeAssumption, SMTT(30) DEF IInv, TypeOK, SleepInv, LockInv, Empty, Full
<1>6. QED
  BY <1>1, <1>2, <1>3, <1>4, <1>5 DEF IInv

LEMMA WriteInv ==
  ASSUME IInv, NEW p \in Procs, NEW b \in Bytes, pipewrite(p, b) PROVE IInv'
<1> USE DEF pipewrite, Return, Goto, Wake, Procs
<1>1. TypeOK'
  <2>1. Inc(nwrite) \in 0 .. UINT - 1
    BY PipeAssumption, SMTT(30) DEF IInv, TypeOK, Inc
  <2>2. QED
    BY <2>1, SMTT(30) DEF IInv, TypeOK, PCs
<1>2. LockInv'
  BY PipeAssumption, SMTT(30) DEF IInv, TypeOK, LockInv
<1>3. EndsInv'
  BY DEF IInv, TypeOK, EndsInv
<1>4. WaitInv'
  BY PipeAssumption, SMTT(30) DEF IInv, TypeOK, WaitInv, LockInv, Empty, Full
<1>5. SleepInv'
  <2>1. p \in Writers /\ p \notin Readers /\ lock = p /\ p \in open /\ writeopen = 1
    BY PipeAssumption DEF IInv, TypeOK, LockInv, EndsInv
  <2>2. ASSUME NEW r \in Readers, pc'[r] = "sleep"
        PROVE  /\ writeopen' = 1
               /\ Empty' \/ lock' \in Writers \/ \E w \in Writers : killed'[w]
    <3>1. pc[r] = "sleep" /\ r \in open /\ readopen = 1
      BY <2>1, <2>2, SMTT(30) DEF IInv, TypeOK, EndsInv
    <3>2. QED
      BY <2>1, <2>2, <3>1, SMTT(30) DEF IInv, TypeOK, LockInv
  <2>3. ASSUME NEW w \in Writers, pc'[w] = "sleep"
        PROVE  readopen' = 1 /\ Full'
    <3>1. pc[w] = "sleep"
      BY <2>1, <2>3 DEF IInv, TypeOK
    <3>2. Full /\ readopen = 1
      BY <2>1, <3>1 DEF IInv, SleepInv
    <3>3. UNCHANGED <<nread, nwrite, readopen>>
      BY <3>2
    <3>4. QED
      BY <3>2, <3>3 DEF Full
  <2>4. QED
    BY <2>2, <2>3 DEF SleepInv
<1>6. QED
  BY <1>1, <1>2, <1>3, <1>4, <1>5 DEF IInv

LEMMA FaultInv ==
  ASSUME IInv, NEW p \in Procs, pipewrite_fault(p) PROVE IInv'
<1> USE DEF pipewrite_fault, Return, Wake, Procs, Empty, Full
<1>1. TypeOK'
  BY DEF IInv, TypeOK, PCs
<1>2. LockInv'
  BY PipeAssumption DEF IInv, TypeOK, LockInv
<1>3. EndsInv'
  BY DEF IInv, TypeOK, EndsInv
<1>4. WaitInv'
  BY DEF IInv, TypeOK, WaitInv
<1>5. SleepInv'
  BY PipeAssumption DEF IInv, TypeOK, SleepInv, LockInv
<1>6. QED
  BY <1>1, <1>2, <1>3, <1>4, <1>5 DEF IInv

LEMMA CloseInv ==
  ASSUME IInv, NEW p \in Procs, close(p) PROVE IInv'
<1> USE DEF close, Wake, Procs, Empty, Full
<1>1. TypeOK'
  BY DEF IInv, TypeOK, PCs
<1>2. LockInv'
  BY DEF IInv, TypeOK, LockInv
<1>3. EndsInv'
  BY PipeAssumption, SMTT(30) DEF IInv, TypeOK, EndsInv
<1>4. WaitInv'
  BY PipeAssumption, SMTT(30) DEF IInv, TypeOK, WaitInv, LockInv
<1>5. SleepInv'
  BY PipeAssumption, SMTT(30) DEF IInv, TypeOK, SleepInv, LockInv
<1>6. QED
  BY <1>1, <1>2, <1>3, <1>4, <1>5 DEF IInv

LEMMA NextInv == IInv /\ [Next]_vars => IInv'
<1> SUFFICES ASSUME IInv, [Next]_vars PROVE IInv'
  OBVIOUS
<1>1. CASE UNCHANGED vars
  BY <1>1 DEF vars, pipe, IInv, TypeOK, LockInv, EndsInv, WaitInv, SleepInv, Empty, Full
<1>2. CASE Next
  <2>1. PICK p \in Procs :
          \/ acquire(p) \/ sleep(p) \/ piperead(p) \/ pipewrite_fault(p)
          \/ kill(p) \/ close(p)
          \/ \E b \in Bytes : pipewrite(p, b)
          \/ \E copied \in BOOLEAN : piperead_copy(p, copied)
          \/ \E m \in Counts : call(p, m)
    BY <1>2 DEF Next, Kernel
  <2>2. QED
    BY <2>1, CallInv, AcquireInv, KillInv, SleepStepInv, ReadInv, CopyInv, WriteInv,
       FaultInv, CloseInv
<1>3. QED
  BY <1>1, <1>2

(* The inductive invariant of a pipe holds initially and is kept by every  *)
(* step of pipe.c.                                                         *)
THEOREM Invariance == Spec => []IInv
  BY InitInv, NextInv, PTL DEF Spec

(* The variables keep their types, for any pipe size and any processes:    *)
(* the counters stay below UINT, the lock is free or held by a process     *)
(* (pipe.c:13-21).                                                         *)
THEOREM TypeCorrect == Spec => []TypeOK
  BY Invariance, PTL DEF IInv

(* Nobody sleeps on a condition that no longer holds: sleep() and wakeup() *)
(* of pipewrite(), piperead() and pipeclose() lose no wakeup               *)
(* (pipe.c:88-91, 99, 112-118, 127).                                       *)
THEOREM NoLostWakeup == Spec => []SleepIsJustified
<1>1. IInv => SleepIsJustified
  BY PipeAssumption DEF IInv, LockInv, SleepInv, SleepIsJustified, Procs
<1>2. QED
  BY <1>1, Invariance, PTL

(* pipeclose() frees a pipe only when nobody can use it again              *)
(* (pipe.c:69-71).                                                         *)
THEOREM FreedOnce == Spec => []FreedIsUnused
<1>1. IInv => FreedIsUnused
  BY DEF IInv, EndsInv, FreedIsUnused, Procs
<1>2. QED
  BY <1>1, Invariance, PTL

-----------------------------------------------------------------------------
(* A pipe implements a FIFO of bytes, for every pipe size that divides the *)
(* modulus of the counters.  It never holds more than PIPESIZE bytes.      *)
Bounded == Count <= PIPESIZE

LEMMA PipeRing == Wraps(UINT, PIPESIZE)
  BY PipeAssumption, SMTT(30) DEF Wraps

(* Count and Queue in the terms of SharedTheorems.                           *)
Unfolded ==
  /\ nread \in 0 .. UINT - 1 /\ nwrite \in 0 .. UINT - 1
  /\ data \in Slots(PIPESIZE, Bytes)
  /\ Count = Distance(nread, nwrite, UINT) /\ Count \in 0 .. UINT - 1
  /\ nread = nwrite <=> Count = 0
  /\ Full <=> Count = PIPESIZE
  /\ nwrite % PIPESIZE = Slot(nread, Count, PIPESIZE)
  /\ Queue = Entry(data, nread, Count, PIPESIZE)

LEMMA Unfold == TypeOK => Unfolded
<1> SUFFICES ASSUME TypeOK PROVE Unfolded
  OBVIOUS
<1>1. Count = Distance(nread, nwrite, UINT)
  BY DEF Count, Distance
<1>2. nread \in 0 .. UINT - 1 /\ nwrite \in 0 .. UINT - 1
      /\ data \in Slots(PIPESIZE, Bytes)
  BY DEF TypeOK, Slots
<1>3. /\ Count \in 0 .. UINT - 1
      /\ nread = nwrite <=> Count = 0
      /\ nwrite % PIPESIZE = Slot(nread, Count, PIPESIZE)
  <2>1. /\ Distance(nread, nwrite, UINT) \in 0 .. UINT - 1
        /\ nread = nwrite <=> Distance(nread, nwrite, UINT) = 0
        /\ nwrite % PIPESIZE = (nread + Distance(nread, nwrite, UINT)) % PIPESIZE
    BY <1>2, PipeRing, DistanceFacts, SMTT(30)
  <2>2. QED
    BY <1>1, <2>1 DEF Slot
<1>4. Full <=> Count = PIPESIZE
  <2>1. PIPESIZE < UINT
    BY PipeAssumption
  <2>2. QED
    BY <1>1, <1>2, <2>1, PipeRing, FullFacts DEF Full
<1>5. ASSUME NEW k \in 1 .. Count
      PROVE  ((nread + k - 1) % UINT) % PIPESIZE = (nread + k - 1) % PIPESIZE
  <2> DEFINE a == nread + k - 1
  <2>1. a \in 0 .. 2 * UINT - 1
    BY <1>2, <1>3, PipeAssumption, SMTT(30)
  <2> HIDE DEF a
  <2>2. (a % UINT) % PIPESIZE = a % PIPESIZE
    BY <2>1, PipeRing, SlotWraps
  <2>3. QED
    BY <2>2 DEF a
<1>6. Queue = Entry(data, nread, Count, PIPESIZE)
  BY <1>5 DEF Queue, Entry
<1>7. QED
  BY <1>1, <1>2, <1>3, <1>4, <1>6 DEF Unfolded

LEMMA InitFifo == Init => Bounded /\ Abs!Init
<1> SUFFICES ASSUME Init PROVE Bounded /\ Abs!Init
  OBVIOUS
<1>1. Count = 0
  BY PipeAssumption, SMTT(30) DEF Init, Count
<1>2. Queue = << >>
  BY <1>1, SMTT(30) DEF Queue
<1>3. QED
  BY <1>1, <1>2, PipeAssumption, SMTT(30) DEF Init, Abs!Init, Bounded

LEMMA WriteFifo ==
  ASSUME IInv, IInv', Bounded, NEW p \in Procs, NEW b \in Bytes, pipewrite(p, b)
  PROVE  Bounded' /\ (Abs!Put(b) \/ UNCHANGED <<Queue, readopen, writeopen>>)
<1>1. UNCHANGED <<readopen, writeopen, nread>>
  BY DEF pipewrite
<1>2. CASE UNCHANGED <<data, nwrite>>
  BY <1>1, <1>2 DEF Bounded, Count, Queue
<1>3. CASE ~UNCHANGED <<data, nwrite>>
  <2>1. /\ ~Full /\ readopen # 0
        /\ data' = [data EXCEPT ![nwrite % PIPESIZE] = b] /\ nwrite' = (nwrite + 1) % UINT
    BY <1>3 DEF pipewrite, Inc
  <2>2. readopen = 1 /\ writeopen = 1
    BY <2>1, PipeAssumption DEF IInv, TypeOK, EndsInv, Procs, pipewrite
  <2>3. TypeOK /\ TypeOK'
    BY DEF IInv
  <2>4. /\ nread \in 0 .. UINT - 1 /\ nwrite \in 0 .. UINT - 1
        /\ data \in Slots(PIPESIZE, Bytes)
        /\ Count = Distance(nread, nwrite, UINT) /\ Count \in 0 .. UINT - 1
        /\ Full <=> Count = PIPESIZE
        /\ nwrite % PIPESIZE = Slot(nread, Count, PIPESIZE)
        /\ Queue = Entry(data, nread, Count, PIPESIZE)
    BY <2>3, Unfold DEF Unfolded
  <2>5. /\ Count' = Distance(nread, nwrite', UINT)
        /\ Queue' = Entry(data', nread, Count', PIPESIZE)
    <3>1. Unfolded'
      BY <2>3, Unfold, PTL
    <3>2. QED
      BY <1>1, <3>1 DEF Unfolded
  <2>6. /\ PIPESIZE \in Nat \ {0} /\ UINT \in Nat \ {0} /\ PIPESIZE < UINT /\ nread \in Nat
        /\ Count \in Nat /\ Count \in 0 .. PIPESIZE - 1 /\ Count + 1 < UINT
    BY <2>1, <2>4, PipeAssumption, SMTT(30) DEF Bounded
  <2>7. Count' = Count + 1
    BY <2>1, <2>4, <2>5, <2>6, DistanceGrows
  <2>8. Queue' = Append(Queue, b)
    <3>1. /\ data' \in Slots(PIPESIZE, Bytes)
          /\ data'[Slot(nread, Count, PIPESIZE)] = b
          /\ \A i \in 0 .. PIPESIZE - 1 :
               i # Slot(nread, Count, PIPESIZE) => data'[i] = data[i]
      <4>1. Slot(nread, Count, PIPESIZE) \in 0 .. PIPESIZE - 1
        BY <2>4, <2>6, SlotInRange
      <4>2. QED
        BY <2>1, <2>4, <4>1 DEF Slots
    <3>2. Entry(data', nread, Count + 1, PIPESIZE)
            = Append(Entry(data, nread, Count, PIPESIZE), b)
      BY <2>4, <2>6, <3>1, EntryAppends, SMTT(30)
    <3>3. QED
      BY <2>4, <2>5, <2>7, <3>2
  <2>9. Len(Queue) = Count
    BY <2>4, <2>6, EntryType, SMTT(30)
  <2>10. QED
    BY <1>1, <2>2, <2>6, <2>7, <2>8, <2>9, SMTT(30) DEF Abs!Put, Bounded
<1>4. QED
  BY <1>2, <1>3

LEMMA ReadFifo ==
  ASSUME IInv, IInv', Bounded, NEW p \in Procs, NEW copied \in BOOLEAN, piperead_copy(p, copied)
  PROVE  Bounded' /\ (Abs!Get \/ UNCHANGED <<Queue, readopen, writeopen>>)
<1>1. UNCHANGED <<readopen, writeopen, nwrite, data>>
  BY DEF piperead_copy
<1>2. CASE UNCHANGED nread
  BY <1>1, <1>2 DEF Bounded, Count, Queue
<1>3. CASE ~UNCHANGED nread
  <2>1. nread # nwrite /\ nread' = (nread + 1) % UINT
    BY <1>3 DEF piperead_copy, Empty, Inc
  <2>2. readopen = 1
    BY DEF IInv, TypeOK, EndsInv, Procs, piperead_copy
  <2>3. TypeOK /\ TypeOK'
    BY DEF IInv
  <2>4. /\ nread \in 0 .. UINT - 1 /\ nwrite \in 0 .. UINT - 1
        /\ data \in Slots(PIPESIZE, Bytes)
        /\ Count = Distance(nread, nwrite, UINT) /\ Count \in 0 .. UINT - 1
        /\ nread = nwrite <=> Count = 0
        /\ Queue = Entry(data, nread, Count, PIPESIZE)
    BY <2>3, Unfold DEF Unfolded
  <2>5. Count' = Distance(nread', nwrite, UINT) /\ Queue' = Entry(data, nread', Count', PIPESIZE)
    <3>1. Unfolded'
      BY <2>3, Unfold, PTL
    <3>2. QED
      BY <1>1, <3>1 DEF Unfolded
  <2>6. UINT \in Nat \ {0} /\ Count \in 1 .. PIPESIZE
    BY <2>1, <2>4, PipeAssumption, SMTT(30) DEF Bounded
  <2>7. Count' = Count - 1
    BY <2>1, <2>4, <2>5, <2>6, DistanceShrinks
  <2>8. Queue # << >> /\ Queue' = Tail(Queue)
    <3>1. PICK e : e = data
      OBVIOUS
    <3>2. e \in Slots(PIPESIZE, Bytes)
          /\ \A i \in 0 .. PIPESIZE - 1 : i # nread % PIPESIZE => e[i] = data[i]
      BY <2>4, <3>1
    <3>3. /\ Entry(data, nread, Count, PIPESIZE) # << >>
          /\ Entry(e, (nread + 1) % UINT, Count - 1, PIPESIZE)
               = Tail(Entry(data, nread, Count, PIPESIZE))
      <4>1. nread \in 0 .. UINT - 1 /\ Count \in 1 .. PIPESIZE
            /\ data \in Slots(PIPESIZE, Bytes)
        BY <2>4, <2>6
      <4>2. QED
        BY <3>2, <4>1, PipeRing, EntryTail, SMTT(30)
    <3>4. QED
      BY <2>1, <2>4, <2>5, <2>7, <3>1, <3>3
  <2>9. QED
    BY <1>1, <2>2, <2>6, <2>7, <2>8, PipeAssumption, SMTT(30) DEF Abs!Get, Bounded
<1>4. QED
  BY <1>2, <1>3

LEMMA CloseFifo ==
  ASSUME Bounded, NEW p \in Procs, close(p)
  PROVE  /\ Bounded'
         /\ \/ Abs!CloseRead \/ Abs!CloseWrite
            \/ UNCHANGED <<Queue, readopen, writeopen>>
<1>1. UNCHANGED <<Count, Queue>>
  BY DEF close, Count, Queue
<1>2. QED
  BY <1>1 DEF close, Bounded, Abs!CloseRead, Abs!CloseWrite

LEMMA NextFifo ==
  IInv /\ Bounded /\ [Next]_vars
    => Bounded' /\ [Abs!Next]_<<Queue, readopen, writeopen>>
<1> SUFFICES ASSUME IInv, Bounded, [Next]_vars
             PROVE  Bounded' /\ [Abs!Next]_<<Queue, readopen, writeopen>>
  OBVIOUS
<1>0. IInv'
  BY NextInv
<1>1. CASE UNCHANGED <<data, nread, nwrite, readopen, writeopen>>
  BY <1>1 DEF Bounded, Count, Queue
<1>2. CASE ~UNCHANGED <<data, nread, nwrite, readopen, writeopen>>
  <2>1. PICK p \in Procs :
          \/ \E b \in Bytes : pipewrite(p, b)
          \/ \E copied \in BOOLEAN : piperead_copy(p, copied)
          \/ close(p)
    BY <1>2 DEF Next, Kernel, vars, pipe, acquire, sleep, piperead, pipewrite_fault, call, kill
  <2>2. QED
    BY <1>0, <2>1, WriteFifo, ReadFifo, CloseFifo DEF Abs!Next
<1>3. QED
  BY <1>1, <1>2

(* Every behaviour of a pipe is one of a bounded FIFO: what pipewrite()    *)
(* puts in, piperead() takes out in the same order, exactly once, for any  *)
(* pipe size that divides the modulus of nread and nwrite (pipe.c:95, 123).*)
THEOREM Fifoness == Spec => PipeIsFifo
<1>1. Spec => []IInv
  BY Invariance
<1>2. QED
  BY <1>1, InitFifo, NextFifo, PTL DEF Spec, PipeIsFifo, Abs!Spec
=============================================================================
