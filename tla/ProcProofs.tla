----------------------------- MODULE ProcProofs -----------------------------
(***************************************************************************)
(* The scheduler, wait_lock, fork() and the pids for any number of slots   *)
(* and CPUs.  The invariant says, for every slot, which CPU is on its      *)
(* stack or saving its context and what that implies for p->lock and       *)
(* p->state; and for every CPU, that it is at most one slot.               *)
(***************************************************************************)
EXTENDS Proc, TLAPS

USE ZenonT(60), SMTT(30)

Crit == {"reparent", "wake_init", "wake_parent", "zombie", "scan", "scanned", "sleep"}
Forking == {"fork_parent", "fork_run"}

(* Slot s is c->proc: running, back in sched() with its lock held, or on   *)
(* its way out of the CPU with its lock held.                              *)
OnCpu(c, s) ==
  \/ thread[c] = s /\ sw[s] = "run" /\ lock[s] = Free /\ state[s] = "RUNNING"
  \/ thread[c] = s /\ sw[s] = "in" /\ lock[s] = c /\ state[s] = "RUNNING"
  \/ sw[s] = "out" /\ lock[s] = c /\ state[s] \in {"RUNNABLE", "SLEEPING", "ZOMBIE"}

StackInv ==
  /\ \A c \in CPUs : thread[c] # Sched => proc[c] = thread[c]
  /\ \A c, d \in CPUs : proc[c] # None /\ proc[c] = proc[d] => c = d
  /\ \A c \in CPUs, s \in Slots : lock[s] = c => proc[c] = s
  /\ \A c \in CPUs, s \in Slots : proc[c] = s => OnCpu(c, s)
  /\ \A s \in Slots : sw[s] # "out" \/ state[s] = "RUNNING" => \E c \in CPUs : proc[c] = s

(* Slots that are free or half made are in no system call, a zombie is at  *)
(* the end of exit() and off its stack.                                    *)
LiveInv ==
  /\ \A p \in Slots : state[p] \in {"UNUSED", "USED"} => pc[p] = "user"
  /\ \A p \in Slots : state[p] = "ZOMBIE" <=> pc[p] = "zombie" /\ sw[p] = "out"

(* A process between allocproc() and the end of fork() owns its child.     *)
ChildInv ==
  /\ \A p \in Slots : pc[p] \in Forking =>
       child[p] \in Slots /\ state[child[p]] = "USED"
  /\ \A p, q \in Slots :
       pc[p] \in Forking /\ pc[q] \in Forking /\ child[p] = child[q] => p = q

(* wait_lock is held exactly in the critical sections of exit() and wait(),*)
(* in which the process keeps its CPU.                                     *)
WaitLockInv ==
  /\ \A p \in Slots : waitLock = p <=> pc[p] \in Crit /\ sw[p] = "run"
  /\ \A p \in Slots : pc[p] \in Crit /\ sw[p] # "run" => state[p] = "ZOMBIE"

PidInv ==
  /\ \A s \in Slots : pid[s] = 0 <=> state[s] = "UNUSED"
  /\ \A s \in Slots : pid[s] < nextpid
  /\ \A s, t \in Slots : pid[s] = pid[t] /\ s # t => pid[s] = 0

IInv == TypeOK /\ StackInv /\ LiveInv /\ ChildInv /\ WaitLockInv /\ PidInv

LEMMA SlotFacts ==
  /\ initproc \in Slots /\ None \notin Slots /\ Free \notin Slots /\ Free \notin CPUs
  /\ Sched \notin Slots /\ initproc # None
  BY ProcAssumption, SMTT(30) DEF Slots, initproc, None

(* A scan of the table stays in the table.                                 *)
LEMMA AdvanceType ==
  ASSUME NEW v \in [Slots -> Slots], NEW p \in Slots
  PROVE  Advance(v, p) \in [Slots -> Slots]
<1>1. (IF v[p] = NPROC THEN 1 ELSE v[p] + 1) \in Slots
  BY ProcAssumption, SMTT(30) DEF Slots
<1>2. QED
  BY <1>1 DEF Advance

(* What holds of a process that executes kernel code.                      *)
LEMMA RunsFacts ==
  ASSUME TypeOK, StackInv, NEW c \in CPUs, NEW p \in Slots, Runs(c, p)
  PROVE  state[p] = "RUNNING" /\ sw[p] = "run" /\ lock[p] = Free /\ proc[c] = p /\ thread[c] = p
  BY SlotFacts, SMTT(30) DEF TypeOK, StackInv, OnCpu, Runs

(* Steps that leave stacks, locks and states alone.                        *)
LEMMA StackFrame ==
  ASSUME StackInv, UNCHANGED <<state, lock, cpus, sw>>
  PROVE  StackInv'
  BY SMTT(30) DEF StackInv, OnCpu, cpus

(* A slot that is on no CPU changes its state under p->lock.               *)
LEMMA StackOff ==
  ASSUME TypeOK, StackInv, NEW s \in Slots, NEW x \in States \ {"RUNNING"},
         lock[s] = Free, state[s] # "RUNNING",
         state' = [state EXCEPT ![s] = x], UNCHANGED <<lock, cpus, sw>>
  PROVE  StackInv'
<1>1. \A c \in CPUs : proc[c] # s
  BY SlotFacts, SMTT(30) DEF StackInv, OnCpu
<1>2. \A t \in Slots : t # s => state'[t] = state[t]
  BY DEF TypeOK
<1>3. state'[s] # "RUNNING"
  BY DEF TypeOK
<1>4. QED
  BY <1>1, <1>2, <1>3, SMTT(30) DEF StackInv, OnCpu, cpus

(* yield(), sleep() and exit() up to swtch(): p->lock is held from here on.*)
LEMMA StackLeave ==
  ASSUME TypeOK, StackInv, NEW c \in CPUs, NEW p \in Slots, Runs(c, p),
         NEW x \in {"RUNNABLE", "SLEEPING", "ZOMBIE"},
         state' = [state EXCEPT ![p] = x], lock' = [lock EXCEPT ![p] = c],
         sw' = [sw EXCEPT ![p] = "out"], UNCHANGED cpus
  PROVE  StackInv'
<1>1. state[p] = "RUNNING" /\ lock[p] = Free /\ proc[c] = p /\ thread[c] = p
  BY RunsFacts
<1>2. state'[p] = x /\ lock'[p] = c /\ sw'[p] = "out"
  BY DEF TypeOK
<1>3. \A s \in Slots \ {p} : state'[s] = state[s] /\ lock'[s] = lock[s] /\ sw'[s] = sw[s]
  BY DEF TypeOK
<1>4. \A d \in CPUs : proc[d] = p => d = c
  BY <1>1, SlotFacts, SMTT(30) DEF StackInv
<1>5. \A d \in CPUs, s \in Slots : proc[d] = s => OnCpu(d, s)'
  BY <1>1, <1>2, <1>3, <1>4, SMTT(30) DEF StackInv, OnCpu, cpus
<1>6. \A d \in CPUs, s \in Slots : lock'[s] = d => proc[d] = s
  BY <1>1, <1>2, <1>3, SMTT(30) DEF StackInv
<1>7. \A s \in Slots : sw'[s] # "out" \/ state'[s] = "RUNNING" => \E d \in CPUs : proc[d] = s
  BY <1>2, <1>3, SMTT(30) DEF StackInv
<1>8. QED
  BY <1>5, <1>6, <1>7 DEF StackInv, cpus

(* Steps that start or end no fork() and leave half-made children alone.   *)
LEMMA ChildFrame ==
  ASSUME ChildInv, UNCHANGED child,
         \A q \in Slots : pc'[q] \in Forking => pc[q] \in Forking,
         \A s \in Slots : state[s] = "USED" => state'[s] = "USED"
  PROVE  ChildInv'
  BY DEF ChildInv

(* Steps that neither allocate nor free a slot.                            *)
LEMMA PidFrame ==
  ASSUME PidInv, UNCHANGED <<pid, nextpid>>,
         \A s \in Slots : state'[s] = "UNUSED" <=> state[s] = "UNUSED"
  PROVE  PidInv'
  BY DEF PidInv

(* The four halves of a context switch.                                    *)
LEMMA SchedulerStack ==
  ASSUME TypeOK, StackInv, NEW c \in CPUs, NEW p \in Slots, scheduler(c, p) PROVE StackInv'
<1>1. \A d \in CPUs : proc[d] # p
  BY SlotFacts, SMTT(30) DEF StackInv, OnCpu, scheduler
<1>2. /\ state'[p] = "RUNNING" /\ lock'[p] = c /\ sw'[p] = "in"
      /\ proc'[c] = p /\ thread'[c] = p
  BY DEF TypeOK, scheduler
<1>3. /\ \A s \in Slots \ {p} : state'[s] = state[s] /\ lock'[s] = lock[s] /\ sw'[s] = sw[s]
      /\ \A d \in CPUs \ {c} : proc'[d] = proc[d] /\ thread'[d] = thread[d]
  BY DEF TypeOK, scheduler
<1>4. \A s \in Slots : lock[s] # c /\ proc[c] # s
  BY SlotFacts DEF StackInv, scheduler
<1>5. \A d \in CPUs, s \in Slots : proc'[d] = s => OnCpu(d, s)'
  BY <1>1, <1>2, <1>3, <1>4, SMTT(30) DEF StackInv, OnCpu
<1>6. \A d \in CPUs, s \in Slots : lock'[s] = d => proc'[d] = s
  BY <1>1, <1>2, <1>3, <1>4, SMTT(30) DEF StackInv
<1>7. \A s \in Slots : sw'[s] # "out" \/ state'[s] = "RUNNING" => \E d \in CPUs : proc'[d] = s
  BY <1>1, <1>2, <1>3, <1>4, SMTT(30) DEF StackInv
<1>8. \A d, e \in CPUs : proc'[d] # None /\ proc'[d] = proc'[e] => d = e
  BY <1>1, <1>2, <1>3, SMTT(30) DEF StackInv
<1>9. \A d \in CPUs : thread'[d] # Sched => proc'[d] = thread'[d]
  BY <1>2, <1>3, SMTT(30) DEF StackInv
<1>10. QED
  BY <1>5, <1>6, <1>7, <1>8, <1>9 DEF StackInv

LEMMA SchedReturnStack ==
  ASSUME TypeOK, StackInv, NEW c \in CPUs, NEW p \in Slots, sched_return(c, p) PROVE StackInv'
<1>1. proc[c] = p /\ lock[p] = c /\ state[p] = "RUNNING" /\ thread[c] = p
  BY SlotFacts, SMTT(30) DEF StackInv, OnCpu, sched_return
<1>2. lock'[p] = Free /\ sw'[p] = "run" /\ UNCHANGED <<state, proc, thread>>
  BY DEF TypeOK, sched_return, cpus
<1>3. \A s \in Slots \ {p} : lock'[s] = lock[s] /\ sw'[s] = sw[s]
  BY DEF TypeOK, sched_return
<1>4. \A d \in CPUs : proc[d] = p => d = c
  BY <1>1, SlotFacts, SMTT(30) DEF StackInv
<1>5. \A d \in CPUs, s \in Slots : proc[d] = s => OnCpu(d, s)'
  BY <1>1, <1>2, <1>3, <1>4, SMTT(30) DEF StackInv, OnCpu
<1>6. \A d \in CPUs, s \in Slots : lock'[s] = d => proc[d] = s
  BY <1>2, <1>3, SlotFacts, SMTT(30) DEF StackInv
<1>7. \A s \in Slots : sw'[s] # "out" \/ state'[s] = "RUNNING" => \E d \in CPUs : proc[d] = s
  BY <1>1, <1>2, <1>3 DEF StackInv
<1>8. QED
  BY <1>2, <1>5, <1>6, <1>7 DEF StackInv

LEMMA SchedStack ==
  ASSUME TypeOK, StackInv, NEW c \in CPUs, NEW p \in Slots, sched(c, p) PROVE StackInv'
<1>1. proc[c] = p
  BY SlotFacts DEF StackInv, sched
<1>2. thread'[c] = Sched /\ \A d \in CPUs \ {c} : thread'[d] = thread[d]
  BY DEF TypeOK, sched
<1>3. UNCHANGED <<state, lock, sw, proc>>
  BY DEF sched, table
<1>4. \A d \in CPUs, s \in Slots : proc[d] = s => OnCpu(d, s)'
  BY <1>1, <1>2, <1>3, SMTT(30) DEF StackInv, OnCpu, sched
<1>5. QED
  BY <1>2, <1>3, <1>4 DEF StackInv

LEMMA SchedulerReturnStack ==
  ASSUME TypeOK, StackInv, NEW c \in CPUs, scheduler_return(c) PROVE StackInv'
<1> DEFINE p == proc[c]
<1>1. p \in Slots /\ p # None /\ thread[c] = Sched
  BY DEF TypeOK, scheduler_return
<1>2. sw[p] = "out" /\ lock[p] = c /\ state[p] # "RUNNING"
  BY <1>1, SlotFacts, SMTT(30) DEF StackInv, OnCpu
<1>3. lock'[p] = Free /\ proc'[c] = None /\ UNCHANGED <<state, thread, sw>>
  BY <1>1 DEF TypeOK, scheduler_return, table
<1>4. /\ \A s \in Slots \ {p} : lock'[s] = lock[s]
      /\ \A d \in CPUs \ {c} : proc'[d] = proc[d] /\ proc[d] # p
  BY <1>1, SMTT(30) DEF TypeOK, StackInv, scheduler_return
<1> HIDE DEF p
<1>5. \A d \in CPUs, s \in Slots : proc'[d] = s => OnCpu(d, s)'
  BY <1>3, <1>4, SlotFacts, SMTT(30) DEF StackInv, OnCpu
<1>6. \A d \in CPUs, s \in Slots : lock'[s] = d => proc'[d] = s
  BY <1>3, <1>4, SlotFacts, SMTT(30) DEF StackInv, p
<1>7. \A s \in Slots : sw'[s] # "out" \/ state'[s] = "RUNNING" => \E d \in CPUs : proc'[d] = s
  BY <1>2, <1>3, <1>4, SMTT(30) DEF StackInv, p
<1>8. \A d, e \in CPUs : proc'[d] # None /\ proc'[d] = proc'[e] => d = e
  BY <1>3, <1>4, SMTT(30) DEF StackInv
<1>9. \A d \in CPUs : thread'[d] # Sched => proc'[d] = thread'[d]
  BY <1>1, <1>3, <1>4 DEF StackInv
<1>10. QED
  BY <1>5, <1>6, <1>7, <1>8, <1>9 DEF StackInv
-----------------------------------------------------------------------------
(* Every step keeps the invariant, one lemma per action.                   *)
LEMMA SchedulerInv ==
  ASSUME IInv, NEW c \in CPUs, NEW p \in Slots, scheduler(c, p) PROVE IInv'
<1>0. state[p] = "RUNNABLE" /\ sw[p] = "out"
  BY SlotFacts, SMTT(30) DEF IInv, StackInv, OnCpu, scheduler
<1>1. TypeOK'
  BY SlotFacts DEF IInv, TypeOK, States, PCs, loops, scheduler
<1>2. StackInv'
  BY SchedulerStack DEF IInv
<1>3. LiveInv'
  BY <1>0 DEF IInv, TypeOK, LiveInv, scheduler
<1>4. ChildInv'
  BY <1>0 DEF IInv, TypeOK, ChildInv, Forking, loops, scheduler
<1>5. WaitLockInv'
  BY <1>0, SlotFacts DEF IInv, TypeOK, WaitLockInv, Crit, scheduler
<1>6. PidInv'
  BY <1>0, PidFrame DEF IInv, TypeOK, scheduler
<1>7. QED
  BY <1>1, <1>2, <1>3, <1>4, <1>5, <1>6 DEF IInv

LEMMA SchedReturnInv ==
  ASSUME IInv, NEW c \in CPUs, NEW p \in Slots, sched_return(c, p) PROVE IInv'
<1>0. state[p] = "RUNNING" /\ sw[p] = "in"
  BY SlotFacts, SMTT(30) DEF IInv, StackInv, OnCpu, sched_return
<1>1. TypeOK'
  BY SlotFacts DEF IInv, TypeOK, States, PCs, cpus, loops, sched_return
<1>2. StackInv'
  BY SchedReturnStack DEF IInv
<1>3. LiveInv'
  BY <1>0 DEF IInv, TypeOK, LiveInv, sched_return
<1>4. ChildInv'
  BY <1>0 DEF IInv, TypeOK, ChildInv, Forking, loops, sched_return
<1>5. WaitLockInv'
  BY <1>0, SlotFacts DEF IInv, TypeOK, WaitLockInv, Crit, sched_return
<1>6. PidInv'
  BY PidFrame DEF IInv, sched_return
<1>7. QED
  BY <1>1, <1>2, <1>3, <1>4, <1>5, <1>6 DEF IInv

LEMMA SchedInv ==
  ASSUME IInv, NEW c \in CPUs, NEW p \in Slots, sched(c, p) PROVE IInv'
<1>1. TypeOK'
  BY SlotFacts DEF IInv, TypeOK, States, PCs, table, loops, sched
<1>2. StackInv'
  BY SchedStack DEF IInv
<1>3. LiveInv'
  BY DEF IInv, TypeOK, LiveInv, table, sched
<1>4. ChildInv'
  BY DEF IInv, TypeOK, ChildInv, Forking, table, loops, sched
<1>5. WaitLockInv'
  BY SlotFacts DEF IInv, TypeOK, WaitLockInv, Crit, table, sched
<1>6. PidInv'
  BY PidFrame DEF IInv, table, sched
<1>7. QED
  BY <1>1, <1>2, <1>3, <1>4, <1>5, <1>6 DEF IInv

LEMMA SchedulerReturnInv ==
  ASSUME IInv, NEW c \in CPUs, scheduler_return(c) PROVE IInv'
<1>1. TypeOK'
  BY SlotFacts DEF IInv, TypeOK, States, PCs, table, loops, scheduler_return
<1>2. StackInv'
  BY SchedulerReturnStack DEF IInv
<1>3. LiveInv'
  BY DEF IInv, TypeOK, LiveInv, table, scheduler_return
<1>4. ChildInv'
  BY DEF IInv, TypeOK, ChildInv, Forking, table, loops, scheduler_return
<1>5. WaitLockInv'
  BY SlotFacts DEF IInv, TypeOK, WaitLockInv, Crit, table, scheduler_return
<1>6. PidInv'
  BY PidFrame DEF IInv, table, scheduler_return
<1>7. QED
  BY <1>1, <1>2, <1>3, <1>4, <1>5, <1>6 DEF IInv

LEMMA KerneltrapInv ==
  ASSUME IInv, NEW c \in CPUs, NEW p \in Slots, kerneltrap(c, p) PROVE IInv'
<1>0. state[p] = "RUNNING" /\ sw[p] = "run" /\ lock[p] = Free
  BY RunsFacts DEF IInv, kerneltrap
<1>1. TypeOK'
  BY SlotFacts DEF IInv, TypeOK, States, PCs, cpus, loops, kerneltrap, yield, Runs
<1>2. StackInv'
  BY StackLeave DEF IInv, kerneltrap, yield
<1>3. LiveInv'
  BY <1>0 DEF IInv, TypeOK, LiveInv, WaitLockInv, Crit, kerneltrap, yield
<1>4. ChildInv'
  BY <1>0 DEF IInv, TypeOK, ChildInv, Forking, loops, kerneltrap, yield
<1>5. WaitLockInv'
  BY <1>0, SlotFacts DEF IInv, TypeOK, WaitLockInv, Crit, kerneltrap, yield
<1>6. PidInv'
  BY <1>0, PidFrame DEF IInv, TypeOK, kerneltrap, yield
<1>7. QED
  BY <1>1, <1>2, <1>3, <1>4, <1>5, <1>6 DEF IInv

LEMMA InterruptInv ==
  ASSUME IInv, NEW c \in CPUs, NEW p \in Slots, NEW fault \in BOOLEAN,
         interrupt(c, p, fault)
  PROVE  IInv'
<1>0. state[p] = "RUNNING" /\ sw[p] = "run" /\ lock[p] = Free
  BY RunsFacts DEF IInv, interrupt
<1>1. TypeOK'
  BY SlotFacts DEF IInv, TypeOK, States, PCs, cpus, loops, interrupt, Runs, Goto
<1>2. StackInv'
  BY StackFrame DEF IInv, interrupt
<1>3. LiveInv'
  BY <1>0 DEF IInv, TypeOK, LiveInv, interrupt, Goto
<1>4. ChildInv'
  BY <1>0 DEF IInv, TypeOK, ChildInv, Forking, loops, interrupt, Goto
<1>5. WaitLockInv'
  BY <1>0, SlotFacts DEF IInv, TypeOK, WaitLockInv, Crit, interrupt, Goto
<1>6. PidInv'
  BY PidFrame DEF IInv, interrupt
<1>7. QED
  BY <1>1, <1>2, <1>3, <1>4, <1>5, <1>6 DEF IInv

LEMMA UsertrapInv ==
  ASSUME IInv, NEW c \in CPUs, NEW p \in Slots, usertrap(c, p) PROVE IInv'
<1>0. state[p] = "RUNNING" /\ sw[p] = "run" /\ lock[p] = Free /\ Runs(c, p) /\ pc[p] = "ret"
  BY RunsFacts DEF IInv, usertrap
<1>1. CASE Goto(p, "exit") /\ UNCHANGED <<table, waitLock, lock, cpus, sw, loops>>
  <2>1. TypeOK'
    BY <1>1 DEF IInv, TypeOK, PCs, table, cpus, loops, Goto
  <2>2. StackInv'
    BY <1>1, StackFrame DEF IInv, table
  <2>3. LiveInv' /\ WaitLockInv'
    BY <1>0, <1>1, SMTT(30) DEF IInv, TypeOK, LiveInv, WaitLockInv, Crit, table, Goto
  <2>4. ChildInv' /\ PidInv'
    BY <1>0, <1>1 DEF IInv, TypeOK, ChildInv, PidInv, Forking, table, loops, Goto
  <2>5. QED
    BY <2>1, <2>2, <2>3, <2>4 DEF IInv
<1>2. CASE Goto(p, "user") /\ yield(c, p)
  <2>1. TypeOK'
    BY <1>2 DEF IInv, TypeOK, States, PCs, cpus, loops, Goto, yield
  <2>2. StackInv'
    BY <1>0, <1>2, StackLeave DEF IInv, yield
  <2>3. LiveInv' /\ WaitLockInv'
    BY <1>0, <1>2, SMTT(30) DEF IInv, TypeOK, LiveInv, WaitLockInv, Crit, yield, Goto
  <2>4. ChildInv' /\ PidInv'
    BY <1>0, <1>2 DEF IInv, TypeOK, ChildInv, PidInv, Forking, yield, loops, Goto
  <2>5. QED
    BY <2>1, <2>2, <2>3, <2>4 DEF IInv
<1>3. QED
  BY <1>1, <1>2 DEF usertrap

LEMMA SyscallInv ==
  ASSUME IInv, NEW c \in CPUs, NEW p \in Slots, NEW l \in Calls, syscall(c, p,
     l) PROVE IInv'
<1>0. state[p] = "RUNNING" /\ sw[p] = "run" /\ lock[p] = Free
  BY RunsFacts DEF IInv, syscall
<1>1. TypeOK'
  BY SlotFacts DEF IInv, TypeOK, States, PCs, table, cpus, loops, syscall, Runs, Goto, Calls
<1>2. StackInv'
  BY StackFrame DEF IInv, table, syscall
<1>3. LiveInv'
  BY <1>0 DEF IInv, TypeOK, LiveInv, table, syscall, Goto, Calls
<1>4. ChildInv'
  BY <1>0 DEF IInv, TypeOK, ChildInv, Forking, table, loops, syscall, Goto, Calls
<1>5. WaitLockInv'
  BY <1>0, SlotFacts DEF IInv, TypeOK, WaitLockInv, Crit, table, syscall, Goto, Calls
<1>6. PidInv'
  BY PidFrame DEF IInv, table, syscall, Calls
<1>7. QED
  BY <1>1, <1>2, <1>3, <1>4, <1>5, <1>6 DEF IInv

LEMMA ForkInv ==
  ASSUME IInv, NEW c \in CPUs, NEW p \in Slots, NEW np \in Slots, fork(c, p, np) PROVE IInv'
<1>0. state[p] = "RUNNING" /\ sw[p] = "run" /\ lock[p] = Free
  BY RunsFacts DEF IInv, fork
<1>1. TypeOK'
  <2>1. nextpid \in 0 .. MaxPid /\ nextpid' \in 1 .. MaxPid + 1
    BY ProcAssumption, SMTT(30) DEF IInv, TypeOK, fork
  <2>2. QED
    BY <2>1 DEF IInv, TypeOK, States, PCs, cpus, fork, Goto
<1>2. StackInv'
  BY StackOff DEF IInv, States, fork
<1>3. LiveInv'
  BY <1>0 DEF IInv, TypeOK, LiveInv, fork, Goto
<1>4. ChildInv'
  BY <1>0 DEF IInv, TypeOK, ChildInv, Forking, fork, Goto
<1>5. WaitLockInv'
  BY <1>0, SlotFacts DEF IInv, TypeOK, WaitLockInv, Crit, fork, Goto
<1>6. PidInv'
  BY <1>0, SMTT(30) DEF IInv, TypeOK, PidInv, fork
<1>7. QED
  BY <1>1, <1>2, <1>3, <1>4, <1>5, <1>6 DEF IInv

LEMMA ForkNomemInv ==
  ASSUME IInv, NEW c \in CPUs, NEW p \in Slots, NEW np \in Slots, fork_nomem(c, p,
     np) PROVE IInv'
<1>0. state[p] = "RUNNING" /\ sw[p] = "run" /\ lock[p] = Free
  BY RunsFacts DEF IInv, fork_nomem
<1>1. TypeOK'
  <2>1. nextpid' \in 1 .. MaxPid + 1 /\ 0 \in 0 .. MaxPid
    BY ProcAssumption, SMTT(30) DEF IInv, TypeOK, fork_nomem
  <2>2. killed' \in [Slots -> BOOLEAN]
    BY DEF IInv, TypeOK, fork_nomem, freeproc
  <2>3. QED
    BY <2>1, <2>2 DEF IInv, TypeOK, States, PCs, cpus, loops, fork_nomem, freeproc, Goto
<1>2. StackInv'
  BY StackOff DEF IInv, States, fork_nomem, freeproc
<1>3. LiveInv'
  BY <1>0 DEF IInv, TypeOK, LiveInv, fork_nomem, freeproc, Goto
<1>4. ChildInv'
  BY <1>0 DEF IInv, TypeOK, ChildInv, Forking, loops, fork_nomem, freeproc, Goto
<1>5. WaitLockInv'
  BY <1>0, SlotFacts DEF IInv, TypeOK, WaitLockInv, Crit, fork_nomem, freeproc, Goto
<1>6. PidInv'
  BY <1>0, SMTT(30) DEF IInv, TypeOK, PidInv, fork_nomem, freeproc
<1>7. QED
  BY <1>1, <1>2, <1>3, <1>4, <1>5, <1>6 DEF IInv

LEMMA ForkFullInv ==
  ASSUME IInv, NEW c \in CPUs, NEW p \in Slots, fork_full(c, p) PROVE IInv'
<1>0. state[p] = "RUNNING" /\ sw[p] = "run" /\ lock[p] = Free
  BY RunsFacts DEF IInv, fork_full
<1>1. TypeOK'
  BY SlotFacts DEF IInv, TypeOK, States, PCs, table, cpus, loops, fork_full, Runs, Goto
<1>2. StackInv'
  BY StackFrame DEF IInv, table, fork_full
<1>3. LiveInv'
  BY <1>0 DEF IInv, TypeOK, LiveInv, table, fork_full, Goto
<1>4. ChildInv'
  BY <1>0 DEF IInv, TypeOK, ChildInv, Forking, table, loops, fork_full, Goto
<1>5. WaitLockInv'
  BY <1>0, SlotFacts DEF IInv, TypeOK, WaitLockInv, Crit, table, fork_full, Goto
<1>6. PidInv'
  BY PidFrame DEF IInv, table, fork_full
<1>7. QED
  BY <1>1, <1>2, <1>3, <1>4, <1>5, <1>6 DEF IInv

LEMMA ForkParentInv ==
  ASSUME IInv, NEW c \in CPUs, NEW p \in Slots, fork_parent(c, p) PROVE IInv'
<1>0. state[p] = "RUNNING" /\ sw[p] = "run" /\ lock[p] = Free
  BY RunsFacts DEF IInv, fork_parent
<1>1. TypeOK'
  BY SlotFacts DEF IInv, TypeOK, States, PCs, cpus, loops, fork_parent, Runs, Goto
<1>2. StackInv'
  BY StackFrame DEF IInv, fork_parent
<1>3. LiveInv'
  BY <1>0 DEF IInv, TypeOK, LiveInv, fork_parent, Goto
<1>4. ChildInv'
  BY <1>0, SMTT(30) DEF IInv, TypeOK, ChildInv, Forking, loops, fork_parent, Goto
<1>5. WaitLockInv'
  BY <1>0, SlotFacts, SMTT(30) DEF IInv, TypeOK, WaitLockInv, Crit, fork_parent, Goto
<1>6. PidInv'
  BY PidFrame DEF IInv, fork_parent
<1>7. QED
  BY <1>1, <1>2, <1>3, <1>4, <1>5, <1>6 DEF IInv

LEMMA ForkRunInv ==
  ASSUME IInv, NEW c \in CPUs, NEW p \in Slots, fork_run(c, p) PROVE IInv'
<1>0. state[p] = "RUNNING" /\ sw[p] = "run" /\ lock[p] = Free
  BY RunsFacts DEF IInv, fork_run
<1>1. TypeOK'
  BY SlotFacts DEF IInv, TypeOK, States, PCs, cpus, fork_run, Runs, Goto
<1>2. StackInv'
  <2>1. child[p] \in Slots /\ state[child[p]] = "USED"
    BY DEF IInv, ChildInv, Forking, fork_run
  <2>2. QED
    BY <2>1, StackOff, ZenonT(30) DEF IInv, States, fork_run
<1>3. LiveInv'
  BY <1>0 DEF IInv, TypeOK, LiveInv, ChildInv, Forking, fork_run, Goto
<1>4. ChildInv'
  BY <1>0 DEF IInv, TypeOK, ChildInv, Forking, fork_run, Goto
<1>5. WaitLockInv'
  <2>1. child[p] \in Slots /\ state[child[p]] = "USED"
    BY DEF IInv, ChildInv, Forking, fork_run
  <2>2. \A s \in Slots : state[s] = "ZOMBIE" => state'[s] = "ZOMBIE"
    BY <2>1 DEF IInv, TypeOK, fork_run
  <2>3. QED
    BY <1>0, <2>2, SMTT(30) DEF IInv, TypeOK, WaitLockInv, Crit, fork_run, Goto
<1>6. PidInv'
  BY <1>0 DEF IInv, TypeOK, PidInv, ChildInv, Forking, fork_run
<1>7. QED
  BY <1>1, <1>2, <1>3, <1>4, <1>5, <1>6 DEF IInv

LEMMA ExitInv ==
  ASSUME IInv, NEW c \in CPUs, NEW p \in Slots, exit(c, p) PROVE IInv'
<1>0. state[p] = "RUNNING" /\ sw[p] = "run" /\ lock[p] = Free
  BY RunsFacts DEF IInv, exit
<1>1. TypeOK'
  BY SlotFacts DEF IInv, TypeOK, States, PCs, table, cpus, loops, exit, Runs, Goto
<1>2. StackInv'
  BY StackFrame DEF IInv, table, exit
<1>3. LiveInv'
  BY <1>0 DEF IInv, TypeOK, LiveInv, table, exit, Goto
<1>4. ChildInv'
  BY <1>0, ChildFrame DEF IInv, TypeOK, Forking, table, loops, exit, Goto
<1>5. WaitLockInv'
  BY <1>0, SlotFacts, SMTT(30) DEF IInv, TypeOK, WaitLockInv, Crit, table, exit, Goto
<1>6. PidInv'
  BY PidFrame DEF IInv, table, exit
<1>7. QED
  BY <1>1, <1>2, <1>3, <1>4, <1>5, <1>6 DEF IInv

LEMMA ReparentInv ==
  ASSUME IInv, NEW c \in CPUs, NEW p \in Slots, reparent(c, p) PROVE IInv'
<1>0. state[p] = "RUNNING" /\ sw[p] = "run" /\ lock[p] = Free
  BY RunsFacts DEF IInv, reparent
<1>1. TypeOK'
  <2>1. i' \in [Slots -> Slots]
    BY AdvanceType, SMTT(30) DEF IInv, TypeOK, reparent
  <2>2. parent' \in [Slots -> Slots \cup {None}]
    BY SlotFacts, SMTT(30) DEF IInv, TypeOK, reparent
  <2>3. pc' \in [Slots -> PCs]
    BY SMTT(30) DEF IInv, TypeOK, PCs, reparent, Goto
  <2>4. QED
    BY <2>1, <2>2, <2>3 DEF IInv, TypeOK, cpus, reparent
<1>2. StackInv'
  BY StackFrame DEF IInv, reparent
<1>3. LiveInv'
  BY <1>0, SMTT(30) DEF IInv, TypeOK, LiveInv, reparent, Goto
<1>4. ChildInv'
  <2>1. pc'[p] \notin Forking /\ \A q \in Slots : q # p => pc'[q] = pc[q]
    BY DEF IInv, TypeOK, reparent, Goto, Forking
  <2>2. UNCHANGED <<state, child>>
    BY DEF reparent
  <2>3. QED
    BY <2>1, <2>2 DEF IInv, ChildInv
<1>5. WaitLockInv'
  BY <1>0, SlotFacts, SMTT(30) DEF IInv, TypeOK, WaitLockInv, Crit, reparent, Goto
<1>6. PidInv'
  BY PidFrame DEF IInv, reparent
<1>7. QED
  BY <1>1, <1>2, <1>3, <1>4, <1>5, <1>6 DEF IInv

LEMMA WakeInitInv ==
  ASSUME IInv, NEW c \in CPUs, NEW p \in Slots, wake_init(c, p) PROVE IInv'
<1>0. state[p] = "RUNNING" /\ sw[p] = "run" /\ lock[p] = Free
  BY RunsFacts DEF IInv, wake_init
<1>1. TypeOK'
  <2>1. i' \in [Slots -> Slots] /\ j' \in [Slots -> Slots]
    <3>1. Advance(i, p) \in [Slots -> Slots] /\ Advance(j, p) \in [Slots -> Slots]
      BY AdvanceType DEF IInv, TypeOK
    <3>2. QED
      BY <3>1 DEF IInv, TypeOK, wake_init, wakeup
  <2>2. pc' \in [Slots -> PCs]
    BY SMTT(30) DEF IInv, TypeOK, PCs, wake_init, Goto
  <2>3. state' \in [Slots -> States]
    BY DEF IInv, TypeOK, States, wake_init, wakeup
  <2>4. QED
    BY <2>1, <2>2, <2>3 DEF IInv, TypeOK, cpus, wake_init, wakeup
<1>2. StackInv'
  <2>1. j[p] \in Slots
    BY DEF IInv, TypeOK
  <2>2. CASE UNCHANGED state
    BY <2>2, StackFrame DEF IInv, wake_init, wakeup
  <2>3. CASE ~UNCHANGED state
    <3>1. /\ lock[j[p]] = Free /\ state[j[p]] = "SLEEPING"
          /\ state' = [state EXCEPT ![j[p]] = "RUNNABLE"]
      BY <2>1, <2>3 DEF IInv, TypeOK, wake_init, wakeup
    <3>2. QED
      BY <2>1, <3>1, StackOff DEF IInv, States, wake_init, wakeup
  <2>4. QED
    BY <2>2, <2>3
<1>3. LiveInv'
  BY <1>0, SMTT(30) DEF IInv, TypeOK, LiveInv, wake_init, wakeup, Goto
<1>4. ChildInv'
  BY <1>0, ChildFrame DEF IInv, TypeOK, Forking, wake_init, wakeup, Goto
<1>5. WaitLockInv'
  BY <1>0, SlotFacts, SMTT(30) DEF IInv, TypeOK, WaitLockInv, Crit, wake_init, wakeup, Goto
<1>6. PidInv'
  BY <1>0, PidFrame DEF IInv, TypeOK, wake_init, wakeup
<1>7. QED
  BY <1>1, <1>2, <1>3, <1>4, <1>5, <1>6 DEF IInv

LEMMA WakeParentInv ==
  ASSUME IInv, NEW c \in CPUs, NEW p \in Slots, wake_parent(c, p) PROVE IInv'
<1>0. state[p] = "RUNNING" /\ sw[p] = "run" /\ lock[p] = Free
  BY RunsFacts DEF IInv, wake_parent
<1>1. TypeOK'
  <2>1. i' \in [Slots -> Slots] /\ j' \in [Slots -> Slots]
    BY AdvanceType DEF IInv, TypeOK, wake_parent, wakeup
  <2>2. pc' \in [Slots -> PCs]
    BY DEF IInv, TypeOK, PCs, wake_parent, Goto
  <2>3. state' \in [Slots -> States]
    BY DEF IInv, TypeOK, States, wake_parent, wakeup
  <2>4. QED
    BY <2>1, <2>2, <2>3 DEF IInv, TypeOK, cpus, wake_parent, wakeup
<1>2. StackInv'
  <2>1. j[p] \in Slots
    BY DEF IInv, TypeOK
  <2>2. CASE UNCHANGED state
    BY <2>2, StackFrame DEF IInv, wake_parent, wakeup
  <2>3. CASE ~UNCHANGED state
    <3>1. /\ lock[j[p]] = Free /\ state[j[p]] = "SLEEPING"
          /\ state' = [state EXCEPT ![j[p]] = "RUNNABLE"]
      BY <2>1, <2>3 DEF IInv, TypeOK, wake_parent, wakeup
    <3>2. QED
      BY <2>1, <3>1, StackOff DEF IInv, States, wake_parent, wakeup
  <2>4. QED
    BY <2>2, <2>3
<1>3. LiveInv'
  BY <1>0 DEF IInv, TypeOK, LiveInv, wake_parent, wakeup, Goto
<1>4. ChildInv'
  BY <1>0, ChildFrame DEF IInv, TypeOK, Forking, wake_parent, wakeup, Goto
<1>5. WaitLockInv'
  BY <1>0, SlotFacts DEF IInv, TypeOK, WaitLockInv, Crit, wake_parent, wakeup, Goto
<1>6. PidInv'
  BY <1>0, PidFrame DEF IInv, TypeOK, wake_parent, wakeup
<1>7. QED
  BY <1>1, <1>2, <1>3, <1>4, <1>5, <1>6 DEF IInv

LEMMA ExitZombieInv ==
  ASSUME IInv, NEW c \in CPUs, NEW p \in Slots, exit_zombie(c, p) PROVE IInv'
<1>0. state[p] = "RUNNING" /\ sw[p] = "run" /\ lock[p] = Free
  BY RunsFacts DEF IInv, exit_zombie
<1>1. TypeOK'
  BY SlotFacts DEF IInv, TypeOK, States, PCs, cpus, loops, exit_zombie, Runs
<1>2. StackInv'
  BY StackLeave DEF IInv, exit_zombie
<1>3. LiveInv'
  BY <1>0 DEF IInv, TypeOK, LiveInv, exit_zombie
<1>4. ChildInv'
  BY <1>0 DEF IInv, TypeOK, ChildInv, Forking, loops, exit_zombie
<1>5. WaitLockInv'
  BY <1>0, SlotFacts DEF IInv, TypeOK, WaitLockInv, Crit, exit_zombie
<1>6. PidInv'
  BY <1>0, PidFrame DEF IInv, TypeOK, exit_zombie
<1>7. QED
  BY <1>1, <1>2, <1>3, <1>4, <1>5, <1>6 DEF IInv

LEMMA WaitInv ==
  ASSUME IInv, NEW c \in CPUs, NEW p \in Slots, wait(c, p) PROVE IInv'
<1>0. state[p] = "RUNNING" /\ sw[p] = "run" /\ lock[p] = Free
  BY RunsFacts DEF IInv, wait
<1>1. TypeOK'
  BY SlotFacts DEF IInv, TypeOK, States, PCs, table, cpus, loops, wait, Runs, Goto
<1>2. StackInv'
  BY StackFrame DEF IInv, table, wait
<1>3. LiveInv'
  BY <1>0 DEF IInv, TypeOK, LiveInv, table, wait, Goto
<1>4. ChildInv'
  BY <1>0, ChildFrame DEF IInv, TypeOK, Forking, table, loops, wait, Goto
<1>5. WaitLockInv'
  BY <1>0, SlotFacts, SMTT(30) DEF IInv, TypeOK, WaitLockInv, Crit, table, wait, Goto
<1>6. PidInv'
  BY PidFrame DEF IInv, table, wait
<1>7. QED
  BY <1>1, <1>2, <1>3, <1>4, <1>5, <1>6 DEF IInv

LEMMA ScanInv ==
  ASSUME IInv, NEW c \in CPUs, NEW p \in Slots, NEW copied \in BOOLEAN,
         scan(c, p, copied)
  PROVE  IInv'
<1>0. state[p] = "RUNNING" /\ sw[p] = "run" /\ lock[p] = Free
  BY RunsFacts DEF IInv, scan
(* The step frees a zombie, or leaves every slot as it is.                 *)
<1>f. /\ i[p] \in Slots /\ sw' = sw
      /\ \/ /\ state[i[p]] = "ZOMBIE" /\ lock[i[p]] = Free /\ freeproc(i[p])
            /\ pc' = [pc EXCEPT ![p] = "ret", ![i[p]] = "user"]
         \/ /\ UNCHANGED <<state, pid, parent, chan, killed>>
            /\ \E l \in {"ret", "scan", "scanned"} : pc' = [pc EXCEPT ![p] = l]
  <2>1. i[p] \in Slots
    BY DEF IInv, TypeOK
  <2>2. QED
    BY <2>1 DEF scan, Goto
<1>1. TypeOK'
  <2>1. i' \in [Slots -> Slots] /\ i[p] \in Slots
    <3>1. Advance(i, p) \in [Slots -> Slots] /\ [i EXCEPT ![p] = 1] \in [Slots -> Slots]
      BY AdvanceType, SlotFacts DEF IInv, TypeOK, initproc
    <3>2. i' \in {Advance(i, p), [i EXCEPT ![p] = 1]}
      BY DEF scan
    <3>3. QED
      BY <3>1, <3>2 DEF IInv, TypeOK
  <2>2. killed' \in [Slots -> BOOLEAN] /\ havekids' \in [Slots -> BOOLEAN]
    BY DEF IInv, TypeOK, scan, freeproc
  <2>3. pc' \in [Slots -> PCs] /\ waitLock' \in Slots \cup {Free}
    BY SMTT(30) DEF IInv, TypeOK, PCs, scan, Goto
  <2>4. state' \in [Slots -> States]
    BY <2>1, SMTT(30) DEF IInv, TypeOK, States, scan, freeproc
  <2>5. pid' \in [Slots -> 0 .. MaxPid]
    <3>1. 0 \in 0 .. MaxPid
      BY ProcAssumption, SMTT(30)
    <3>2. QED
      BY <3>1, SMTT(30) DEF IInv, TypeOK, scan, freeproc
  <2>6. parent' \in [Slots -> Slots \cup {None}] /\ chan' \in [Slots -> Slots \cup {None}]
    BY ZenonT(30) DEF IInv, TypeOK, scan, freeproc
  <2>7. QED
    BY <2>1, <2>2, <2>3, <2>4, <2>5, <2>6 DEF IInv, TypeOK, cpus, scan
<1>2. StackInv'
  <2>1. CASE UNCHANGED state
    BY <2>1, StackFrame DEF IInv, scan
  <2>2. CASE ~UNCHANGED state
    <3>1. /\ i[p] \in Slots /\ lock[i[p]] = Free /\ state[i[p]] = "ZOMBIE"
          /\ state' = [state EXCEPT ![i[p]] = "UNUSED"]
      BY <1>f, <2>2 DEF freeproc
    <3>2. QED
      BY <3>1, StackOff DEF IInv, States, scan
  <2>3. QED
    BY <2>1, <2>2
<1>3. LiveInv'
  <2>1. CASE UNCHANGED state
    <3>1. state[i[p]] = "ZOMBIE" => ~freeproc(i[p])
      BY <1>f, <2>1 DEF IInv, TypeOK, freeproc
    <3>2. PICK l \in {"ret", "scan", "scanned"} : pc' = [pc EXCEPT ![p] = l]
      BY <1>f, <3>1
    <3>3. pc'[p] = l /\ \A q \in Slots \ {p} : pc'[q] = pc[q]
      BY <3>2 DEF IInv, TypeOK
    <3>4. QED
      BY <1>0, <1>f, <2>1, <3>3 DEF IInv, LiveInv
  <2>2. CASE ~UNCHANGED state
    <3>1. /\ pc' = [pc EXCEPT ![p] = "ret", ![i[p]] = "user"] /\ i[p] \in Slots
          /\ state' = [state EXCEPT ![i[p]] = "UNUSED"] /\ state[i[p]] = "ZOMBIE" /\ sw' = sw
      BY <1>f, <2>2 DEF freeproc
    <3>2. QED
      BY <1>0, <3>1 DEF IInv, TypeOK, LiveInv
  <2>3. QED
    BY <2>1, <2>2
<1>4. ChildInv'
  <2>1. \A q \in Slots : pc'[q] \in Forking => pc[q] \in Forking
    BY SMTT(30) DEF IInv, TypeOK, scan, Goto, Forking
  <2>2. \A s \in Slots : state[s] = "USED" => state'[s] = "USED"
    BY SMTT(30) DEF IInv, TypeOK, scan, freeproc
  <2>3. QED
    BY <2>1, <2>2, ChildFrame DEF IInv, scan
<1>5. WaitLockInv'
  BY <1>0, SlotFacts, SMTT(30) DEF IInv, TypeOK, WaitLockInv, Crit, LiveInv, scan, freeproc, Goto
<1>6. PidInv'
  <2>1. CASE UNCHANGED <<state, pid>>
    BY <2>1 DEF IInv, PidInv, scan
  <2>2. CASE ~UNCHANGED <<state, pid>>
    <3>1. i[p] \in Slots /\ state[i[p]] = "ZOMBIE" /\ freeproc(i[p]) /\ UNCHANGED nextpid
      BY <1>f, <2>2 DEF scan
    <3>2. state'[i[p]] = "UNUSED" /\ pid'[i[p]] = 0
      BY <3>1 DEF IInv, TypeOK, freeproc
    <3>3. \A s \in Slots \ {i[p]} : state'[s] = state[s] /\ pid'[s] = pid[s]
      BY <3>1 DEF IInv, TypeOK, freeproc
    <3>4. pid[i[p]] \in Nat /\ nextpid \in Nat \ {0}
      BY <3>1, SMTT(30) DEF IInv, TypeOK
    <3>5. ASSUME NEW s \in Slots
          PROVE  (pid'[s] = 0 <=> state'[s] = "UNUSED") /\ pid'[s] < nextpid'
      <4>1. CASE s = i[p]
        BY <3>1, <3>2, <3>4, <4>1, SMTT(30)
      <4>2. CASE s # i[p]
        BY <3>1, <3>3, <4>2 DEF IInv, PidInv
      <4>3. QED
        BY <4>1, <4>2
    <3>6. \A s, t \in Slots : pid[s] = pid[t] /\ s # t => pid[s] = 0
      BY DEF IInv, PidInv
    <3>7. ASSUME NEW s \in Slots, NEW t \in Slots, pid'[s] = pid'[t], s # t
          PROVE  pid'[s] = 0
      <4>1. CASE s = i[p] \/ t = i[p]
        BY <3>2, <3>7, <4>1
      <4>2. CASE s # i[p] /\ t # i[p]
        BY <3>3, <3>6, <3>7, <4>2
      <4>3. QED
        BY <4>1, <4>2
    <3>8. QED
      BY <3>5, <3>7 DEF PidInv
  <2>3. QED
    BY <2>1, <2>2
<1>7. QED
  BY <1>1, <1>2, <1>3, <1>4, <1>5, <1>6 DEF IInv

LEMMA WaitTestInv ==
  ASSUME IInv, NEW c \in CPUs, NEW p \in Slots, wait_test(c, p) PROVE IInv'
<1>0. state[p] = "RUNNING" /\ sw[p] = "run" /\ lock[p] = Free
  BY RunsFacts DEF IInv, wait_test
<1>1. TypeOK'
  <2>1. havekids' \in [Slots -> BOOLEAN]
    BY DEF IInv, TypeOK, wait_test
  <2>2. pc' \in [Slots -> PCs] /\ waitLock' \in Slots \cup {Free}
    BY DEF IInv, TypeOK, PCs, wait_test, Goto
  <2>3. QED
    BY <2>1, <2>2 DEF IInv, TypeOK, table, cpus, wait_test
<1>2. StackInv'
  BY StackFrame DEF IInv, table, wait_test
<1>3. LiveInv'
  BY <1>0, SMTT(30) DEF IInv, TypeOK, LiveInv, table, wait_test, Goto
<1>4. ChildInv'
  BY <1>0, ChildFrame DEF IInv, TypeOK, Forking, table, wait_test, Goto
<1>5. WaitLockInv'
  BY <1>0, SlotFacts, SMTT(30) DEF IInv, TypeOK, WaitLockInv, Crit, table, wait_test, Goto
<1>6. PidInv'
  BY PidFrame DEF IInv, table, wait_test
<1>7. QED
  BY <1>1, <1>2, <1>3, <1>4, <1>5, <1>6 DEF IInv

LEMMA SleepInv ==
  ASSUME IInv, NEW c \in CPUs, NEW p \in Slots, sleep(c, p) PROVE IInv'
<1>0. state[p] = "RUNNING" /\ sw[p] = "run" /\ lock[p] = Free
  BY RunsFacts DEF IInv, sleep
<1>1. TypeOK'
  BY SlotFacts DEF IInv, TypeOK, States, PCs, cpus, loops, sleep, Runs, Goto
<1>2. StackInv'
  BY StackLeave DEF IInv, sleep
<1>3. LiveInv'
  BY <1>0 DEF IInv, TypeOK, LiveInv, sleep, Goto
<1>4. ChildInv'
  BY <1>0 DEF IInv, TypeOK, ChildInv, Forking, loops, sleep, Goto
<1>5. WaitLockInv'
  BY <1>0, SlotFacts DEF IInv, TypeOK, WaitLockInv, Crit, sleep, Goto
<1>6. PidInv'
  BY <1>0, PidFrame DEF IInv, TypeOK, sleep
<1>7. QED
  BY <1>1, <1>2, <1>3, <1>4, <1>5, <1>6 DEF IInv

LEMMA KillInv ==
  ASSUME IInv, NEW c \in CPUs, NEW p \in Slots, NEW s \in Slots, kill(c, p, s) PROVE IInv'
<1>0. state[p] = "RUNNING" /\ sw[p] = "run" /\ lock[p] = Free
  BY RunsFacts DEF IInv, kill
<1>1. TypeOK'
  BY SlotFacts DEF IInv, TypeOK, States, PCs, cpus, loops, kill, Runs, Goto
<1>2. StackInv'
  <2>1. CASE UNCHANGED state
    BY <2>1, StackFrame DEF IInv, kill
  <2>2. CASE ~UNCHANGED state
    <3>1. state[s] = "SLEEPING" /\ state' = [state EXCEPT ![s] = "RUNNABLE"]
      BY <2>2 DEF IInv, TypeOK, kill
    <3>2. QED
      BY <3>1, StackOff DEF IInv, States, kill
  <2>3. QED
    BY <2>1, <2>2
<1>3. LiveInv'
  BY <1>0 DEF IInv, TypeOK, LiveInv, kill, Goto
<1>4. ChildInv'
  BY <1>0 DEF IInv, TypeOK, ChildInv, Forking, loops, kill, Goto
<1>5. WaitLockInv'
  BY <1>0, SlotFacts DEF IInv, TypeOK, WaitLockInv, Crit, kill, Goto
<1>6. PidInv'
  BY <1>0, PidFrame DEF IInv, TypeOK, kill
<1>7. QED
  BY <1>1, <1>2, <1>3, <1>4, <1>5, <1>6 DEF IInv

LEMMA InitIInv == Init => IInv
<1> SUFFICES ASSUME Init PROVE IInv
  OBVIOUS
<1>1. TypeOK
  <2>1. killed \in [Slots -> BOOLEAN] /\ havekids \in [Slots -> BOOLEAN]
    BY DEF Init
  <2>2. nextpid \in 1 .. MaxPid + 1 /\ pid \in [Slots -> 0 .. MaxPid]
    BY ProcAssumption, SMTT(30) DEF Init
  <2>3. i \in [Slots -> Slots] /\ j \in [Slots -> Slots]
    BY SlotFacts DEF Init, initproc
  <2>4. /\ state \in [Slots -> States] /\ pc \in [Slots -> PCs]
        /\ sw \in [Slots -> {"run", "out", "in"}]
    BY DEF Init, States, PCs
  <2>5. /\ parent \in [Slots -> Slots \cup {None}] /\ chan \in [Slots -> Slots \cup {None}]
        /\ child \in [Slots -> Slots \cup {None}] /\ lock \in [Slots -> CPUs \cup {Free}]
        /\ proc \in [CPUs -> Slots \cup {None}] /\ thread \in [CPUs -> Slots \cup {Sched}]
        /\ waitLock \in Slots \cup {Free}
    BY DEF Init
  <2>6. QED
    BY <2>1, <2>2, <2>3, <2>4, <2>5 DEF TypeOK
<1>2. StackInv
  BY SlotFacts DEF Init, StackInv
<1>3. LiveInv /\ ChildInv /\ WaitLockInv
  BY SlotFacts DEF Init, LiveInv, ChildInv, WaitLockInv, Crit, Forking
<1>4. PidInv
  BY SMTT(30) DEF Init, PidInv
<1>5. QED
  BY <1>1, <1>2, <1>3, <1>4 DEF IInv

(* The disjuncts of Next.                                                  *)
LEMMA NextCases ==
  ASSUME Next
  PROVE  \E c \in CPUs :
    \/ scheduler_return(c)
    \/ \E p \in Slots :
         \/ scheduler(c, p) \/ sched_return(c, p) \/ sched(c, p) \/ kerneltrap(c, p)
         \/ usertrap(c, p) \/ fork_full(c, p) \/ fork_parent(c, p) \/ fork_run(c, p)
         \/ exit(c, p) \/ reparent(c, p) \/ wake_init(c, p) \/ wake_parent(c, p)
         \/ exit_zombie(c, p) \/ wait(c, p) \/ wait_test(c, p) \/ sleep(c, p)
         \/ \E copied \in BOOLEAN : scan(c, p, copied)
         \/ \E s \in Slots : fork(c, p, s) \/ fork_nomem(c, p, s) \/ kill(c, p, s)
         \/ \E fault \in BOOLEAN : interrupt(c, p, fault)
         \/ \E l \in Calls : syscall(c, p, l)
<1>1. PICK c \in CPUs :
        \/ Switch(c)
        \/ \E p \in Slots :
             \/ scheduler(c, p) \/ Kernel(c, p) \/ kerneltrap(c, p)
             \/ p # initproc /\ scan(c, p, FALSE)
             \/ \E fault \in BOOLEAN : interrupt(c, p, fault)
             \/ \E l \in Calls : syscall(c, p, l)
  BY DEF Next
<1>2. CASE Switch(c)
  BY <1>2 DEF Switch
<1>3. ASSUME NEW p \in Slots, Kernel(c, p)
      PROVE  \/ usertrap(c, p) \/ fork_full(c, p) \/ fork_parent(c, p) \/ fork_run(c, p)
             \/ exit(c, p) \/ reparent(c, p) \/ wake_init(c, p) \/ wake_parent(c, p)
             \/ exit_zombie(c, p) \/ wait(c, p) \/ wait_test(c, p) \/ sleep(c, p)
             \/ \E copied \in BOOLEAN : scan(c, p, copied)
             \/ \E s \in Slots : fork(c, p, s) \/ fork_nomem(c, p, s) \/ kill(c, p, s)
  BY <1>3 DEF Kernel
<1>4. QED
  BY <1>1, <1>2, <1>3

LEMMA NextIInv == IInv /\ [Next]_vars => IInv'
<1> SUFFICES ASSUME IInv, [Next]_vars PROVE IInv'
  OBVIOUS
<1>1. CASE UNCHANGED vars
  <2>1. UNCHANGED <<state, parent, pid, chan, killed, nextpid, waitLock, lock, proc, thread,
                    pc, sw, child, i, j, havekids>>
    BY <1>1 DEF vars, table, cpus, loops
  <2>2. TypeOK' /\ PidInv'
    BY <2>1 DEF IInv, TypeOK, PidInv
  <2>3. StackInv'
    BY <2>1, StackFrame DEF IInv, cpus
  <2>4. LiveInv' /\ ChildInv' /\ WaitLockInv'
    BY <2>1 DEF IInv, LiveInv, ChildInv, WaitLockInv
  <2>5. QED
    BY <2>2, <2>3, <2>4 DEF IInv
<1>2. CASE Next
  BY <1>2, NextCases, SchedulerInv, SchedReturnInv, SchedInv, SchedulerReturnInv, KerneltrapInv,
     InterruptInv, UsertrapInv, SyscallInv, ForkInv, ForkNomemInv, ForkFullInv, ForkParentInv,
     ForkRunInv, ExitInv, ReparentInv, WakeInitInv, WakeParentInv, ExitZombieInv, WaitInv,
     ScanInv, WaitTestInv, SleepInv, KillInv
<1>3. QED
  BY <1>1, <1>2

(* The inductive invariant of the process table and the CPUs holds         *)
(* initially and is kept by every step of proc.c and trap.c.               *)
THEOREM Invariance == Spec => []IInv
  BY InitIInv, NextIInv, PTL DEF Spec

(* The process table keeps its types, for any number of slots and CPUs:    *)
(* scans of the table stay in it and pids stay below nextpid               *)
(* (proc.c:91-101, 106-131).                                               *)
THEOREM TypeCorrect == Spec => []TypeOK
  BY Invariance, PTL DEF IInv

(* No two CPUs are on one kernel stack, because p->lock is held across     *)
(* swtch() (proc.c:451-462, 499-507).                                      *)
THEOREM StacksApart == Spec => []OneCpuPerStack
<1>1. IInv => OneCpuPerStack
  BY SlotFacts, SMTT(30) DEF IInv, TypeOK, StackInv, OneCpuPerStack
<1>2. QED
  BY <1>1, Invariance, PTL

(* wait() frees a slot only when no CPU is on its stack any more           *)
(* (proc.c:401-416).                                                       *)
THEOREM FreedStack == Spec => []FreedIsOffCpu
<1>1. IInv => FreedIsOffCpu
  BY SlotFacts, SMTT(30) DEF IInv, TypeOK, StackInv, OnCpu, FreedIsOffCpu
<1>2. QED
  BY <1>1, Invariance, PTL

(* sched() never panics for the locks held or the state (proc.c:484-489).  *)
THEOREM SchedIsSafe == Spec => []SchedHoldsOnlyItsLock
<1>1. IInv => SchedHoldsOnlyItsLock
  BY SlotFacts, SMTT(30) DEF IInv, TypeOK, StackInv, OnCpu, WaitLockInv, SchedHoldsOnlyItsLock
<1>2. QED
  BY <1>1, Invariance, PTL

(* A pid names at most one process (proc.c:91-101).                        *)
THEOREM UniquePids == Spec => []PidsDiffer
<1>1. IInv => PidsDiffer
  BY DEF IInv, PidInv, PidsDiffer
<1>2. QED
  BY <1>1, Invariance, PTL

-----------------------------------------------------------------------------
(* exit() against wait(): no wakeup is lost, and every process has a       *)
(* parent that can wait for it.                                            *)

Exits == {"exit", "reparent", "wake_init", "wake_parent", "zombie"}
Dead == {"UNUSED", "USED", "ZOMBIE"}
Scans == {"fork_run", "reparent", "wake_init", "wake_parent", "zombie", "scan", "scanned", "sleep"}

(* init never exits.                                                       *)
InitInv ==
  ~killed[initproc] /\ pc[initproc] \notin Exits /\ state[initproc] \notin Dead

(* Parents are alive, and a process that exits has given its children away *)
(* up to where its scan of the table is.                                   *)
FamilyInv ==
  /\ \A s, q \in Slots : parent[s] = q => state[q] \notin Dead
  /\ \A s \in Slots \ {initproc} : state[s] \notin {"UNUSED", "USED"} => parent[s] # None
  /\ \A p \in Slots : pc[p] = "fork_run" => parent[child[p]] = p
  /\ \A q, s \in Slots : parent[s] = q =>
       /\ pc[q] \notin {"wake_parent", "zombie"}
       /\ pc[q] = "reparent" => s >= i[q]
       /\ pc[q] = "wake_init" => s > i[q]

(* Scans start at the first slot.                                          *)
LoopInv ==
  /\ \A p \in Slots : pc[p] \notin {"reparent", "wake_init", "scan"} => i[p] = 1
  /\ \A p \in Slots : pc[p] \notin {"wake_init", "wake_parent"} => j[p] = 1

ZombieOf(s, p) == parent[s] = p /\ state[s] = "ZOMBIE"
Asleep(p) == state[p] = "SLEEPING" /\ chan[p] = p

(* Only init sleeps while it has a zombie child, and only until the        *)
(* process that has just given it the child wakes it; the slots wait() has *)
(* scanned hold no zombie child; and an exiting process has woken its      *)
(* parent before it becomes a zombie.                                      *)
WakeInv ==
  /\ \A p, s \in Slots : ZombieOf(s, p) /\ Asleep(p) =>
       /\ p = initproc
       /\ \E q \in Slots : waitLock = q /\ pc[q] = "wake_init" /\ j[q] = 1
  /\ \A p, s \in Slots : ZombieOf(s, p) =>
       /\ pc[p] \notin {"scanned", "sleep"}
       /\ pc[p] = "scan" => s >= i[p]
  /\ \A p, s \in Slots : parent[s] = p /\ Asleep(p) =>
       /\ ~(pc[s] = "zombie" /\ sw[s] = "run")
       /\ pc[s] = "wake_parent" => p >= j[s]

WInv == InitInv /\ FamilyInv /\ LoopInv /\ WakeInv

-----------------------------------------------------------------------------
(* Steps outside the scans of exit() and wait() that put nobody to sleep   *)
(* and make no zombie.                                                     *)
QuietSlots ==
  \A s \in Slots : /\ parent'[s] = parent[s] \/ (parent'[s] = None /\ state'[s] = "UNUSED")
                   /\ state'[s] = "ZOMBIE" <=> state[s] = "ZOMBIE"
                   /\ state'[s] \in {"UNUSED", "USED"} <=> state[s] \in {"UNUSED", "USED"}
                   /\ Asleep(s)' => Asleep(s)

QuietCalls ==
  \A q \in Slots : /\ pc'[q] = pc[q] \/ (pc[q] \notin Scans /\ pc'[q] \notin Scans)
                   /\ pc[q] = "fork_run" => child'[q] = child[q]
                   /\ pc[q] = "zombie" /\ sw'[q] = "run" => sw[q] = "run"

LEMMA QuietStep ==
  ASSUME IInv, IInv', FamilyInv, LoopInv, WakeInv, QuietSlots, QuietCalls,
         UNCHANGED <<i, j, waitLock>>
  PROVE  FamilyInv' /\ LoopInv' /\ WakeInv'
<1> USE DEF QuietSlots, QuietCalls
<1>1. \A q \in Slots : pc'[q] \in Scans => pc'[q] = pc[q]
  OBVIOUS
<1>2. \A s, q \in Slots : parent'[s] = q => parent[s] = q
  BY SlotFacts
<1>3. FamilyInv'
  <2>1. \A s, q \in Slots : parent'[s] = q => state'[q] \notin Dead
    BY <1>2, SMTT(30) DEF FamilyInv, Dead
  <2>2. \A s \in Slots \ {initproc} : state'[s] \notin {"UNUSED", "USED"} => parent'[s] # None
    BY DEF FamilyInv
  <2>3. \A p \in Slots : pc'[p] = "fork_run" => parent'[child'[p]] = p
    <3>1. SUFFICES ASSUME NEW p \in Slots, pc'[p] = "fork_run" PROVE parent'[child'[p]] = p
      OBVIOUS
    <3>2. pc[p] = "fork_run" /\ child'[p] = child[p]
      BY <1>1, <3>1 DEF Scans
    <3>3. child'[p] \in Slots /\ state'[child'[p]] = "USED"
      BY <3>1 DEF IInv, ChildInv, Forking
    <3>4. QED
      BY <3>2, <3>3, SMTT(30) DEF FamilyInv
  <2>4. \A q, s \in Slots : parent'[s] = q =>
          /\ pc'[q] \notin {"wake_parent", "zombie"}
          /\ pc'[q] = "reparent" => s >= i'[q]
          /\ pc'[q] = "wake_init" => s > i'[q]
    BY <1>1, <1>2, SMTT(30) DEF FamilyInv, Scans
  <2>5. QED
    BY <2>1, <2>2, <2>3, <2>4 DEF FamilyInv
<1>4. LoopInv'
  BY DEF LoopInv, Scans
<1>5. \A s, p \in Slots : ZombieOf(s, p)' => ZombieOf(s, p)
  BY <1>2 DEF ZombieOf
<1>6. WakeInv'
  <2>1. \A p, s \in Slots : ZombieOf(s, p)' /\ Asleep(p)' =>
          /\ p = initproc
          /\ \E q \in Slots : waitLock' = q /\ pc'[q] = "wake_init" /\ j'[q] = 1
    <3>1. SUFFICES ASSUME NEW p \in Slots, NEW s \in Slots, ZombieOf(s, p)', Asleep(p)'
                   PROVE  /\ p = initproc
                          /\ \E q \in Slots : waitLock' = q /\ pc'[q] = "wake_init" /\ j'[q] = 1
      OBVIOUS
    <3>2. p = initproc /\ \E q \in Slots : waitLock = q /\ pc[q] = "wake_init" /\ j[q] = 1
      BY <1>5, <3>1 DEF WakeInv
    <3>3. \A q \in Slots : pc[q] = "wake_init" => pc'[q] = "wake_init"
      BY DEF Scans
    <3>4. QED
      BY <3>2, <3>3
  <2>2. \A p, s \in Slots : ZombieOf(s, p)' =>
          /\ pc'[p] \notin {"scanned", "sleep"}
          /\ pc'[p] = "scan" => s >= i'[p]
    BY <1>1, <1>5 DEF WakeInv, Scans
  <2>3. \A p, s \in Slots : parent'[s] = p /\ Asleep(p)' =>
          /\ ~(pc'[s] = "zombie" /\ sw'[s] = "run")
          /\ pc'[s] = "wake_parent" => p >= j'[s]
    BY <1>1, <1>2, SMTT(30) DEF WakeInv, Scans
  <2>4. QED
    BY <2>1, <2>2, <2>3 DEF WakeInv
<1>7. QED
  BY <1>3, <1>4, <1>6

LEMMA SchedulerW ==
  ASSUME IInv, IInv', WInv, NEW c \in CPUs, NEW p \in Slots,
         scheduler(c, p)
  PROVE  WInv'
<1> TypeOK
  BY DEF IInv
<1>0. state[p] = "RUNNABLE"
  BY SlotFacts DEF IInv, StackInv, OnCpu, scheduler
<1>1. InitInv'
  BY SlotFacts DEF TypeOK, WInv, InitInv, Exits, Dead, table, scheduler
<1>2. QuietSlots
  BY <1>0, SlotFacts DEF TypeOK, QuietSlots, Asleep, table, scheduler
<1>3. QuietCalls
  BY <1>0, SlotFacts DEF TypeOK, QuietCalls, Scans, table, loops, scheduler
<1>4. UNCHANGED <<i, j, waitLock>>
  BY DEF table, loops, scheduler
<1>5. QED
  BY <1>1, <1>2, <1>3, <1>4, QuietStep DEF WInv

LEMMA SchedReturnW ==
  ASSUME IInv, IInv', WInv, NEW c \in CPUs, NEW p \in Slots,
         sched_return(c, p)
  PROVE  WInv'
<1> TypeOK
  BY DEF IInv
<1>0. state[p] = "RUNNING" /\ pc[p] # "zombie"
  BY SlotFacts, SMTT(30) DEF IInv, StackInv, OnCpu, WaitLockInv, Crit, sched_return
<1>1. InitInv'
  BY SlotFacts DEF TypeOK, WInv, InitInv, Exits, Dead, table, sched_return
<1>2. QuietSlots
  BY <1>0, SlotFacts DEF TypeOK, QuietSlots, Asleep, table, sched_return
<1>3. QuietCalls
  BY <1>0, SlotFacts DEF TypeOK, QuietCalls, Scans, table, loops, sched_return
<1>4. UNCHANGED <<i, j, waitLock>>
  BY DEF table, loops, sched_return
<1>5. QED
  BY <1>1, <1>2, <1>3, <1>4, QuietStep DEF WInv

LEMMA SchedW ==
  ASSUME IInv, IInv', WInv, NEW c \in CPUs, NEW p \in Slots,
         sched(c, p)
  PROVE  WInv'
<1> TypeOK
  BY DEF IInv
<1>1. InitInv'
  BY SlotFacts DEF TypeOK, WInv, InitInv, Exits, Dead, table, sched
<1>2. QuietSlots
  BY SlotFacts DEF TypeOK, QuietSlots, Asleep, table, sched
<1>3. QuietCalls
  BY SlotFacts DEF TypeOK, QuietCalls, Scans, table, loops, sched
<1>4. UNCHANGED <<i, j, waitLock>>
  BY DEF table, loops, sched
<1>5. QED
  BY <1>1, <1>2, <1>3, <1>4, QuietStep DEF WInv

LEMMA SchedulerReturnW ==
  ASSUME IInv, IInv', WInv, NEW c \in CPUs,
         scheduler_return(c)
  PROVE  WInv'
<1> TypeOK
  BY DEF IInv
<1>1. InitInv'
  BY SlotFacts DEF TypeOK, WInv, InitInv, Exits, Dead, table, scheduler_return
<1>2. QuietSlots
  BY SlotFacts DEF TypeOK, QuietSlots, Asleep, table, scheduler_return
<1>3. QuietCalls
  BY SlotFacts DEF TypeOK, QuietCalls, Scans, table, loops, scheduler_return
<1>4. UNCHANGED <<i, j, waitLock>>
  BY DEF table, loops, scheduler_return
<1>5. QED
  BY <1>1, <1>2, <1>3, <1>4, QuietStep DEF WInv

LEMMA KerneltrapW ==
  ASSUME IInv, IInv', WInv, NEW c \in CPUs, NEW p \in Slots,
         kerneltrap(c, p)
  PROVE  WInv'
<1> TypeOK
  BY DEF IInv
<1>0. state[p] = "RUNNING" /\ sw[p] = "run"
  BY RunsFacts DEF IInv, kerneltrap
<1>1. InitInv'
  BY SlotFacts DEF TypeOK, WInv, InitInv, Exits, Dead, table, kerneltrap, yield, Runs
<1>2. QuietSlots
  BY <1>0, SlotFacts DEF TypeOK, QuietSlots, Asleep, table, kerneltrap, yield, Runs
<1>3. QuietCalls
  BY <1>0, SlotFacts DEF TypeOK, QuietCalls, Scans, table, loops, kerneltrap, yield, Runs
<1>4. UNCHANGED <<i, j, waitLock>>
  BY DEF table, loops, kerneltrap, yield, Runs
<1>5. QED
  BY <1>1, <1>2, <1>3, <1>4, QuietStep DEF WInv

LEMMA InterruptW ==
  ASSUME IInv, IInv', WInv, NEW c \in CPUs, NEW p \in Slots, NEW fault \in BOOLEAN,
         interrupt(c, p, fault)
  PROVE  WInv'
<1> TypeOK
  BY DEF IInv
<1>0. state[p] = "RUNNING" /\ sw[p] = "run"
  BY RunsFacts DEF IInv, interrupt
<1>1. InitInv'
  BY SlotFacts DEF TypeOK, WInv, InitInv, Exits, Dead, table, interrupt, Runs, Goto
<1>2. QuietSlots
  BY <1>0, SlotFacts DEF TypeOK, QuietSlots, Asleep, table, interrupt, Runs, Goto
<1>3. QuietCalls
  BY <1>0, SlotFacts DEF TypeOK, QuietCalls, Scans, table, loops, interrupt, Runs, Goto
<1>4. UNCHANGED <<i, j, waitLock>>
  BY DEF table, loops, interrupt, Runs, Goto
<1>5. QED
  BY <1>1, <1>2, <1>3, <1>4, QuietStep DEF WInv

LEMMA UsertrapW ==
  ASSUME IInv, IInv', WInv, NEW c \in CPUs, NEW p \in Slots,
         usertrap(c, p)
  PROVE  WInv'
<1> TypeOK
  BY DEF IInv
<1>0. state[p] = "RUNNING" /\ sw[p] = "run"
  BY RunsFacts DEF IInv, usertrap
<1>1. InitInv'
  BY SlotFacts, SMTT(30) DEF TypeOK, WInv, InitInv, Exits, Dead, table, usertrap, yield, Runs, Goto
<1>2. QuietSlots
  BY <1>0, SlotFacts, SMTT(30) DEF TypeOK, QuietSlots, Asleep, table, usertrap, yield, Runs, Goto
<1>3. QuietCalls
  BY <1>0, SlotFacts, SMTT(30) DEF TypeOK, QuietCalls, Scans, table, loops, usertrap, yield, Runs, Goto
<1>4. UNCHANGED <<i, j, waitLock>>
  BY DEF table, loops, usertrap, yield, Runs, Goto
<1>5. QED
  BY <1>1, <1>2, <1>3, <1>4, QuietStep DEF WInv

LEMMA SyscallW ==
  ASSUME IInv, IInv', WInv, NEW c \in CPUs, NEW p \in Slots, NEW l \in Calls,
         syscall(c, p, l)
  PROVE  WInv'
<1> TypeOK
  BY DEF IInv
<1>0. state[p] = "RUNNING" /\ sw[p] = "run"
  BY RunsFacts DEF IInv, syscall
<1>1. InitInv'
  BY SlotFacts DEF TypeOK, WInv, InitInv, Exits, Dead, table, syscall, Runs, Goto, Calls
<1>2. QuietSlots
  BY <1>0, SlotFacts DEF TypeOK, QuietSlots, Asleep, table, syscall, Runs, Goto, Calls
<1>3. QuietCalls
  BY <1>0, SlotFacts DEF TypeOK, QuietCalls, Scans, table, loops, syscall, Runs, Goto, Calls
<1>4. UNCHANGED <<i, j, waitLock>>
  BY DEF table, loops, syscall, Runs, Goto, Calls
<1>5. QED
  BY <1>1, <1>2, <1>3, <1>4, QuietStep DEF WInv

LEMMA ForkW ==
  ASSUME IInv, IInv', WInv, NEW c \in CPUs, NEW p \in Slots, NEW np \in Slots,
         fork(c, p, np)
  PROVE  WInv'
<1> TypeOK
  BY DEF IInv
<1>0. state[p] = "RUNNING" /\ sw[p] = "run"
  BY RunsFacts DEF IInv, fork
<1>1. InitInv'
  BY SlotFacts DEF TypeOK, WInv, InitInv, Exits, Dead, table, fork, Runs, Goto
<1>2. QuietSlots
  BY <1>0, SlotFacts DEF TypeOK, QuietSlots, Asleep, table, fork, Runs, Goto
<1>3. QuietCalls
  BY <1>0, SlotFacts DEF TypeOK, QuietCalls, Scans, table, loops, fork, Runs, Goto
<1>4. UNCHANGED <<i, j, waitLock>>
  BY DEF table, loops, fork, Runs, Goto
<1>5. QED
  BY <1>1, <1>2, <1>3, <1>4, QuietStep DEF WInv

LEMMA ForkNomemW ==
  ASSUME IInv, IInv', WInv, NEW c \in CPUs, NEW p \in Slots, NEW np \in Slots,
         fork_nomem(c, p, np)
  PROVE  WInv'
<1> TypeOK
  BY DEF IInv
<1>0. state[p] = "RUNNING" /\ sw[p] = "run"
  BY RunsFacts DEF IInv, fork_nomem
<1>1. InitInv'
  BY SlotFacts DEF TypeOK, WInv, InitInv, Exits, Dead, table, fork_nomem, freeproc, Runs, Goto
<1>2. QuietSlots
  BY <1>0, SlotFacts DEF TypeOK, QuietSlots, Asleep, table, fork_nomem, freeproc, Runs, Goto
<1>3. QuietCalls
  BY <1>0, SlotFacts DEF TypeOK, QuietCalls, Scans, table, loops, fork_nomem, freeproc, Runs, Goto
<1>4. UNCHANGED <<i, j, waitLock>>
  BY DEF table, loops, fork_nomem, freeproc, Runs, Goto
<1>5. QED
  BY <1>1, <1>2, <1>3, <1>4, QuietStep DEF WInv

LEMMA ForkFullW ==
  ASSUME IInv, IInv', WInv, NEW c \in CPUs, NEW p \in Slots,
         fork_full(c, p)
  PROVE  WInv'
<1> TypeOK
  BY DEF IInv
<1>0. state[p] = "RUNNING" /\ sw[p] = "run"
  BY RunsFacts DEF IInv, fork_full
<1>1. InitInv'
  BY SlotFacts DEF TypeOK, WInv, InitInv, Exits, Dead, table, fork_full, Runs, Goto
<1>2. QuietSlots
  BY <1>0, SlotFacts DEF TypeOK, QuietSlots, Asleep, table, fork_full, Runs, Goto
<1>3. QuietCalls
  BY <1>0, SlotFacts DEF TypeOK, QuietCalls, Scans, table, loops, fork_full, Runs, Goto
<1>4. UNCHANGED <<i, j, waitLock>>
  BY DEF table, loops, fork_full, Runs, Goto
<1>5. QED
  BY <1>1, <1>2, <1>3, <1>4, QuietStep DEF WInv

LEMMA KillW ==
  ASSUME IInv, IInv', WInv, NEW c \in CPUs, NEW p \in Slots, NEW s \in Slots,
         kill(c, p, s)
  PROVE  WInv'
<1> TypeOK
  BY DEF IInv
<1>0. state[p] = "RUNNING" /\ sw[p] = "run"
  BY RunsFacts DEF IInv, kill
<1>1. InitInv'
  BY SlotFacts DEF TypeOK, WInv, InitInv, Exits, Dead, table, kill, Runs, Goto
<1>2. QuietSlots
  BY <1>0, SlotFacts DEF TypeOK, QuietSlots, Asleep, table, kill, Runs, Goto
<1>3. QuietCalls
  BY <1>0, SlotFacts DEF TypeOK, QuietCalls, Scans, table, loops, kill, Runs, Goto
<1>4. UNCHANGED <<i, j, waitLock>>
  BY DEF table, loops, kill, Runs, Goto
<1>5. QED
  BY <1>1, <1>2, <1>3, <1>4, QuietStep DEF WInv

-----------------------------------------------------------------------------
(* The slots as numbers.                                                   *)
LEMMA SlotRange == \A s \in Slots : s \in Int /\ 1 <= s /\ s <= NPROC
  BY SMTT(30) DEF Slots

(* In a critical section of wait_lock every other process is outside; the  *)
(* zombies stay where they left theirs.                                    *)
LEMMA Alone ==
  ASSUME IInv, NEW c \in CPUs, NEW p \in Slots, Runs(c, p), pc[p] \in Crit
  PROVE  /\ waitLock = p
         /\ \A q \in Slots \ {p} : pc[q] \in Crit =>
              pc[q] = "zombie" /\ sw[q] # "run" /\ state[q] = "ZOMBIE"
  BY DEF IInv, Runs, WaitLockInv, LiveInv

LEMMA Nobody ==
  ASSUME IInv, waitLock = Free
  PROVE  \A q \in Slots : pc[q] \in Crit =>
           pc[q] = "zombie" /\ sw[q] # "run" /\ state[q] = "ZOMBIE"
  BY SlotFacts DEF IInv, WaitLockInv, LiveInv

LEMMA ForkParentW ==
  ASSUME IInv, WInv, NEW c \in CPUs, NEW p \in Slots, fork_parent(c, p)
  PROVE  WInv'
<1> TypeOK /\ InitInv /\ FamilyInv /\ LoopInv /\ WakeInv
  BY DEF IInv, WInv
<1>0. state[p] = "RUNNING" /\ sw[p] = "run"
  BY RunsFacts DEF IInv, fork_parent
<1>a. /\ child[p] \in Slots /\ state[child[p]] = "USED"
      /\ \A q \in Slots \ {p} : pc[q] = "fork_run" => child[q] # child[p]
  BY DEF IInv, ChildInv, Forking, fork_parent
<1>1. InitInv'
  BY SlotFacts DEF TypeOK, InitInv, Exits, Dead, table, fork_parent, Goto
<1>2. FamilyInv'
  BY <1>0, <1>a, SlotFacts, SMTT(30) DEF TypeOK, FamilyInv, Dead, loops, fork_parent, Goto
<1>3. LoopInv'
  BY <1>0 DEF TypeOK, LoopInv, loops, fork_parent, Goto
<1>4. WakeInv'
  BY <1>0, <1>a, SlotFacts, SMTT(30) DEF TypeOK, WakeInv, ZombieOf, Asleep, loops, fork_parent, Goto
<1>5. QED
  BY <1>1, <1>2, <1>3, <1>4 DEF WInv

LEMMA ForkRunW ==
  ASSUME IInv, WInv, NEW c \in CPUs, NEW p \in Slots, fork_run(c, p)
  PROVE  WInv'
<1> TypeOK /\ InitInv /\ FamilyInv /\ LoopInv /\ WakeInv
  BY DEF IInv, WInv
<1>0. state[p] = "RUNNING" /\ sw[p] = "run"
  BY RunsFacts, ZenonT(30) DEF IInv, fork_run
<1>a. /\ child[p] \in Slots /\ state[child[p]] = "USED" /\ parent[child[p]] = p
      /\ pc[child[p]] = "user"
  BY DEF IInv, ChildInv, Forking, LiveInv, FamilyInv, fork_run
<1>1. InitInv'
  BY SlotFacts DEF TypeOK, InitInv, Exits, Dead, table, fork_run, Goto
<1>2. FamilyInv'
  <2>1. /\ parent' = parent /\ i' = i
        /\ pc'[p] = "ret" /\ \A q \in Slots \ {p} : pc'[q] = pc[q] /\ child'[q] = child[q]
        /\ state'[child[p]] = "RUNNABLE"
        /\ \A q \in Slots \ {child[p]} : state'[q] = state[q]
    BY <1>a DEF TypeOK, fork_run, Goto
  <2>2. p \in Slots /\ p # None
    BY SlotFacts
  <2>3. \A s, q \in Slots : parent'[s] = q => state'[q] \notin Dead
    BY <2>1 DEF FamilyInv, Dead
  <2>4. \A s \in Slots \ {initproc} : state'[s] \notin {"UNUSED", "USED"} => parent'[s] # None
    BY <1>a, <2>1, <2>2 DEF FamilyInv
  <2>5. \A q \in Slots : pc'[q] = "fork_run" => parent'[child'[q]] = q
    BY <2>1 DEF FamilyInv
  <2>6. \A q, s \in Slots : parent'[s] = q =>
          /\ pc'[q] \notin {"wake_parent", "zombie"}
          /\ pc'[q] = "reparent" => s >= i'[q]
          /\ pc'[q] = "wake_init" => s > i'[q]
    BY <2>1 DEF FamilyInv
  <2>7. QED
    BY <2>3, <2>4, <2>5, <2>6 DEF FamilyInv
<1>3. LoopInv'
  BY <1>0 DEF TypeOK, LoopInv, fork_run, Goto
<1>4. WakeInv'
  BY <1>0, <1>a, SlotFacts, SMTT(30) DEF TypeOK, WakeInv, ZombieOf, Asleep, fork_run, Goto
<1>5. QED
  BY <1>1, <1>2, <1>3, <1>4 DEF WInv

LEMMA ExitW ==
  ASSUME IInv, WInv, NEW c \in CPUs, NEW p \in Slots, exit(c, p)
  PROVE  WInv'
<1> TypeOK /\ InitInv /\ FamilyInv /\ LoopInv /\ WakeInv
  BY DEF IInv, WInv
<1>0. state[p] = "RUNNING" /\ sw[p] = "run"
  BY RunsFacts DEF IInv, exit
<1>a. \A q \in Slots : pc[q] \in Crit => pc[q] = "zombie" /\ sw[q] # "run" /\ state[q] = "ZOMBIE"
  BY Nobody DEF exit
<1>1. InitInv'
  BY SlotFacts DEF TypeOK, InitInv, Exits, Dead, table, exit, Goto
<1>2. FamilyInv'
  BY <1>0, <1>a, SlotRange DEF TypeOK, FamilyInv, LoopInv, table, loops, exit, Goto
<1>3. LoopInv'
  BY <1>0 DEF TypeOK, LoopInv, loops, exit, Goto
<1>4. WakeInv'
  BY <1>0, <1>a, SlotFacts, SMTT(30) DEF TypeOK, WakeInv, ZombieOf, Asleep, Crit, table, loops, exit, Goto
<1>5. QED
  BY <1>1, <1>2, <1>3, <1>4 DEF WInv

LEMMA ReparentW ==
  ASSUME IInv, WInv, NEW c \in CPUs, NEW p \in Slots, reparent(c, p)
  PROVE  WInv'
<1> TypeOK /\ InitInv /\ FamilyInv /\ LoopInv /\ WakeInv
  BY DEF IInv, WInv
<1>0. state[p] = "RUNNING" /\ sw[p] = "run"
  BY RunsFacts DEF IInv, reparent
<1>a. /\ waitLock = p
      /\ \A q \in Slots \ {p} : pc[q] \in Crit =>
           pc[q] = "zombie" /\ sw[q] # "run" /\ state[q] = "ZOMBIE"
  BY Alone DEF Crit, reparent
<1>b. /\ \A q \in Slots \ {p} : pc'[q] = pc[q] /\ i'[q] = i[q]
      /\ UNCHANGED <<state, chan, waitLock, sw, child, j>>
  BY SlotFacts DEF TypeOK, Advance, AtEnd, reparent, Goto
<1>c. p # initproc
  BY DEF InitInv, Exits, reparent
<1>1. InitInv'
  BY SlotFacts DEF TypeOK, InitInv, Exits, Dead, table, reparent, Goto
<1>2. FamilyInv'
  <2>1. CASE parent[i[p]] = p
    <3>1. /\ parent'[i[p]] = initproc /\ \A s \in Slots : s # i[p] => parent'[s] = parent[s]
          /\ pc'[p] = "wake_init" /\ i'[p] = i[p] /\ i[p] \in Slots
      BY <2>1 DEF TypeOK, reparent, Goto
    <3>2. \A q \in Slots : pc'[q] = "fork_run" => parent'[child'[q]] = q
      <4>1. \A q \in Slots : pc[q] = "fork_run" => child[q] \in Slots
        BY DEF IInv, ChildInv, Forking
      <4>2. \A q \in Slots : pc[q] = "fork_run" => parent[child[q]] = q
        BY DEF FamilyInv
      <4>3. ASSUME NEW q \in Slots, pc'[q] = "fork_run" PROVE parent'[child'[q]] = q
        <5>1. q # p
          BY <3>1, <4>3
        <5>2. pc[q] = "fork_run" /\ child'[q] = child[q]
          BY <1>b, <4>3, <5>1
        <5>3. child[q] \in Slots /\ parent[child[q]] = q
          BY <4>1, <4>2, <5>2
        <5>4. QED
          BY <2>1, <3>1, <5>1, <5>2, <5>3
      <4>4. QED
        BY <4>3
    <3>3. \A s \in Slots : /\ parent'[s] = p => s > i[p]
                           /\ s # initproc /\ parent[s] # None => parent'[s] # None
      BY <1>c, <2>1, <3>1, SlotFacts, SlotRange, SMTT(30) DEF FamilyInv, reparent
    <3>4. \A s, q \in Slots : parent'[s] = q /\ q # initproc => parent[s] = q
      BY <3>1
    <3>5. QED
      BY <1>b, <1>c, <3>1, <3>2, <3>3, <3>4, SMTT(30) DEF FamilyInv, InitInv, Exits
  <2>2. CASE parent[i[p]] # p
    <3>1. /\ UNCHANGED parent /\ i[p] \in Slots
          /\ pc'[p] = IF i[p] = NPROC THEN "wake_parent" ELSE "reparent"
          /\ i[p] # NPROC => i'[p] = i[p] + 1
      BY <2>2, SlotFacts DEF TypeOK, Advance, AtEnd, reparent, Goto
    <3>2. QED
      BY <1>b, <2>2, <3>1, SlotRange, SMTT(30) DEF FamilyInv, reparent
  <2>3. QED
    BY <2>1, <2>2
<1>3. LoopInv'
  <2>1. i'[p] = 1 \/ pc'[p] \in {"reparent", "wake_init"}
    BY SlotFacts DEF TypeOK, Advance, AtEnd, reparent, Goto
  <2>2. pc'[p] \in {"reparent", "wake_init", "wake_parent"}
    BY DEF TypeOK, reparent, Goto
  <2>3. QED
    BY <1>b, <2>1, <2>2 DEF LoopInv, reparent
<1>4. WakeInv'
  <2>1. /\ pc'[p] \in {"reparent", "wake_init", "wake_parent"} /\ j[p] = 1
        /\ \A s, q \in Slots : parent'[s] = q /\ parent[s] # q =>
             q = initproc /\ pc'[p] = "wake_init"
    BY DEF TypeOK, LoopInv, reparent, Goto
  <2>2. \A s, q \in Slots : ~(ZombieOf(s, q) /\ Asleep(q))
    BY <1>a, SlotFacts, SMTT(30) DEF WakeInv, reparent
  <2>3. \A s, q \in Slots : ZombieOf(s, q)' /\ Asleep(q)' =>
          /\ q = initproc
          /\ \E r \in Slots : waitLock' = r /\ pc'[r] = "wake_init" /\ j'[r] = 1
    BY <1>a, <1>b, <2>1, <2>2 DEF ZombieOf, Asleep
  <2>4. QED
    BY <1>0, <1>a, <1>b, <1>c, <2>1, <2>3, SlotRange, SlotFacts, SMTT(30)
    DEF WakeInv, ZombieOf, Asleep, Crit, Dead
<1>5. QED
  BY <1>1, <1>2, <1>3, <1>4 DEF WInv

LEMMA WakeInitW ==
  ASSUME IInv, WInv, NEW c \in CPUs, NEW p \in Slots, wake_init(c, p)
  PROVE  WInv'
<1> TypeOK /\ InitInv /\ FamilyInv /\ LoopInv /\ WakeInv
  BY DEF IInv, WInv
<1>0. state[p] = "RUNNING" /\ sw[p] = "run"
  BY RunsFacts DEF IInv, wake_init
<1>a. /\ waitLock = p
      /\ \A q \in Slots \ {p} : pc[q] \in Crit =>
           pc[q] = "zombie" /\ sw[q] # "run" /\ state[q] = "ZOMBIE"
  BY Alone DEF Crit, wake_init
<1>b. /\ \A q \in Slots \ {p} : pc'[q] = pc[q] /\ i'[q] = i[q] /\ j'[q] = j[q]
      /\ UNCHANGED <<parent, chan, waitLock, sw, child>>
      /\ \A s \in Slots : state'[s] = state[s] \/ (state[s] = "SLEEPING" /\ state'[s] = "RUNNABLE")
  BY SlotFacts DEF TypeOK, Advance, AtEnd, wake_init, wakeup, Goto, cpus
<1>c. \/ j[p] # NPROC /\ i'[p] = i[p] /\ pc'[p] = "wake_init"
      \/ /\ j[p] = NPROC /\ j'[p] = 1
         /\ \/ i[p] = NPROC /\ i'[p] = 1 /\ pc'[p] = "wake_parent"
            \/ i[p] # NPROC /\ i'[p] = i[p] + 1 /\ pc'[p] = "reparent"
  BY SlotFacts DEF TypeOK, Advance, AtEnd, wake_init, wakeup, Goto
<1>d. i[p] \in Slots /\ pc[p] = "wake_init"
  BY DEF TypeOK, wake_init
<1>1. InitInv'
  BY SlotFacts DEF TypeOK, InitInv, Exits, Dead, table, wake_init, wakeup, Goto
<1>2. FamilyInv'
  BY <1>b, <1>c, <1>d, SlotRange, SMTT(30) DEF FamilyInv, Dead
<1>3. LoopInv'
  BY <1>b, <1>c, <1>d DEF LoopInv
<1>4. WakeInv'
  <2>1. j[p] = initproc => ~Asleep(initproc)'
    BY <1>d, SlotFacts DEF TypeOK, InitInv, Exits, Asleep, wake_init, wakeup
  <2>2. \A s, q \in Slots : ~(ZombieOf(s, q)' /\ Asleep(q)')
    <3>1. \A s, q \in Slots : ZombieOf(s, q)' /\ Asleep(q)' => ZombieOf(s, q) /\ Asleep(q)
      BY <1>b DEF ZombieOf, Asleep
    <3>2. QED
      BY <1>a, <2>1, <3>1 DEF WakeInv, initproc
  <2>3. \A s \in Slots : (state'[s] = "ZOMBIE" => state[s] = "ZOMBIE") /\ (Asleep(s)' => Asleep(s))
    BY <1>b DEF Asleep
  <2>4. QED
    BY <1>b, <1>c, <1>d, <2>2, <2>3, SlotRange, SMTT(30) DEF WakeInv, ZombieOf
<1>5. QED
  BY <1>1, <1>2, <1>3, <1>4 DEF WInv

LEMMA WakeParentW ==
  ASSUME IInv, WInv, NEW c \in CPUs, NEW p \in Slots, wake_parent(c, p)
  PROVE  WInv'
<1> TypeOK /\ InitInv /\ FamilyInv /\ LoopInv /\ WakeInv
  BY DEF IInv, WInv
<1>0. state[p] = "RUNNING" /\ sw[p] = "run"
  BY RunsFacts DEF IInv, wake_parent
<1>a. /\ waitLock = p
      /\ \A q \in Slots \ {p} : pc[q] \in Crit =>
           pc[q] = "zombie" /\ sw[q] # "run" /\ state[q] = "ZOMBIE"
  BY Alone DEF Crit, wake_parent
<1>b. /\ \A q \in Slots \ {p} : pc'[q] = pc[q] /\ j'[q] = j[q]
      /\ UNCHANGED <<i, parent, chan, waitLock, sw, child>>
      /\ \A s \in Slots : state'[s] = state[s] \/ (state[s] = "SLEEPING" /\ state'[s] = "RUNNABLE")
  BY SlotFacts DEF TypeOK, Advance, AtEnd, wake_parent, wakeup, Goto, cpus
<1>c. \/ j[p] # NPROC /\ j'[p] = j[p] + 1 /\ pc'[p] = "wake_parent"
      \/ j[p] = NPROC /\ j'[p] = 1 /\ pc'[p] = "zombie"
  BY SlotFacts DEF TypeOK, Advance, AtEnd, wake_parent, wakeup, Goto
<1>d. j[p] \in Slots /\ pc[p] = "wake_parent"
  BY DEF TypeOK, wake_parent
<1>1. InitInv'
  BY SlotFacts DEF TypeOK, InitInv, Exits, Dead, table, wake_parent, wakeup, Goto
<1>2. FamilyInv'
  BY <1>b, <1>c, <1>d, SMTT(30) DEF FamilyInv, Dead
<1>3. LoopInv'
  BY <1>b, <1>c, <1>d DEF LoopInv
<1>4. WakeInv'
  <2>1. \A q \in Slots : parent[p] = q /\ q = j[p] /\ q # p => ~Asleep(q)'
    BY <1>d DEF TypeOK, Asleep, wake_parent, wakeup
  <2>2. parent[p] # p
    BY <1>d DEF FamilyInv
  <2>3. \A s \in Slots : (state'[s] = "ZOMBIE" => state[s] = "ZOMBIE") /\ (Asleep(s)' => Asleep(s))
    BY <1>b DEF Asleep
  <2>4. \A s, q \in Slots : ~(ZombieOf(s, q)' /\ Asleep(q)')
    BY <1>a, <1>b, <1>d, <2>3 DEF WakeInv, ZombieOf
  <2>5. \A q \in Slots : parent[p] = q /\ Asleep(q)' => q >= j[p] /\ q # j[p]
    BY <1>d, <2>1, <2>2, <2>3, SlotRange DEF WakeInv
  <2>6. QED
    BY <1>b, <1>c, <1>d, <2>3, <2>4, <2>5, SlotRange, SMTT(30) DEF WakeInv, ZombieOf
<1>5. QED
  BY <1>1, <1>2, <1>3, <1>4 DEF WInv

LEMMA ExitZombieW ==
  ASSUME IInv, WInv, NEW c \in CPUs, NEW p \in Slots, exit_zombie(c, p)
  PROVE  WInv'
<1> TypeOK /\ InitInv /\ FamilyInv /\ LoopInv /\ WakeInv
  BY DEF IInv, WInv
<1>0. state[p] = "RUNNING" /\ sw[p] = "run"
  BY RunsFacts DEF IInv, exit_zombie
<1>a. /\ waitLock = p
      /\ \A q \in Slots \ {p} : pc[q] \in Crit =>
           pc[q] = "zombie" /\ sw[q] # "run" /\ state[q] = "ZOMBIE"
  BY Alone DEF Crit, exit_zombie
<1>1. InitInv'
  BY SlotFacts DEF TypeOK, InitInv, Exits, Dead, table, exit_zombie
<1>2. FamilyInv'
  BY <1>0, <1>a, SlotFacts, SMTT(30) DEF TypeOK, FamilyInv, Dead, loops, exit_zombie
<1>3. LoopInv'
  BY <1>0 DEF TypeOK, LoopInv, loops, exit_zombie
<1>4. WakeInv'
  BY <1>0, <1>a, SlotFacts, SMTT(30) DEF TypeOK, WakeInv, ZombieOf, Asleep, Crit, loops, exit_zombie
<1>5. QED
  BY <1>1, <1>2, <1>3, <1>4 DEF WInv

LEMMA WaitW ==
  ASSUME IInv, WInv, NEW c \in CPUs, NEW p \in Slots, wait(c, p)
  PROVE  WInv'
<1> TypeOK /\ InitInv /\ FamilyInv /\ LoopInv /\ WakeInv
  BY DEF IInv, WInv
<1>0. state[p] = "RUNNING" /\ sw[p] = "run"
  BY RunsFacts DEF IInv, wait
<1>a. \A q \in Slots : pc[q] \in Crit => pc[q] = "zombie" /\ sw[q] # "run" /\ state[q] = "ZOMBIE"
  BY Nobody DEF wait
<1>1. InitInv'
  BY SlotFacts DEF TypeOK, InitInv, Exits, Dead, table, wait, Goto
<1>2. FamilyInv'
  BY <1>0 DEF TypeOK, FamilyInv, table, loops, wait, Goto
<1>3. LoopInv'
  BY <1>0 DEF TypeOK, LoopInv, loops, wait, Goto
<1>4. WakeInv'
  BY <1>0, <1>a, SlotFacts, SlotRange, SMTT(30) DEF TypeOK, WakeInv, LoopInv, ZombieOf, Asleep, Crit,
     table, loops, wait, Goto
<1>5. QED
  BY <1>1, <1>2, <1>3, <1>4 DEF WInv

LEMMA ScanW ==
  ASSUME IInv, WInv, NEW c \in CPUs, NEW p \in Slots, NEW copied \in BOOLEAN,
         scan(c, p, copied)
  PROVE  WInv'
<1> TypeOK /\ InitInv /\ FamilyInv /\ LoopInv /\ WakeInv
  BY DEF IInv, WInv
<1>0. state[p] = "RUNNING" /\ sw[p] = "run"
  BY RunsFacts DEF IInv, scan
<1>a. /\ waitLock = p
      /\ \A q \in Slots \ {p} : pc[q] \in Crit =>
           pc[q] = "zombie" /\ sw[q] # "run" /\ state[q] = "ZOMBIE"
  BY Alone DEF Crit, scan
<1>b. /\ UNCHANGED <<sw, child, j>> /\ i[p] \in Slots /\ pc[p] = "scan"
      /\ \A q \in Slots \ {p} :
           /\ i'[q] = i[q]
           /\ pc'[q] = pc[q] \/ (pc'[q] = "user" /\ state[q] = "ZOMBIE")
  BY SlotFacts, SMTT(30) DEF TypeOK, Advance, AtEnd, scan, freeproc, Goto, loops
<1>e. \A q \in Slots : state[q] = "ZOMBIE" => pc[q] = "zombie"
  BY DEF IInv, LiveInv
<1>c. \A s \in Slots : \/ state'[s] = state[s] /\ parent'[s] = parent[s] /\ chan'[s] = chan[s]
                       \/ state[s] = "ZOMBIE" /\ state'[s] = "UNUSED" /\ parent'[s] = None
  BY SMTT(30) DEF TypeOK, scan, freeproc
<1>d. \/ pc'[p] = "ret" /\ i'[p] = 1
      \/ /\ ~ZombieOf(i[p], p)
         /\ \/ i[p] = NPROC /\ i'[p] = 1 /\ pc'[p] = "scanned"
            \/ i[p] # NPROC /\ i'[p] = i[p] + 1 /\ pc'[p] = "scan"
  BY <1>0, SlotFacts DEF TypeOK, Advance, AtEnd, ZombieOf, scan, freeproc, Goto
<1>1. InitInv'
  BY SlotFacts, SMTT(30) DEF TypeOK, InitInv, Exits, Dead, table, scan, freeproc, Goto
<1>2. FamilyInv'
  <2>1. \A s, q \in Slots : parent'[s] = q => parent[s] = q
    BY <1>c, SlotFacts
  <2>2. \A p1 \in Slots : pc'[p1] = "fork_run" => parent'[child'[p1]] = p1
    <3>1. SUFFICES ASSUME NEW p1 \in Slots, pc'[p1] = "fork_run" PROVE parent'[child'[p1]] = p1
      OBVIOUS
    <3>2. pc[p1] = "fork_run" /\ child'[p1] = child[p1]
      BY <1>b, <1>d, <3>1
    <3>3. child[p1] \in Slots /\ state[child[p1]] = "USED"
      BY <3>2, SMTT(30) DEF IInv, ChildInv, Forking
    <3>4. QED
      BY <1>c, <3>2, <3>3 DEF FamilyInv
  <2>3. \A s, q \in Slots : parent'[s] = q => state'[q] \notin Dead
    <3>1. ASSUME NEW s \in Slots, NEW q \in Slots, parent'[s] = q PROVE state'[q] \notin Dead
      <4>1. state[q] \notin Dead
        BY <2>1, <3>1 DEF FamilyInv
      <4>2. state'[q] = state[q]
        BY <1>c, <4>1 DEF Dead
      <4>3. QED
        BY <4>1, <4>2
    <3>2. QED
      BY <3>1
  <2>4. \A s \in Slots \ {initproc} : state'[s] \notin {"UNUSED", "USED"} => parent'[s] # None
    BY <1>c DEF FamilyInv
  <2>5. \A q, s \in Slots : parent'[s] = q =>
          /\ pc'[q] \notin {"wake_parent", "zombie"}
          /\ pc'[q] = "reparent" => s >= i'[q]
          /\ pc'[q] = "wake_init" => s > i'[q]
    BY <1>b, <1>d, <2>1, SMTT(30) DEF FamilyInv
  <2>6. QED
    BY <2>2, <2>3, <2>4, <2>5 DEF FamilyInv
<1>3. LoopInv'
  BY <1>b, <1>d, <1>e DEF LoopInv
<1>4. WakeInv'
  <2>1. \A s, q \in Slots : /\ parent'[s] = q => parent[s] = q
                            /\ ZombieOf(s, q)' => ZombieOf(s, q)
                            /\ Asleep(q)' => Asleep(q)
    BY <1>c, SlotFacts DEF ZombieOf, Asleep
  <2>2. \A s, q \in Slots : ~(ZombieOf(s, q)' /\ Asleep(q)')
    BY <1>a, <1>b, <2>1 DEF WakeInv
  <2>3. QED
    BY <1>b, <1>d, <2>1, <2>2, SlotRange, SMTT(30) DEF WakeInv
<1>5. QED
  BY <1>1, <1>2, <1>3, <1>4 DEF WInv

LEMMA WaitTestW ==
  ASSUME IInv, WInv, NEW c \in CPUs, NEW p \in Slots, wait_test(c, p)
  PROVE  WInv'
<1> TypeOK /\ InitInv /\ FamilyInv /\ LoopInv /\ WakeInv
  BY DEF IInv, WInv
<1>0. state[p] = "RUNNING" /\ sw[p] = "run"
  BY RunsFacts DEF IInv, wait_test
<1>a. /\ waitLock = p
      /\ \A q \in Slots \ {p} : pc[q] \in Crit =>
           pc[q] = "zombie" /\ sw[q] # "run" /\ state[q] = "ZOMBIE"
  BY Alone DEF Crit, wait_test
<1>1. InitInv'
  BY SlotFacts, SMTT(30) DEF TypeOK, InitInv, Exits, Dead, table, wait_test, Goto
<1>2. FamilyInv'
  BY <1>0, SMTT(30) DEF TypeOK, FamilyInv, table, wait_test, Goto
<1>3. LoopInv'
  BY <1>0 DEF TypeOK, LoopInv, wait_test, Goto
<1>4. WakeInv'
  BY <1>0, <1>a, SlotFacts, SMTT(30) DEF TypeOK, WakeInv, ZombieOf, Asleep, table, wait_test, Goto
<1>5. QED
  BY <1>1, <1>2, <1>3, <1>4 DEF WInv

LEMMA SleepW ==
  ASSUME IInv, WInv, NEW c \in CPUs, NEW p \in Slots, sleep(c, p)
  PROVE  WInv'
<1> TypeOK /\ InitInv /\ FamilyInv /\ LoopInv /\ WakeInv
  BY DEF IInv, WInv
<1>0. state[p] = "RUNNING" /\ sw[p] = "run"
  BY RunsFacts DEF IInv, sleep
<1>a. /\ waitLock = p
      /\ \A q \in Slots \ {p} : pc[q] \in Crit =>
           pc[q] = "zombie" /\ sw[q] # "run" /\ state[q] = "ZOMBIE"
  BY Alone DEF Crit, sleep
<1>1. InitInv'
  BY SlotFacts DEF TypeOK, InitInv, Exits, Dead, table, sleep, Goto
<1>2. FamilyInv'
  BY <1>0 DEF TypeOK, FamilyInv, Dead, loops, sleep, Goto
<1>3. LoopInv'
  BY <1>0 DEF TypeOK, LoopInv, loops, sleep, Goto
<1>4. WakeInv'
  BY <1>0, <1>a, SlotFacts, SMTT(30) DEF TypeOK, WakeInv, ZombieOf, Asleep, Crit, loops, sleep, Goto
<1>5. QED
  BY <1>1, <1>2, <1>3, <1>4 DEF WInv

-----------------------------------------------------------------------------
LEMMA InitW == Init => WInv
<1> SUFFICES ASSUME Init PROVE WInv
  OBVIOUS
<1>1. InitInv /\ LoopInv
  BY SlotFacts DEF Init, InitInv, LoopInv, Exits, Dead
<1>2. FamilyInv /\ WakeInv
  BY SlotFacts DEF Init, FamilyInv, WakeInv, ZombieOf, Asleep
<1>3. QED
  BY <1>1, <1>2 DEF WInv

LEMMA NextW == IInv /\ WInv /\ [Next]_vars => WInv'
<1> SUFFICES ASSUME IInv, WInv, [Next]_vars PROVE WInv'
  OBVIOUS
<1>1. IInv'
  BY NextIInv
<1>2. CASE UNCHANGED vars
  BY <1>2 DEF vars, table, loops, WInv, InitInv, FamilyInv, LoopInv, WakeInv, ZombieOf, Asleep
<1>3. CASE Next
  BY <1>1, <1>3, NextCases, SchedulerW, SchedReturnW, SchedW, SchedulerReturnW, KerneltrapW,
     InterruptW, UsertrapW, SyscallW, ForkW, ForkNomemW, ForkFullW, ForkParentW, ForkRunW,
     ExitW, ReparentW, WakeInitW, WakeParentW, ExitZombieW, WaitW, ScanW, WaitTestW, SleepW,
     KillW, ZenonT(30)
<1>4. QED
  BY <1>2, <1>3

(* The invariant of parents, children and wait_lock holds as well.         *)
THEOREM WaitInvariance == Spec => []WInv
<1>1. Init => IInv /\ WInv
  BY InitIInv, InitW
<1>2. IInv /\ WInv /\ [Next]_vars => (IInv /\ WInv)'
  BY NextIInv, NextW
<1>3. QED
  BY <1>1, <1>2, PTL DEF Spec

(* No wakeup is lost between exit() and wait(), for any number of slots    *)
(* and CPUs: wait_lock covers the scan of wait() up to its sleep(), and    *)
(* exit() from its wakeup() of the parent to ZOMBIE; and reparent() wakes  *)
(* init for each child it gives it (proc.c:328-337, 366-380, 391-436).     *)
THEOREM NoLostWakeup == Spec => []NoSleepOnZombie
<1>1. WInv => NoSleepOnZombie
  BY SlotFacts DEF WInv, WakeInv, ZombieOf, Asleep, NoSleepOnZombie
<1>2. QED
  BY <1>1, WaitInvariance, PTL

(* Every process has a parent that can wait for it: reparent() leaves an   *)
(* exiting process no child (proc.c:328-337, 368).                         *)
THEOREM EveryoneHasParent == Spec => []ParentCanWait
<1>1. TypeOK /\ WInv => ParentCanWait
  BY SlotFacts, SMTT(30) DEF TypeOK, WInv, FamilyInv, Dead, ParentCanWait
<1>2. QED
  BY <1>1, TypeCorrect, WaitInvariance, PTL
=============================================================================
