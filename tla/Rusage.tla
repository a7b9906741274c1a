------------------------------- MODULE Rusage -------------------------------
(***************************************************************************)
(* CPU time accounting: usertrap() and kerneltrap() charge a process for   *)
(* the timer interrupts it takes and yield the CPU; allocproc() resets     *)
(* p->cputime and wait2() reports it.  p->cputime is read and written      *)
(* without p->lock, so its increment is a load and a store.                *)
(***************************************************************************)
EXTENDS Integers

CONSTANTS NPROC,     \* size of the process table
          MaxTicks   \* bound on the timer interrupts of a process

Slots == 1 .. NPROC
initproc == 1

VARIABLES
  state, cputime,  \* fields of struct proc
  pc,              \* where a process is in the trap code
  reg,             \* the value p->cputime += 1 has loaded
  p,               \* the loop variable of fork()'s allocproc(), 0 outside it
  ran,             \* timer interrupts the slot's process has been charged for
  report           \* what the last wait2() reported, and ran of that child

vars == <<state, cputime, pc, reg, p, ran, report>>

Init ==
  /\ state = [s \in Slots |-> IF s = initproc THEN "RUNNING" ELSE "UNUSED"]
  /\ cputime = [s \in Slots |-> 0]
  /\ pc = [s \in Slots |-> "run"]
  /\ reg = [s \in Slots |-> 0]
  /\ p = [s \in Slots |-> 0]
  /\ ran = [s \in Slots |-> 0]
  /\ report = [cputime |-> 0, ran |-> 0]

Goto(s, l) == pc' = [pc EXCEPT ![s] = l]
Runs(s, l) == state[s] = "RUNNING" /\ pc[s] = l

-----------------------------------------------------------------------------
(* A trap: in user space any, inside fork() a timer interrupt (which_dev   *)
(* 2).  The test of which_dev guards the increment only.                   *)
trap(s, which_dev) ==
  /\ Runs(s, "run")
  /\ p[s] # 0 => which_dev = 2
  /\ which_dev = 2 => ran[s] < MaxTicks
  /\ Goto(s, IF which_dev = 2 THEN "load" ELSE "yield")
  /\ UNCHANGED <<state, cputime, reg, p, ran, report>>

(* p->cputime += 1                                                         *)
load(s) ==
  /\ Runs(s, "load")
  /\ reg' = [reg EXCEPT ![s] = cputime[s]]
  /\ Goto(s, "store")
  /\ UNCHANGED <<state, cputime, p, ran, report>>

store(s) ==
  /\ Runs(s, "store")
  /\ cputime' = [cputime EXCEPT ![s] = reg[s] + 1]
  /\ ran' = [ran EXCEPT ![s] = @ + 1]
  /\ Goto(s, "yield")
  /\ UNCHANGED <<state, reg, p, report>>

yield(s) ==
  /\ Runs(s, "yield")
  /\ state' = [state EXCEPT ![s] = "RUNNABLE"]
  /\ Goto(s, "run")
  /\ UNCHANGED <<cputime, reg, p, ran, report>>

scheduler(s) ==
  /\ state[s] = "RUNNABLE"
  /\ state' = [state EXCEPT ![s] = "RUNNING"]
  /\ UNCHANGED <<cputime, pc, reg, p, ran, report>>

-----------------------------------------------------------------------------
(* fork(): allocproc() starts its scan of the table.                       *)
fork(s) ==
  /\ Runs(s, "run") /\ p[s] = 0
  /\ p' = [p EXCEPT ![s] = 1]
  /\ UNCHANGED <<state, cputime, pc, reg, ran, report>>

(* One iteration: an UNUSED slot becomes a process with the cputime it     *)
(* has; in any other slot cputime is reset, after release(&p->lock).       *)
allocproc(s) ==
  /\ Runs(s, "run") /\ p[s] # 0
  /\ LET np == p[s] IN
     /\ IF state[np] = "UNUSED"
          THEN /\ state' = [state EXCEPT ![np] = "RUNNABLE"]
               /\ ran' = [ran EXCEPT ![np] = 0]
               /\ UNCHANGED cputime
          ELSE /\ cputime' = [cputime EXCEPT ![np] = 0]
               /\ UNCHANGED <<state, ran>>
     /\ IF state[np] = "UNUSED" \/ np = NPROC
          THEN /\ p' = [p EXCEPT ![s] = 0]
               /\ Goto(s, "yield")
          ELSE /\ p' = [p EXCEPT ![s] = np + 1]
               /\ UNCHANGED pc
  /\ UNCHANGED <<reg, report>>

exit(s) ==
  /\ Runs(s, "run") /\ p[s] = 0
  /\ s # initproc
  /\ state' = [state EXCEPT ![s] = "ZOMBIE"]
  /\ UNCHANGED <<cputime, pc, reg, p, ran, report>>

(* Process s reaps a zombie child np; whose child it is does not matter.   *)
wait2(s, np) ==
  /\ Runs(s, "run") /\ p[s] = 0
  /\ state[np] = "ZOMBIE"
  /\ report' = [cputime |-> cputime[np], ran |-> ran[np]]
  /\ state' = [state EXCEPT ![np] = "UNUSED"]
  /\ Goto(s, "yield")
  /\ UNCHANGED <<cputime, reg, p, ran>>

Next ==
  \E s \in Slots :
    \/ \E which_dev \in {0, 1, 2} : trap(s, which_dev)
    \/ load(s) \/ store(s) \/ yield(s) \/ scheduler(s)
    \/ fork(s) \/ allocproc(s) \/ exit(s)
    \/ \E np \in Slots : wait2(s, np)

Spec == Init /\ [][Next]_vars

-----------------------------------------------------------------------------
(* wait2() reports the ticks its child used, as user/time.c prints them    *)
(* ("cpu time: %d ticks", time.c:35).                                      *)
ReportIsExact == report.cputime = report.ran
=============================================================================
