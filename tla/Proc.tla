-------------------------------- MODULE Proc --------------------------------
(***************************************************************************)
(* The process table of kernel/proc.c on several CPUs: fork, exit, wait,   *)
(* kill, sleep/wakeup on the wait channel, and the scheduler.              *)
(*                                                                         *)
(* A critical section that takes one p->lock and gives it back is one      *)
(* action that needs the lock free; the locks held longer are variables:   *)
(* wait_lock across the scans of exit() and wait(), p->lock across swtch() *)
(* (taken on one side of the switch, released on the other).  Scans of the *)
(* table stop at every slot, so other CPUs run between two slots.  What a  *)
(* process does in user space is any sequence of these calls; a timer      *)
(* interrupt may take the CPU from it wherever it holds no spinlock.       *)
(***************************************************************************)
EXTENDS Integers, FiniteSets

CONSTANTS NPROC,   \* size of the process table
          CPUs,    \* harts
          Free,    \* nobody holds the lock
          Sched,   \* the CPU runs on its scheduler's stack
          MaxPid   \* bound on nextpid

Slots == 1 .. NPROC
initproc == 1
None == 0          \* the null struct proc pointer

ASSUME ProcAssumption ==
  /\ NPROC \in Nat \ {0} /\ MaxPid \in Nat \ {0}
  /\ Free \notin CPUs \cup Slots /\ Sched \notin Slots

VARIABLES
  state, parent, pid, chan, killed, \* the fields of struct proc
  nextpid,   \* the next pid allocpid() gives
  waitLock,  \* the process that holds wait_lock
  lock,      \* the CPU that holds p->lock between two actions
  proc,      \* c->proc
  thread,    \* whose kernel stack the CPU executes on
  pc,        \* where a process is in the kernel, "user" between two calls
  sw,        \* "out": inside sched(), "in": back from it with p->lock held
  child,     \* np of fork()
  i, j,      \* loop variables of wait()/reparent() and of wakeup()
  havekids   \* havekids of wait()

table == <<state, parent, pid, chan, killed, nextpid>>
cpus  == <<proc, thread>>
loops == <<child, i, j, havekids>>
vars  == <<table, waitLock, lock, cpus, pc, sw, loops>>

States == {"UNUSED", "USED", "SLEEPING", "RUNNABLE", "RUNNING", "ZOMBIE"}

PCs == {"user", "ret", "fork", "fork_parent", "fork_run", "exit", "reparent", "wake_init",
        "wake_parent", "zombie", "kill", "wait", "scan", "scanned", "sleep"}

TypeOK ==
  /\ state \in [Slots -> States]
  /\ parent \in [Slots -> Slots \cup {None}]
  /\ pid \in [Slots -> 0 .. MaxPid]
  /\ chan \in [Slots -> Slots \cup {None}]
  /\ killed \in [Slots -> BOOLEAN]
  /\ nextpid \in 1 .. MaxPid + 1
  /\ waitLock \in Slots \cup {Free}
  /\ lock \in [Slots -> CPUs \cup {Free}]
  /\ proc \in [CPUs -> Slots \cup {None}]
  /\ thread \in [CPUs -> Slots \cup {Sched}]
  /\ pc \in [Slots -> PCs]
  /\ sw \in [Slots -> {"run", "out", "in"}]
  /\ child \in [Slots -> Slots \cup {None}]
  /\ i \in [Slots -> Slots]
  /\ j \in [Slots -> Slots]
  /\ havekids \in [Slots -> BOOLEAN]

(* After userinit(): init is RUNNABLE and waits for its first scheduling.  *)
Init ==
  /\ state = [s \in Slots |-> IF s = initproc THEN "RUNNABLE" ELSE "UNUSED"]
  /\ parent = [s \in Slots |-> None]
  /\ pid = [s \in Slots |-> IF s = initproc THEN 1 ELSE 0]
  /\ chan = [s \in Slots |-> None]
  /\ killed = [s \in Slots |-> FALSE]
  /\ nextpid = 2
  /\ waitLock = Free
  /\ lock = [s \in Slots |-> Free]
  /\ proc = [c \in CPUs |-> None]
  /\ thread = [c \in CPUs |-> Sched]
  /\ pc = [s \in Slots |-> "user"]
  /\ sw = [s \in Slots |-> "out"]
  /\ child = [s \in Slots |-> None]
  /\ i = [s \in Slots |-> 1]
  /\ j = [s \in Slots |-> 1]
  /\ havekids = [s \in Slots |-> FALSE]

-----------------------------------------------------------------------------
(* Process p executes kernel code on CPU c.                                *)
Runs(c, p) == thread[c] = p /\ sw[p] = "run"

Goto(p, l) == pc' = [pc EXCEPT ![p] = l]

(* Mutant: the scheduler does not take p->lock.                            *)
scheduler_Mutant(c, p) ==
  /\ thread[c] = Sched /\ proc[c] = None
  /\ state[p] = "RUNNABLE"
  /\ lock' = [lock EXCEPT ![p] = c]
  /\ state' = [state EXCEPT ![p] = "RUNNING"]
  /\ proc' = [proc EXCEPT ![c] = p]
  /\ thread' = [thread EXCEPT ![c] = p]
  /\ sw' = [sw EXCEPT ![p] = "in"]
  /\ UNCHANGED <<parent, pid, chan, killed, nextpid, waitLock, pc, loops>>

(* The scheduler's loop body up to swtch(): it keeps p->lock, which p      *)
(* releases when it is back from its sched() (or in forkret()).            *)
scheduler(c, p) ==
  /\ thread[c] = Sched /\ proc[c] = None
  /\ lock[p] = Free
  /\ state[p] = "RUNNABLE"
  /\ lock' = [lock EXCEPT ![p] = c]
  /\ state' = [state EXCEPT ![p] = "RUNNING"]
  /\ proc' = [proc EXCEPT ![c] = p]
  /\ thread' = [thread EXCEPT ![c] = p]
  /\ sw' = [sw EXCEPT ![p] = "in"]
  /\ UNCHANGED <<parent, pid, chan, killed, nextpid, waitLock, pc, loops>>

(* What follows sched() in yield() and sleep(), and forkret().             *)
sched_return(c, p) ==
  /\ thread[c] = p /\ sw[p] = "in"
  /\ chan' = [chan EXCEPT ![p] = None]
  /\ lock' = [lock EXCEPT ![p] = Free]
  /\ sw' = [sw EXCEPT ![p] = "run"]
  /\ UNCHANGED <<state, parent, pid, killed, nextpid, waitLock, cpus, pc, loops>>

(* The swtch() of sched(): the CPU leaves p's stack for its scheduler's.   *)
sched(c, p) ==
  /\ thread[c] = p /\ sw[p] = "out"
  /\ thread' = [thread EXCEPT ![c] = Sched]
  /\ UNCHANGED <<table, waitLock, lock, proc, pc, sw, loops>>

(* The rest of the scheduler's loop body, after swtch().                   *)
scheduler_return(c) ==
  /\ thread[c] = Sched /\ proc[c] # None
  /\ lock' = [lock EXCEPT ![proc[c]] = Free]
  /\ proc' = [proc EXCEPT ![c] = None]
  /\ UNCHANGED <<table, waitLock, thread, pc, sw, loops>>

yield(c, p) ==
  /\ waitLock # p
  /\ lock[p] = Free
  /\ lock' = [lock EXCEPT ![p] = c]
  /\ state' = [state EXCEPT ![p] = "RUNNABLE"]
  /\ sw' = [sw EXCEPT ![p] = "out"]
  /\ UNCHANGED <<parent, pid, chan, killed, nextpid, waitLock, cpus, loops>>

(* A timer interrupt in kernel code; push_off() keeps it out while a       *)
(* spinlock is held.                                                       *)
kerneltrap(c, p) ==
  /\ Runs(c, p)
  /\ pc[p] \notin {"user", "ret"}
  /\ yield(c, p)
  /\ UNCHANGED pc

(* An interrupt, or a fault, which kills the process, in user space.       *)
interrupt(c, p, fault) ==
  /\ Runs(c, p)
  /\ pc[p] = "user"
  /\ fault => p # initproc
  /\ killed' = [killed EXCEPT ![p] = @ \/ fault]
  /\ Goto(p, "ret")
  /\ UNCHANGED <<state, parent, pid, chan, nextpid, waitLock, lock, cpus, sw, loops>>

(* The end of usertrap(), which every call and every interrupt reaches: a  *)
(* killed process exits, any other yields before it returns to user space. *)
usertrap(c, p) ==
  /\ Runs(c, p)
  /\ pc[p] = "ret"
  /\ IF killed[p]
       THEN /\ Goto(p, "exit")
            /\ UNCHANGED <<table, waitLock, lock, cpus, sw, loops>>
       ELSE /\ Goto(p, "user")
            /\ yield(c, p)

(* usertrap() starts system call l, or exits if the process is killed.     *)
syscall(c, p, l) ==
  /\ Runs(c, p)
  /\ pc[p] = "user"
  /\ l = "exit" => p # initproc
  /\ Goto(p, IF killed[p] THEN "exit" ELSE l)
  /\ UNCHANGED <<table, waitLock, lock, cpus, sw, loops>>

-----------------------------------------------------------------------------
(* fork() up to release(&np->lock): allocproc() takes an UNUSED slot, and  *)
(* its killed flag as it is.                                               *)
fork(c, p, np) ==
  /\ Runs(c, p)
  /\ pc[p] = "fork"
  /\ nextpid <= MaxPid
  /\ state[np] = "UNUSED" /\ lock[np] = Free
  /\ state' = [state EXCEPT ![np] = "USED"]
  /\ pid' = [pid EXCEPT ![np] = nextpid]
  /\ nextpid' = nextpid + 1
  /\ child' = [child EXCEPT ![p] = np]
  /\ Goto(p, "fork_parent")
  /\ UNCHANGED <<parent, chan, killed, waitLock, lock, cpus, sw, i, j, havekids>>

(* The fields freeproc() clears.                                           *)
freeproc(np) ==
  /\ state' = [state EXCEPT ![np] = "UNUSED"]
  /\ pid' = [pid EXCEPT ![np] = 0]
  /\ parent' = [parent EXCEPT ![np] = None]
  /\ chan' = [chan EXCEPT ![np] = None]
  /\ killed' = [killed EXCEPT ![np] = FALSE]

(* fork() fails: no memory for the child, whose pid is used up, ...        *)
fork_nomem(c, p, np) ==
  /\ Runs(c, p)
  /\ pc[p] = "fork"
  /\ nextpid <= MaxPid
  /\ state[np] = "UNUSED" /\ lock[np] = Free
  /\ freeproc(np)
  /\ nextpid' = nextpid + 1
  /\ Goto(p, "ret")
  /\ UNCHANGED <<waitLock, lock, cpus, sw, loops>>

(* ... or no UNUSED slot was found.                                        *)
fork_full(c, p) ==
  /\ Runs(c, p)
  /\ pc[p] = "fork"
  /\ \/ \A s \in Slots : state[s] # "UNUSED"
     \/ nextpid > MaxPid
  /\ Goto(p, "ret")
  /\ UNCHANGED <<table, waitLock, lock, cpus, sw, loops>>

fork_parent(c, p) ==
  /\ Runs(c, p)
  /\ pc[p] = "fork_parent"
  /\ waitLock = Free
  /\ parent' = [parent EXCEPT ![child[p]] = p]
  /\ Goto(p, "fork_run")
  /\ UNCHANGED <<state, pid, chan, killed, nextpid, waitLock, lock, cpus, sw, loops>>

(* The child becomes RUNNABLE, with a context that starts in forkret().    *)
fork_run(c, p) ==
  /\ Runs(c, p)
  /\ pc[p] = "fork_run"
  /\ lock[child[p]] = Free
  /\ state' = [state EXCEPT ![child[p]] = "RUNNABLE"]
  /\ Goto(p, "ret")
  /\ child' = [child EXCEPT ![p] = None]
  /\ UNCHANGED <<parent, pid, chan, killed, nextpid, waitLock, lock, cpus, sw, i, j, havekids>>

-----------------------------------------------------------------------------
(* Mutant: exit() keeps its children.                                      *)
exit_Mutant(c, p) ==
  /\ Runs(c, p)
  /\ pc[p] = "exit"
  /\ waitLock = Free
  /\ waitLock' = p
  /\ Goto(p, "wake_parent")
  /\ UNCHANGED <<table, lock, cpus, sw, loops>>

(* exit() up to acquire(&wait_lock).  The files it closes and the inode it *)
(* puts are other components.                                              *)
exit(c, p) ==
  /\ Runs(c, p)
  /\ pc[p] = "exit"
  /\ waitLock = Free
  /\ waitLock' = p
  /\ Goto(p, "reparent")
  /\ UNCHANGED <<table, lock, cpus, sw, loops>>

(* The loop variable v of process p after one iteration of a table scan,   *)
(* and whether that iteration was the last one.                            *)
Advance(v, p) == [v EXCEPT ![p] = IF @ = NPROC THEN 1 ELSE @ + 1]
AtEnd(v, p) == v[p] = NPROC

(* One iteration of reparent().                                            *)
reparent(c, p) ==
  /\ Runs(c, p)
  /\ pc[p] = "reparent"
  /\ LET pp == i[p] IN
     IF parent[pp] = p
       THEN /\ parent' = [parent EXCEPT ![pp] = initproc]
            /\ Goto(p, "wake_init")
            /\ UNCHANGED i
       ELSE /\ i' = Advance(i, p)
            /\ Goto(p, IF AtEnd(i, p) THEN "wake_parent" ELSE "reparent")
            /\ UNCHANGED parent
  /\ UNCHANGED <<state, pid, chan, killed, nextpid, waitLock, lock, cpus, sw, child, j, havekids>>

(* One iteration of p's wakeup(ch), which skips p itself.                  *)
wakeup(p, ch) ==
  LET s == j[p] IN
  /\ s # p => lock[s] = Free
  /\ state' = [state EXCEPT ![s] =
                 IF s # p /\ @ = "SLEEPING" /\ chan[s] = ch THEN "RUNNABLE" ELSE @]
  /\ j' = Advance(j, p)
  /\ UNCHANGED <<parent, pid, chan, killed, nextpid, waitLock, lock, cpus, sw, child, havekids>>

(* wakeup(initproc) in reparent(), which then goes on to the next slot.    *)
wake_init(c, p) ==
  /\ Runs(c, p)
  /\ pc[p] = "wake_init"
  /\ wakeup(p, initproc)
  /\ IF AtEnd(j, p)
       THEN /\ i' = Advance(i, p)
            /\ Goto(p, IF AtEnd(i, p) THEN "wake_parent" ELSE "reparent")
       ELSE UNCHANGED <<i, pc>>

(* wakeup(p->parent) in exit().                                            *)
wake_parent(c, p) ==
  /\ Runs(c, p)
  /\ pc[p] = "wake_parent"
  /\ wakeup(p, parent[p])
  /\ Goto(p, IF AtEnd(j, p) THEN "zombie" ELSE "wake_parent")
  /\ UNCHANGED i

(* Mutant: exit() enters sched() with wait_lock held.                      *)
exit_zombie_Mutant(c, p) ==
  /\ Runs(c, p)
  /\ pc[p] = "zombie"
  /\ lock[p] = Free
  /\ lock' = [lock EXCEPT ![p] = c]
  /\ state' = [state EXCEPT ![p] = "ZOMBIE"]
  /\ sw' = [sw EXCEPT ![p] = "out"]
  /\ UNCHANGED <<parent, pid, chan, killed, nextpid, waitLock, cpus, pc, loops>>

(* The rest of exit(), into sched().                                       *)
exit_zombie(c, p) ==
  /\ Runs(c, p)
  /\ pc[p] = "zombie"
  /\ lock[p] = Free
  /\ lock' = [lock EXCEPT ![p] = c]
  /\ state' = [state EXCEPT ![p] = "ZOMBIE"]
  /\ waitLock' = Free
  /\ sw' = [sw EXCEPT ![p] = "out"]
  /\ UNCHANGED <<parent, pid, chan, killed, nextpid, cpus, pc, loops>>

-----------------------------------------------------------------------------
(* wait() and wait2(): acquire(&wait_lock), on entry and back from sleep().*)
wait(c, p) ==
  /\ Runs(c, p)
  /\ pc[p] = "wait"
  /\ waitLock = Free
  /\ waitLock' = p
  /\ Goto(p, "scan")
  /\ UNCHANGED <<table, lock, cpus, sw, loops>>

(* Mutant: wait() does not take np->lock.                                  *)
scan_Mutant(c, p, copied) ==
  /\ Runs(c, p)
  /\ pc[p] = "scan"
  /\ LET np == i[p] IN
     /\ IF parent[np] = p /\ state[np] = "ZOMBIE"
          THEN /\ IF copied
                    THEN /\ freeproc(np)
                         /\ pc' = [pc EXCEPT ![p] = "ret", ![np] = "user"]
                    ELSE /\ Goto(p, "ret")
                         /\ UNCHANGED <<state, pid, parent, chan, killed>>
               /\ waitLock' = Free
               /\ i' = [i EXCEPT ![p] = 1]
               /\ havekids' = [havekids EXCEPT ![p] = FALSE]
          ELSE /\ i' = Advance(i, p)
               /\ havekids' = [havekids EXCEPT ![p] = @ \/ parent[np] = p]
               /\ Goto(p, IF AtEnd(i, p) THEN "scanned" ELSE "scan")
               /\ UNCHANGED <<state, pid, parent, chan, killed, waitLock>>
  /\ UNCHANGED <<nextpid, lock, cpus, sw, child, j>>

(* Mutant: wait() returns the pid of a zombie but does not free it.        *)
scan_NoFree(c, p, copied) ==
  /\ Runs(c, p)
  /\ pc[p] = "scan"
  /\ LET np == i[p] IN
     /\ parent[np] = p => lock[np] = Free
     /\ IF parent[np] = p /\ state[np] = "ZOMBIE"
          THEN /\ Goto(p, "ret")
               /\ UNCHANGED <<state, pid, parent, chan, killed>>
               /\ waitLock' = Free
               /\ i' = [i EXCEPT ![p] = 1]
               /\ havekids' = [havekids EXCEPT ![p] = FALSE]
          ELSE /\ i' = Advance(i, p)
               /\ havekids' = [havekids EXCEPT ![p] = @ \/ parent[np] = p]
               /\ Goto(p, IF AtEnd(i, p) THEN "scanned" ELSE "scan")
               /\ UNCHANGED <<state, pid, parent, chan, killed, waitLock>>
  /\ UNCHANGED <<nextpid, lock, cpus, sw, child, j>>

(* One iteration of the scan: a zombie child is freed, unless copyout()    *)
(* fails, and the call is over.  The context of a freed slot is the one    *)
(* the next allocproc() gives it; dead loop variables go back to their     *)
(* initial values here and below.                                          *)
scan(c, p, copied) ==
  /\ Runs(c, p)
  /\ pc[p] = "scan"
  /\ LET np == i[p] IN
     /\ parent[np] = p => lock[np] = Free
     /\ IF parent[np] = p /\ state[np] = "ZOMBIE"
          THEN /\ IF copied
                    THEN /\ freeproc(np)
                         /\ pc' = [pc EXCEPT ![p] = "ret", ![np] = "user"]
                    ELSE /\ Goto(p, "ret")
                         /\ UNCHANGED <<state, pid, parent, chan, killed>>
               /\ waitLock' = Free
               /\ i' = [i EXCEPT ![p] = 1]
               /\ havekids' = [havekids EXCEPT ![p] = FALSE]
          ELSE /\ i' = Advance(i, p)
               /\ havekids' = [havekids EXCEPT ![p] = @ \/ parent[np] = p]
               /\ Goto(p, IF AtEnd(i, p) THEN "scanned" ELSE "scan")
               /\ UNCHANGED <<state, pid, parent, chan, killed, waitLock>>
  /\ UNCHANGED <<nextpid, lock, cpus, sw, child, j>>

(* Mutant: wait() gives wait_lock up before it calls sleep().              *)
wait_test_Mutant(c, p) ==
  /\ Runs(c, p)
  /\ pc[p] = "scanned"
  /\ Goto(p, IF ~havekids[p] \/ killed[p] THEN "ret" ELSE "sleep")
  /\ waitLock' = Free
  /\ havekids' = [havekids EXCEPT ![p] = FALSE]
  /\ UNCHANGED <<table, lock, cpus, sw, child, i, j>>

(* No child to wait for, or p->killed, which is read without p->lock.      *)
wait_test(c, p) ==
  /\ Runs(c, p)
  /\ pc[p] = "scanned"
  /\ IF ~havekids[p] \/ killed[p]
       THEN Goto(p, "ret") /\ waitLock' = Free
       ELSE Goto(p, "sleep") /\ UNCHANGED waitLock
  /\ havekids' = [havekids EXCEPT ![p] = FALSE]
  /\ UNCHANGED <<table, lock, cpus, sw, child, i, j>>

(* sleep(p, &wait_lock) into sched(); it resumes at acquire(&wait_lock).   *)
sleep(c, p) ==
  /\ Runs(c, p)
  /\ pc[p] = "sleep"
  /\ lock[p] = Free
  /\ lock' = [lock EXCEPT ![p] = c]
  /\ waitLock' = Free
  /\ chan' = [chan EXCEPT ![p] = p]
  /\ state' = [state EXCEPT ![p] = "SLEEPING"]
  /\ sw' = [sw EXCEPT ![p] = "out"]
  /\ Goto(p, "wait")
  /\ UNCHANGED <<parent, pid, killed, nextpid, cpus, loops>>

(* kill(pid): the first slot that has the pid.  Nobody kills init.         *)
kill(c, p, s) ==
  /\ Runs(c, p)
  /\ pc[p] = "kill"
  /\ lock[s] = Free
  /\ s # initproc
  /\ \A t \in Slots : pid[t] = pid[s] => s <= t
  /\ killed' = [killed EXCEPT ![s] = TRUE]
  /\ state' = [state EXCEPT ![s] = IF @ = "SLEEPING" THEN "RUNNABLE" ELSE @]
  /\ Goto(p, "ret")
  /\ UNCHANGED <<parent, pid, chan, nextpid, waitLock, lock, cpus, sw, loops>>

-----------------------------------------------------------------------------
(* Kernel code of p that goes on by itself once p has entered the kernel.  *)
Kernel(c, p) ==
  \/ usertrap(c, p)
  \/ \E np \in Slots : fork(c, p, np) \/ fork_nomem(c, p, np)
  \/ fork_full(c, p) \/ fork_parent(c, p) \/ fork_run(c, p)
  \/ exit(c, p) \/ reparent(c, p) \/ wake_init(c, p) \/ wake_parent(c, p)
  \/ exit_zombie(c, p)
  \/ wait(c, p) \/ scan(c, p, TRUE) \/ wait_test(c, p) \/ sleep(c, p)
  \/ \E s \in Slots : kill(c, p, s)

Switch(c) ==
  \/ \E p \in Slots : sched_return(c, p) \/ sched(c, p)
  \/ scheduler_return(c)

Calls == {"fork", "exit", "wait", "kill"}

(* init's wait() passes a null address, so its copyout() cannot fail.      *)
Next ==
  \E c \in CPUs :
    \/ Switch(c)
    \/ \E p \in Slots :
         \/ scheduler(c, p)
         \/ Kernel(c, p)
         \/ kerneltrap(c, p)
         \/ p # initproc /\ scan(c, p, FALSE)
         \/ \E fault \in BOOLEAN : interrupt(c, p, fault)
         \/ \E l \in Calls : syscall(c, p, l)

Spec == Init /\ [][Next]_vars

(* Every CPU goes on executing, and its timer takes it from user code.     *)
(* The scheduler visits all slots in turn, so a RUNNABLE process is not    *)
(* passed over for ever.  Timer interrupts and other CPUs' short critical  *)
(* sections delay kernel code but do not stop it.  init calls wait() again *)
(* and again (user/init.c:39-52).                                          *)
Fairness ==
  /\ \A c \in CPUs : /\ WF_vars(Switch(c))
                     /\ WF_vars(\E p \in Slots : interrupt(c, p, FALSE))
  /\ \A p \in Slots : /\ SF_vars(\E c \in CPUs : scheduler(c, p))
                      /\ SF_vars(\E c \in CPUs : Kernel(c, p))
  /\ SF_vars(\E c \in CPUs : syscall(c, initproc, "wait"))

FairSpec == Spec /\ Fairness

-----------------------------------------------------------------------------
(* Two CPUs never execute on the same kernel stack, and no CPU picks up a  *)
(* context that another CPU is still saving: p->lock covers swtch()        *)
(* (proc.c:451-462, 499-507).                                              *)
OneCpuPerStack ==
  \A c, d \in CPUs : c # d =>
    /\ proc[c] # None => proc[c] # proc[d]
    /\ thread[c] # Sched => thread[c] # thread[d] /\ thread[c] # proc[d]

(* wait() frees a child only when no CPU is on its stack or about to save  *)
(* its context ("make sure the child isn't still in exit() or swtch()",    *)
(* proc.c:401).                                                            *)
FreedIsOffCpu ==
  \A s \in Slots : state[s] = "UNUSED" =>
    \A c \in CPUs : proc[c] # s /\ thread[c] # s

(* sched() meets none of its panics: the CPU holds p->lock and no other    *)
(* spinlock, and p's state has changed (proc.c:484-489).                   *)
SchedHoldsOnlyItsLock ==
  \A c \in CPUs, p \in Slots : thread[c] = p /\ sw[p] = "out" =>
    /\ lock[p] = c /\ waitLock # p
    /\ \A s \in Slots \ {p} : lock[s] # c
    /\ state[p] # "RUNNING"

(* No lost wakeup between exit() and wait(): outside wait_lock's critical  *)
(* sections no parent sleeps in wait() while it has a zombie child, even   *)
(* though exit() wakes the parent before it becomes a zombie, and even if  *)
(* the zombie was inherited by init (proc.c:334, 366-374).                 *)
NoSleepOnZombie ==
  waitLock = Free =>
    \A p, s \in Slots :
      ~(parent[s] = p /\ state[s] = "ZOMBIE" /\ state[p] = "SLEEPING" /\ chan[p] = p)

(* Every process but init that runs, or has run, has a parent that can     *)
(* still wait() for it: the children of an exiting process go to init      *)
(* before it is a zombie, and init does not exit (proc.c:328-337, 368).    *)
ParentCanWait ==
  \A s \in Slots \ {initproc} : state[s] \notin {"UNUSED", "USED"} =>
    /\ parent[s] # None
    /\ state[parent[s]] \notin {"UNUSED", "USED", "ZOMBIE"}

(* Two processes never have the same pid, and kill() of a process's pid    *)
(* reaches that process (proc.c:91-101, 588-598).                          *)
PidsDiffer ==
  \A s, t \in Slots : pid[s] = pid[t] /\ s # t => pid[s] = 0 /\ state[s] = "UNUSED"

(* init reaps every zombie that is its child (user/init.c:39-52).          *)
InitReaps ==
  \A s \in Slots : state[s] = "ZOMBIE" /\ parent[s] = initproc ~> state[s] = "UNUSED"
=============================================================================
