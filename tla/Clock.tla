------------------------------- MODULE Clock --------------------------------
(***************************************************************************)
(* tickslock and the p->locks: clockintr(), sys_sleep(), and wakeup(),     *)
(* which records p->readytime with sys_uptime().  Here every acquire() and *)
(* release() is a step of its own, because two locks are held at a time.   *)
(* CPU c stays at a spinning step until the lock it wants is free, and     *)
(* stops for ever when acquire() panics.                                   *)
(***************************************************************************)
EXTENDS Integers

CONSTANTS NPROC,     \* size of the process table
          CPUs,
          hart0,     \* the CPU whose timer calls clockintr()
          Free,      \* nobody holds the lock
          SleepArgs, \* arguments of sleep() system calls
          MaxTicks   \* bound on ticks

Slots == 1 .. NPROC
None == 0
tickslock == NPROC + 1          \* lock s is proc[s].lock, for s in Slots
TICKSCH == "ticks"              \* the channel of sys_sleep()
OTHERCH == "other"              \* a channel of another component

VARIABLES
  ticks,
  state, chan, readytime,   \* fields of struct proc
  ticks0, n,                \* locals of sys_sleep(); n = 0 outside it
  holder,                   \* the CPU that holds each lock
  proc,                     \* the process that runs on each CPU
  pc, ch, i                 \* where each CPU is; channel and loop variable of wakeup()

procVars == <<state, chan, readytime, ticks0, n>>
vars == <<ticks, procVars, holder, proc, pc, ch, i>>

Init ==
  /\ ticks = 0
  /\ state = [s \in Slots |-> "RUNNABLE"]
  /\ chan = [s \in Slots |-> "none"]
  /\ readytime = [s \in Slots |-> 0]
  /\ ticks0 = [s \in Slots |-> 0]
  /\ n = [s \in Slots |-> 0]
  /\ holder = [l \in Slots \cup {tickslock} |-> Free]
  /\ proc = [c \in CPUs |-> None]
  /\ pc = [c \in CPUs |-> "idle"]
  /\ ch = [c \in CPUs |-> OTHERCH]
  /\ i = [c \in CPUs |-> 1]

Goto(c, l) == pc' = [pc EXCEPT ![c] = l]
Take(c, l) == holder[l] = Free /\ holder' = [holder EXCEPT ![l] = c]
Drop(l) == holder' = [holder EXCEPT ![l] = Free]

-----------------------------------------------------------------------------
scheduler(c, s) ==
  /\ pc[c] = "idle" /\ proc[c] = None
  /\ holder[s] = Free
  /\ state[s] = "RUNNABLE"
  /\ state' = [state EXCEPT ![s] = "RUNNING"]
  /\ chan' = [chan EXCEPT ![s] = "none"]
  /\ proc' = [proc EXCEPT ![c] = s]
  /\ Goto(c, IF n[s] = 0 THEN "idle" ELSE "relock")
  /\ UNCHANGED <<ticks, readytime, ticks0, n, holder, ch, i>>

(* A timer interrupt on hart 0: acquire(&tickslock), ticks++, wakeup().    *)
timer ==
  /\ pc[hart0] = "idle"
  /\ ticks < MaxTicks
  /\ Goto(hart0, "clockintr")
  /\ UNCHANGED <<ticks, procVars, holder, proc, ch, i>>

clockintr ==
  /\ pc[hart0] = "clockintr"
  /\ Take(hart0, tickslock)
  /\ ticks' = ticks + 1
  /\ ch' = [ch EXCEPT ![hart0] = TICKSCH]
  /\ Goto(hart0, "wakeup")
  /\ UNCHANGED <<procVars, proc, i>>

clockintr_end ==
  /\ pc[hart0] = "clockintr_end"
  /\ Drop(tickslock)
  /\ Goto(hart0, "idle")
  /\ UNCHANGED <<ticks, procVars, proc, ch, i>>

-----------------------------------------------------------------------------
(* Another component's code on CPU c calls wakeup() on its channel.        *)
call_wakeup(c) ==
  /\ pc[c] = "idle" /\ proc[c] # None
  /\ ch' = [ch EXCEPT ![c] = OTHERCH]
  /\ Goto(c, "wakeup")
  /\ UNCHANGED <<ticks, procVars, holder, proc, i>>

(* wakeup() is done with slot i[c]: the next slot, or back to its caller.  *)
NextSlot(c) ==
  IF i[c] = NPROC
    THEN /\ i' = [i EXCEPT ![c] = 1]
         /\ Goto(c, IF ch[c] = TICKSCH THEN "clockintr_end" ELSE "idle")
    ELSE /\ i' = [i EXCEPT ![c] = @ + 1]
         /\ Goto(c, "wakeup")

(* Skip myproc(), or acquire(&p->lock).                                    *)
wakeup(c) ==
  /\ pc[c] = "wakeup"
  /\ IF i[c] = proc[c]
       THEN NextSlot(c) /\ UNCHANGED holder
       ELSE Take(c, i[c]) /\ Goto(c, "wakeup_test") /\ UNCHANGED i
  /\ UNCHANGED <<ticks, procVars, proc, ch>>

wakeup_test(c) ==
  /\ pc[c] = "wakeup_test"
  /\ IF state[i[c]] = "SLEEPING" /\ chan[i[c]] = ch[c]
       THEN /\ state' = [state EXCEPT ![i[c]] = "RUNNABLE"]
            /\ Goto(c, "uptime")
            /\ UNCHANGED <<holder, i>>
       ELSE /\ Drop(i[c])
            /\ NextSlot(c)
            /\ UNCHANGED state
  /\ UNCHANGED <<ticks, chan, readytime, ticks0, n, proc, ch>>

(* p->readytime = sys_uptime(): tickslock is taken with p->lock held.      *)
uptime(c) ==
  /\ pc[c] = "uptime"
  /\ IF holder[tickslock] = c
       THEN /\ Goto(c, "panic")
            /\ UNCHANGED <<readytime, holder, i>>
       ELSE /\ holder[tickslock] = Free
            /\ readytime' = [readytime EXCEPT ![i[c]] = ticks]
            /\ Drop(i[c])
            /\ NextSlot(c)
  /\ UNCHANGED <<ticks, state, chan, ticks0, n, proc, ch>>

-----------------------------------------------------------------------------
call_sleep(c, arg) ==
  /\ pc[c] = "idle" /\ proc[c] # None
  /\ n' = [n EXCEPT ![proc[c]] = arg]
  /\ Goto(c, "sys_sleep")
  /\ UNCHANGED <<ticks, state, chan, readytime, ticks0, holder, proc, ch, i>>

sys_sleep(c) ==
  /\ pc[c] = "sys_sleep"
  /\ Take(c, tickslock)
  /\ ticks0' = [ticks0 EXCEPT ![proc[c]] = ticks]
  /\ Goto(c, "sys_sleep_test")
  /\ UNCHANGED <<ticks, state, chan, readytime, n, proc, ch, i>>

(* The loop test of sys_sleep(), with tickslock held.  p->killed, which    *)
(* ends the call early, may have either value.                             *)
sys_sleep_test(c, killed) ==
  /\ pc[c] = "sys_sleep_test"
  /\ LET p == proc[c] IN
     IF ticks - ticks0[p] < n[p] /\ ~killed
       THEN Goto(c, "sleep") /\ UNCHANGED <<n, holder>>
       ELSE /\ Drop(tickslock)
            /\ n' = [n EXCEPT ![p] = 0]
            /\ Goto(c, "idle")
  /\ UNCHANGED <<ticks, state, chan, readytime, ticks0, proc, ch, i>>

(* sleep(&ticks, &tickslock): p->lock is taken with tickslock held.        *)
sleep(c) ==
  /\ pc[c] = "sleep"
  /\ LET p == proc[c] IN
     /\ holder[p] = Free
     /\ holder' = [holder EXCEPT ![p] = c, ![tickslock] = Free]
     /\ chan' = [chan EXCEPT ![p] = TICKSCH]
     /\ state' = [state EXCEPT ![p] = "SLEEPING"]
  /\ Goto(c, "sched")
  /\ UNCHANGED <<ticks, readytime, ticks0, n, proc, ch, i>>

(* sleep() of another component, which holds no lock of this module.       *)
sleep_other(c) ==
  /\ pc[c] = "idle" /\ proc[c] # None
  /\ Take(c, proc[c])
  /\ chan' = [chan EXCEPT ![proc[c]] = OTHERCH]
  /\ state' = [state EXCEPT ![proc[c]] = "SLEEPING"]
  /\ Goto(c, "sched")
  /\ UNCHANGED <<ticks, readytime, ticks0, n, proc, ch, i>>

(* sched(), and the scheduler's release(&p->lock).                         *)
sched(c) ==
  /\ pc[c] = "sched"
  /\ Drop(proc[c])
  /\ proc' = [proc EXCEPT ![c] = None]
  /\ Goto(c, "idle")
  /\ UNCHANGED <<ticks, procVars, ch, i>>

(* Back from sleep(): acquire(&tickslock).                                 *)
relock(c) ==
  /\ pc[c] = "relock"
  /\ Take(c, tickslock)
  /\ Goto(c, "sys_sleep_test")
  /\ UNCHANGED <<ticks, procVars, proc, ch, i>>

-----------------------------------------------------------------------------
(* Kernel code that goes on by itself.                                     *)
Kernel(c) ==
  \/ wakeup(c) \/ wakeup_test(c) \/ uptime(c)
  \/ sys_sleep(c) \/ sys_sleep_test(c, FALSE) \/ sleep(c) \/ sched(c) \/ relock(c)
  \/ c = hart0 /\ (clockintr \/ clockintr_end)

Next ==
  \/ timer
  \/ \E c \in CPUs :
       \/ Kernel(c) \/ sys_sleep_test(c, TRUE) \/ call_wakeup(c) \/ sleep_other(c)
       \/ \E s \in Slots : scheduler(c, s)
       \/ \E arg \in SleepArgs : call_sleep(c, arg)

Spec == Init /\ [][Next]_vars

(* acquire() is never called for a lock the CPU already holds: its         *)
(* assertion, panic("acquire") (spinlock.c:25-26), never fires.            *)
NoAcquirePanic == \A c \in CPUs : pc[c] # "panic"
=============================================================================
