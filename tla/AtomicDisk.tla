----------------------------- MODULE AtomicDisk -----------------------------
(***************************************************************************)
(* What the logging layer of kernel/log.c promises to the file system: the *)
(* file-system calls between begin_op() and end_op() update blocks in      *)
(* memory, a commit makes all the updates durable at once and only while   *)
(* no call is in progress, and a crash brings back the last committed      *)
(* state.  So no call is ever half on disk.                                *)
(***************************************************************************)
CONSTANTS Procs,  \* processes that make file-system calls
          Blocks, \* home block numbers
          Vals    \* contents of a block

VARIABLES durable, \* the contents a crash would leave, after recovery
          view,    \* the contents the running system sees
          active   \* the processes inside a file-system call

vars == <<durable, view, active>>

Init ==
  /\ durable \in [Blocks -> Vals]
  /\ view = durable
  /\ active = {}

Begin(p) ==
  /\ p \notin active
  /\ active' = active \cup {p}
  /\ UNCHANGED <<durable, view>>

Write(p, b, v) ==
  /\ p \in active
  /\ view' = [view EXCEPT ![b] = v]
  /\ UNCHANGED <<durable, active>>

End(p) ==
  /\ p \in active
  /\ active' = active \ {p}
  /\ UNCHANGED <<durable, view>>

Commit ==
  /\ active = {}
  /\ durable' = view
  /\ UNCHANGED <<view, active>>

Crash ==
  /\ view' = durable
  /\ active' = {}
  /\ UNCHANGED durable

Next ==
  \/ \E p \in Procs : Begin(p) \/ End(p)
  \/ \E p \in Procs, b \in Blocks, v \in Vals : Write(p, b, v)
  \/ Commit
  \/ Crash

Spec == Init /\ [][Next]_vars
=============================================================================
