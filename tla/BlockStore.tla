----------------------------- MODULE BlockStore -----------------------------
(***************************************************************************)
(* What the buffer cache promises for one block (bio.c:1-16): it has one   *)
(* value, and between bread() and brelse() a process is the only one that  *)
(* uses it.                                                                *)
(***************************************************************************)
CONSTANTS Procs, Values, NoProc, Zero

VARIABLES value,        \* the content of the block
          holder        \* the process that has the block, or NoProc

vars == <<value, holder>>

Init == value = Zero /\ holder = NoProc

Acquire(p) == holder = NoProc /\ holder' = p /\ UNCHANGED value
Write(p, v) == holder = p /\ value' = v /\ UNCHANGED holder
Release(p) == holder = p /\ holder' = NoProc /\ UNCHANGED value

Next == \E p \in Procs : Acquire(p) \/ Release(p) \/ \E v \in Values : Write(p, v)

Spec == Init /\ [][Next]_vars
=============================================================================
