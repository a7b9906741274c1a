-------------------------------- MODULE Fifo --------------------------------
(***************************************************************************)
(* What a pipe promises: a bounded first-in first-out queue of bytes with  *)
(* two ends.  Bytes enter while both ends are open, leave in the order     *)
(* they entered, and a closed end stays closed.                            *)
(***************************************************************************)
EXTENDS Naturals, Sequences

CONSTANTS Bytes, Capacity

VARIABLES queue, readopen, writeopen

Init == queue = << >> /\ readopen = 1 /\ writeopen = 1

Put(b) ==
  /\ readopen = 1 /\ writeopen = 1
  /\ Len(queue) < Capacity
  /\ queue' = Append(queue, b)
  /\ UNCHANGED <<readopen, writeopen>>

Get ==
  /\ readopen = 1
  /\ queue # << >>
  /\ queue' = Tail(queue)
  /\ UNCHANGED <<readopen, writeopen>>

CloseRead == readopen' = 0 /\ UNCHANGED <<queue, writeopen>>

CloseWrite == writeopen' = 0 /\ UNCHANGED <<queue, readopen>>

Next == (\E b \in Bytes : Put(b)) \/ Get \/ CloseRead \/ CloseWrite

Spec == Init /\ [][Next]_<<queue, readopen, writeopen>>
=============================================================================
