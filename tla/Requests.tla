------------------------------ MODULE Requests ------------------------------
(***************************************************************************)
(* What virtio_disk_rw() promises: the data of a request moves exactly     *)
(* once, after the call and before the return.                             *)
(***************************************************************************)
CONSTANT Procs

VARIABLE request        \* "none", "asked" or "moved", for each process

Init == request = [p \in Procs |-> "none"]

Move(p, from, to) == request[p] = from /\ request' = [request EXCEPT ![p] = to]

Next ==
  \E p \in Procs : \/ Move(p, "none", "asked")
                   \/ Move(p, "asked", "moved")
                   \/ Move(p, "moved", "none")

Spec == Init /\ [][Next]_request
=============================================================================
