------------------------------- MODULE Virtio -------------------------------
(***************************************************************************)
(* kernel/virtio_disk.c: processes that transfer their buffers through NUM *)
(* descriptors and two rings, the device, and the interrupt handler.       *)
(* disk.vdisk_lock makes each stretch of virtio_disk_rw() between two      *)
(* sleeps one step; the handler holds it too, but runs against the device. *)
(* The buffer of process p, whose sleep lock p holds (Bio), is called p.   *)
(***************************************************************************)
EXTENDS Integers, FiniteSets, FiniteSetsExt

CONSTANTS Procs, NoProc,
          NUM,          \* descriptors, and entries of a ring
          Wrap          \* the indices are taken modulo Wrap (2^16)

ASSUME VirtioAssumption ==
  NUM \in Nat \ {0} /\ Wrap \in Nat \ {0} /\ Wrap % NUM = 0 /\ NoProc \notin Procs

Desc == 0 .. NUM - 1
None == NUM             \* no descriptor; a ring entry that was consumed

VARIABLES free,         \* disk.free
          next,         \* desc[].next, None without VRING_DESC_F_NEXT
          addr,         \* the buffer that desc[].addr points to, of the second descriptor
          info,         \* disk.info: the buffer and the status byte
          busy,         \* b->disk
          avail, used,  \* the rings: ring and idx
          used_idx,     \* disk.used_idx
          handler,      \* virtio_disk_intr() is running
          seen,         \* the device's place in the avail ring
          fetched,      \* heads of the chains the device works on
          irq,          \* the device's interrupt status
          pc, head,     \* where a process is, and idx[0]
          moved         \* (history) the buffers whose data has moved

driver == <<free, next, addr, info, busy, used_idx, handler, pc, head>>
device == <<seen, fetched, used>>
vars == <<driver, device, avail, irq, moved>>

Ring == [ring : [Desc -> Desc \cup {None}], idx : 0 .. Wrap - 1]

TypeOK ==
  /\ free \subseteq Desc /\ fetched \subseteq Desc
  /\ next \in [Desc -> Desc \cup {None}]
  /\ addr \in [Desc -> Procs \cup {NoProc}]
  /\ info \in [Desc -> [b : Procs \cup {NoProc}, status : {0, 255}]]
  /\ busy \in [Procs -> BOOLEAN]
  /\ avail \in Ring /\ used \in Ring
  /\ used_idx \in 0 .. Wrap - 1 /\ seen \in 0 .. Wrap - 1
  /\ handler \in BOOLEAN /\ irq \in BOOLEAN
  /\ pc \in [Procs -> {"idle", "alloc", "nodesc", "io", "check"}]
  /\ head \in [Procs -> Desc]
  /\ moved \subseteq Procs

Empty == [ring |-> [d \in Desc |-> None], idx |-> 0]

(* virtio_disk_init().                                                     *)
Init ==
  /\ free = Desc
  /\ next = [d \in Desc |-> None]
  /\ addr = [d \in Desc |-> NoProc]
  /\ info = [d \in Desc |-> [b |-> NoProc, status |-> 0]]
  /\ busy = [p \in Procs |-> FALSE]
  /\ avail = Empty /\ used = Empty
  /\ used_idx = 0 /\ seen = 0 /\ fetched = {}
  /\ handler = FALSE /\ irq = FALSE
  /\ pc = [p \in Procs |-> "idle"]
  /\ head = [p \in Procs |-> 0]
  /\ moved = {}

Put(r, d) == [ring |-> [r.ring EXCEPT ![r.idx % NUM] = d], idx |-> (r.idx + 1) % Wrap]

-----------------------------------------------------------------------------
call(p) ==
  /\ pc[p] = "idle"
  /\ pc' = [pc EXCEPT ![p] = "alloc"]
  /\ UNCHANGED <<free, next, addr, info, busy, used_idx, handler, head, device, avail, irq, moved>>

(* wakeup(&disk.free[0]) in free_desc(), which only wakes sleepers: p      *)
(* itself is not asleep.                                                   *)
WakeFree(p) == [q \in Procs |-> IF q # p /\ pc[q] = "nodesc" THEN "alloc" ELSE pc[q]]

(* Mutant: the descriptors that were allocated are kept.                   *)
alloc3_fail_Mutant == {}
(* alloc3_desc() fails: what it allocated is free again.                   *)
alloc3_fail == free

(* From acquire() or the wakeup to the sleep for descriptors.              *)
no_desc(p) ==
  /\ pc[p] = "alloc" /\ ~handler
  /\ Cardinality(free) < 3
  /\ free' = alloc3_fail
  /\ pc' = [(IF free = {} THEN pc ELSE WakeFree(p)) EXCEPT ![p] = "nodesc"]
  /\ UNCHANGED <<next, addr, info, busy, used_idx, handler, head, device, avail, irq, moved>>

(* alloc_desc() takes the first free descriptor.                           *)
Lowest(n) == CHOOSE S \in SUBSET free : /\ Cardinality(S) = n
                                        /\ \A x \in S, y \in free \ S : x < y

(* From acquire() or the wakeup to the sleep for the transfer.             *)
submit(p) ==
  LET S == Lowest(3)
      idx0 == Min(S)
      idx2 == Max(S)
      idx1 == CHOOSE d \in S : d \notin {idx0, idx2}
  IN /\ pc[p] = "alloc" /\ ~handler
     /\ Cardinality(free) >= 3
     /\ free' = free \ S
     /\ next' = [next EXCEPT ![idx0] = idx1, ![idx1] = idx2, ![idx2] = None]
     /\ addr' = [addr EXCEPT ![idx1] = p]
     /\ info' = [info EXCEPT ![idx0] = [b |-> p, status |-> 255]]
     /\ busy' = [busy EXCEPT ![p] = TRUE]
     /\ head' = [head EXCEPT ![p] = idx0]
     /\ avail' = Put(avail, idx0)
     /\ pc' = [pc EXCEPT ![p] = "io"]
     /\ UNCHANGED <<used_idx, handler, device, irq, moved>>

(* The chain of descriptors that starts with d.                            *)
Chain(d) ==
  {d} \cup IF next[d] = None THEN {}
           ELSE {next[d]} \cup IF next[next[d]] = None THEN {} ELSE {next[next[d]]}

(* Mutant: free_desc() does not call wakeup().                             *)
free_chain_Wakes_Mutant(p) == pc
free_chain_Wakes(p) == WakeFree(p)

(* Mutant: a process that wakes up is sure that its transfer is done.      *)
StillBusy_Mutant(p) == FALSE
StillBusy(p) == busy[p]

(* The test of b->disk after the wakeup, and the return.                   *)
finish(p) ==
  /\ pc[p] = "check" /\ ~handler
  /\ IF StillBusy(p)
       THEN /\ pc' = [pc EXCEPT ![p] = "io"]
            /\ UNCHANGED <<free, next, addr, info, head, moved>>
       ELSE /\ free' = free \cup Chain(head[p])
            /\ next' = [d \in Desc |-> IF d \in Chain(head[p]) THEN None ELSE next[d]]
            /\ addr' = [d \in Desc |-> IF d \in Chain(head[p]) THEN NoProc ELSE addr[d]]
            /\ info' = [info EXCEPT ![head[p]].b = NoProc]
            /\ head' = [head EXCEPT ![p] = 0]
            /\ pc' = [free_chain_Wakes(p) EXCEPT ![p] = "idle"]
            /\ moved' = moved \ {p}
  /\ UNCHANGED <<busy, used_idx, handler, device, avail, irq>>

-----------------------------------------------------------------------------
(* The device fetches chains in the order of the ring, serves them in any  *)
(* order, and raises its interrupt when it has put one on the used ring.   *)
device_fetch ==
  LET slot == seen % NUM
  IN /\ seen # avail.idx
     /\ fetched' = fetched \cup {avail.ring[slot]}
     /\ avail' = [avail EXCEPT !.ring[slot] = None]
     /\ seen' = (seen + 1) % Wrap
     /\ UNCHANGED <<driver, used, irq, moved>>

device_serve(d) ==
  /\ d \in fetched
  /\ fetched' = fetched \ {d}
  /\ moved' = moved \cup {addr[next[d]]}
  /\ info' = [info EXCEPT ![d].status = 0]
  /\ used' = Put(used, d)
  /\ irq' = TRUE
  /\ UNCHANGED <<free, next, addr, busy, used_idx, handler, pc, head, seen, avail>>

-----------------------------------------------------------------------------
(* The write to VIRTIO_MMIO_INTERRUPT_ACK comes first.                     *)
intr_begin ==
  /\ irq /\ ~handler
  /\ irq' = FALSE
  /\ handler' = TRUE
  /\ UNCHANGED <<free, next, addr, info, busy, used_idx, pc, head, device, avail, moved>>

(* Mutant: one completion per interrupt.                                   *)
Looping_Mutant == FALSE
Looping == TRUE

Completed == used.ring[used_idx % NUM]

intr_loop ==
  LET p == info[Completed].b
  IN /\ handler /\ used_idx # used.idx
     /\ info[Completed].status = 0      \* or else panic("virtio_disk_intr status")
     /\ busy' = [busy EXCEPT ![p] = FALSE]
     /\ pc' = [pc EXCEPT ![p] = IF @ = "io" THEN "check" ELSE @]
     /\ used_idx' = (used_idx + 1) % Wrap
     /\ used' = [used EXCEPT !.ring[used_idx % NUM] = None]
     /\ handler' = Looping
     /\ UNCHANGED <<free, next, addr, info, head, seen, fetched, avail, irq, moved>>

intr_end ==
  /\ handler /\ used_idx = used.idx
  /\ handler' = FALSE
  /\ UNCHANGED <<free, next, addr, info, busy, used_idx, pc, head, device, avail, irq, moved>>

(* kill() makes a process that sleeps runnable (proc.c:593-596).           *)
kill(p) ==
  /\ pc[p] \in {"io", "nodesc"}
  /\ pc' = [pc EXCEPT ![p] = IF @ = "io" THEN "check" ELSE "alloc"]
  /\ UNCHANGED <<free, next, addr, info, busy, used_idx, handler, head, device, avail, irq, moved>>

-----------------------------------------------------------------------------
run(p) == no_desc(p) \/ submit(p) \/ finish(p)
intr == intr_begin \/ intr_loop \/ intr_end
serve == device_fetch \/ \E d \in Desc : device_serve(d)

Next == (\E p \in Procs : call(p) \/ run(p) \/ kill(p)) \/ intr \/ serve

Spec == Init /\ [][Next]_vars

(* A process that can run is scheduled and gets vdisk_lock, which others   *)
(* hold for short times only, interrupts are taken, and the device serves  *)
(* every request.                                                          *)
Fairness ==
  /\ \A p \in Procs : SF_vars(run(p))
  /\ WF_vars(intr)
  /\ WF_vars(device_fetch) /\ \A d \in Desc : WF_vars(device_serve(d))

FairSpec == Spec /\ Fairness

-----------------------------------------------------------------------------
(* Every request is served exactly once, before its virtio_disk_rw()       *)
(* returns, whatever the order of the completions (Requests).              *)
Request == [p \in Procs |-> IF pc[p] = "idle" THEN "none"
                            ELSE IF p \in moved THEN "moved" ELSE "asked"]
Served == INSTANCE Requests WITH request <- Request
RequestsAreServed == Served!Spec

(* The types hold, and a descriptor is free or belongs to the chain of one *)
(* process; neither alloc3_desc()'s error path nor free_chain() loses one. *)
DescriptorsBalance ==
  LET active == {p \in Procs : pc[p] \in {"io", "check"}}
  IN /\ TypeOK
     /\ free = Desc \ UNION {Chain(head[p]) : p \in active}
     /\ \A p \in active : Cardinality(Chain(head[p])) = 3
     /\ \A p, q \in active : p # q => Chain(head[p]) \cap Chain(head[q]) = {}

(* The completion of a request is never overlooked: a process whose data   *)
(* has moved is told, or an interrupt is pending or being handled.         *)
CompletionIsAnnounced ==
  \A p \in moved : pc[p] = "io" => irq \/ (handler /\ used_idx # used.idx)

(* Requests end, and who waits for descriptors is woken.                   *)
RequestsEnd ==
  \A p \in Procs : /\ pc[p] \in {"io", "check"} ~> pc[p] = "idle"
                   /\ pc[p] = "nodesc" ~> pc[p] = "alloc"
=============================================================================
