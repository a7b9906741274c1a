-------------------------------- MODULE Log ---------------------------------
(***************************************************************************)
(* The redo log of kernel/log.c with the part of the buffer cache          *)
(* (kernel/bio.c) it relies on: group commit of concurrent file-system     *)
(* calls, crashes at any disk write, and recovery at boot.                 *)
(*                                                                         *)
(* Every step that log.lock makes atomic is one action, and so is every    *)
(* bwrite().  sleep(&log, &log.lock) is the process state "sleep": the     *)
(* test and the sleep are one step because sleep() takes p->lock before it *)
(* gives log.lock up.  Buffers of log blocks are written through at once   *)
(* (write_log, write_head), so only their disk contents are kept.  A panic *)
(* halts the machine: the action has no step there, and the invariants     *)
(* state that the condition never arises.                                  *)
(***************************************************************************)
EXTENDS Integers, Sequences, FiniteSets

CONSTANTS Procs,       \* processes that make file-system calls
          Blocks,      \* home block numbers
          Vals,        \* contents of a block
          NotCached,   \* no buffer holds the block
          NoBlock,     \* the process holds no buffer
          MAXOPBLOCKS, \* log space begin_op() reserves for a call
          LOGSIZE,     \* length of logheader.block[]
          LogBlocks,   \* log.size = sb.nlog, the header block included
          OpMax,       \* most distinct blocks a call really logs
          MaxCrashes   \* bound on the crashes of a behaviour

ASSUME ConstantsAssumption ==
  /\ IsFiniteSet(Procs) /\ IsFiniteSet(Blocks)
  /\ NotCached \notin Vals
  /\ NoBlock \notin Blocks
  /\ MAXOPBLOCKS \in Nat \ {0}
  /\ LOGSIZE \in Nat \ {0}
  /\ LogBlocks \in Nat \ {0}
  /\ OpMax \in Nat
  /\ MaxCrashes \in Nat

VARIABLES
  pc,          \* where each process is in begin_op/the call/end_op/commit
  tail,        \* the loop variable of write_log() and install_trans()
  wrote,       \* blocks the call has passed to log_write()
  held,        \* the locked buffer the call is modifying
  committing,  \* log.committing
  outstanding, \* log.outstanding
  lh,          \* log.lh.block[0 .. n-1]
  cache,       \* b->data of the buffer that caches a block
  pins,        \* references bpin() put on the buffer of a block
  home,        \* disk: the home locations
  logdata,     \* disk: the log blocks after the header
  hdr,         \* disk: the block numbers of the log header
  boot,        \* where recovery is, "up" when the system runs
  btail,       \* install_trans()'s loop variable during recovery
  crashes      \* crashes so far

opVars   == <<pc, tail, wrote, held>>
logVars  == <<committing, outstanding, lh>>
diskVars == <<home, logdata, hdr>>
bootVars == <<boot, btail, crashes>>
vars     == <<opVars, logVars, cache, pins, diskVars, bootVars>>

LogSlots == 1 .. LogBlocks - 1

PCs == {"idle", "sleep", "woken", "op", "logging", "write_log", "write_head",
        "install", "clear", "committed"}

Elems(s) == {s[i] : i \in 1 .. Len(s)}

TypeOK ==
  /\ pc \in [Procs -> PCs]
  /\ tail \in [Procs -> Nat]
  /\ wrote \in [Procs -> SUBSET Blocks]
  /\ held \in [Procs -> Blocks \cup {NoBlock}]
  /\ committing \in {0, 1}
  /\ outstanding \in Int
  /\ lh \in Seq(Blocks)
  /\ cache \in [Blocks -> Vals \cup {NotCached}]
  /\ pins \in [Blocks -> Int]
  /\ home \in [Blocks -> Vals]
  /\ logdata \in [LogSlots -> Vals]
  /\ hdr \in Seq(Blocks)
  /\ boot \in {"up", "read_head", "install", "clear"}
  /\ btail \in Nat
  /\ crashes \in 0 .. MaxCrashes
-----------------------------------------------------------------------------
Init ==
  /\ pc = [p \in Procs |-> "idle"]
  /\ tail = [p \in Procs |-> 0]
  /\ wrote = [p \in Procs |-> {}]
  /\ held = [p \in Procs |-> NoBlock]
  /\ committing = 0
  /\ outstanding = 0
  /\ lh = << >>
  /\ cache = [b \in Blocks |-> NotCached]
  /\ pins = [b \in Blocks |-> 0]
  /\ home \in [Blocks -> Vals]
  /\ logdata \in [LogSlots -> Vals]
  /\ hdr = << >>
  /\ boot = "up"
  /\ btail = 0
  /\ crashes = 0

-----------------------------------------------------------------------------
(* The buffer cache: a block is read from its home location only when no   *)
(* buffer holds it, and a buffer is recycled only when its refcnt is 0.    *)

BufData(b) == IF cache[b] = NotCached THEN home[b] ELSE cache[b]

bread(b) ==
  /\ boot = "up"
  /\ cache[b] = NotCached
  /\ cache' = [cache EXCEPT ![b] = home[b]]
  /\ UNCHANGED <<opVars, logVars, pins, diskVars, bootVars>>

Recycle(b) ==
  /\ boot = "up"
  /\ cache[b] # NotCached
  /\ pins[b] = 0
  /\ \A p \in Procs : held[p] # b
  /\ cache' = [cache EXCEPT ![b] = NotCached]
  /\ UNCHANGED <<opVars, logVars, pins, diskVars, bootVars>>

-----------------------------------------------------------------------------
(* pc after wakeup(&log), for a caller whose own pc becomes next.          *)
Wakeup(p, next) ==
  [q \in Procs |-> IF q = p THEN next
                   ELSE IF pc[q] = "sleep" THEN "woken" ELSE pc[q]]

(* Mutant: begin_op() forgets the blocks of the call it is admitting.      *)
LogIsFull_Mutant == Len(lh) + outstanding * MAXOPBLOCKS > LOGSIZE

LogIsFull == Len(lh) + (outstanding + 1) * MAXOPBLOCKS > LOGSIZE

(* Mutant: begin_op() does not wait for a commit.                          *)
begin_op_Mutant(p) ==
  /\ boot = "up"
  /\ pc[p] \in {"idle", "woken"}
  /\ IF LogIsFull
       THEN /\ pc' = [pc EXCEPT ![p] = "sleep"]
            /\ UNCHANGED outstanding
       ELSE /\ pc' = [pc EXCEPT ![p] = "op"]
            /\ outstanding' = outstanding + 1
  /\ UNCHANGED <<tail, wrote, held, committing, lh, cache, pins, diskVars, bootVars>>

begin_op(p) ==
  /\ boot = "up"
  /\ pc[p] \in {"idle", "woken"}
  /\ IF committing = 1 \/ LogIsFull
       THEN /\ pc' = [pc EXCEPT ![p] = "sleep"]
            /\ UNCHANGED outstanding
       ELSE /\ pc' = [pc EXCEPT ![p] = "op"]
            /\ outstanding' = outstanding + 1
  /\ UNCHANGED <<tail, wrote, held, committing, lh, cache, pins, diskVars, bootVars>>

(* The call locks the buffer of block b with bread() and changes its data. *)
Modify(p, b, v) ==
  /\ boot = "up"
  /\ pc[p] = "op"
  /\ \A q \in Procs : held[q] # b
  /\ Cardinality(wrote[p] \cup {b}) <= OpMax
  /\ pc' = [pc EXCEPT ![p] = "logging"]
  /\ held' = [held EXCEPT ![p] = b]
  /\ cache' = [cache EXCEPT ![b] = v]
  /\ UNCHANGED <<tail, wrote, logVars, pins, diskVars, bootVars>>

(* log_write() of the held buffer, and the brelse() that follows it.       *)
LogHasRoom == Len(lh) < LOGSIZE /\ Len(lh) < LogBlocks - 1

log_write(p) ==
  /\ boot = "up"
  /\ pc[p] = "logging"
  /\ LogHasRoom
  /\ outstanding >= 1
  /\ LET b == held[p] IN
     /\ IF b \in Elems(lh)
          THEN UNCHANGED <<lh, pins>>
          ELSE /\ lh' = Append(lh, b)
               /\ pins' = [pins EXCEPT ![b] = @ + 1]
     /\ wrote' = [wrote EXCEPT ![p] = @ \cup {b}]
  /\ held' = [held EXCEPT ![p] = NoBlock]
  /\ pc' = [pc EXCEPT ![p] = "op"]
  /\ UNCHANGED <<tail, committing, outstanding, cache, diskVars, bootVars>>

(* The first half of end_op(), and commit()'s test of log.lh.n.            *)
end_op(p) ==
  /\ boot = "up"
  /\ pc[p] = "op"
  /\ committing = 0
  /\ outstanding' = outstanding - 1
  /\ IF outstanding' = 0
       THEN /\ committing' = 1
            /\ pc' = [pc EXCEPT ![p] = IF lh = << >> THEN "committed" ELSE "write_log"]
       ELSE /\ pc' = Wakeup(p, "idle")
            /\ UNCHANGED committing
  /\ tail' = [tail EXCEPT ![p] = 0]
  /\ wrote' = [wrote EXCEPT ![p] = {}]
  /\ UNCHANGED <<held, lh, cache, pins, diskVars, bootVars>>

(* Mutant: write_log() does not advance.                                   *)
write_log_Mutant(p) ==
  /\ boot = "up"
  /\ pc[p] = "write_log"
  /\ cache' = [cache EXCEPT ![lh[1]] = BufData(lh[1])]
  /\ logdata' = [logdata EXCEPT ![1] = BufData(lh[1])]
  /\ pc' = [pc EXCEPT ![p] = IF Len(lh) = 1 THEN "write_head" ELSE @]
  /\ UNCHANGED <<tail, wrote, held, logVars, pins, home, hdr, bootVars>>

(* One iteration of write_log(): the cached block goes to its log slot.    *)
write_log(p) ==
  /\ boot = "up"
  /\ pc[p] = "write_log"
  /\ LET i == tail[p] + 1
         b == lh[i] IN
     /\ cache' = [cache EXCEPT ![b] = BufData(b)]
     /\ logdata' = [logdata EXCEPT ![i] = BufData(b)]
     /\ tail' = [tail EXCEPT ![p] = i]
     /\ pc' = [pc EXCEPT ![p] = IF i = Len(lh) THEN "write_head" ELSE @]
  /\ UNCHANGED <<wrote, held, logVars, pins, home, hdr, bootVars>>

(* write_head() in commit(): the commit point.                             *)
write_head(p) ==
  /\ boot = "up"
  /\ pc[p] = "write_head"
  /\ hdr' = lh
  /\ pc' = [pc EXCEPT ![p] = "install"]
  /\ tail' = [tail EXCEPT ![p] = 0]
  /\ UNCHANGED <<wrote, held, logVars, cache, pins, home, logdata, bootVars>>

(* Mutant: install_trans() forgets the bunpin().                           *)
install_trans_Mutant(p) ==
  /\ boot = "up"
  /\ pc[p] = "install"
  /\ LET i == tail[p] + 1
         b == lh[i] IN
     /\ cache' = [cache EXCEPT ![b] = logdata[i]]
     /\ home' = [home EXCEPT ![b] = logdata[i]]
     /\ tail' = [tail EXCEPT ![p] = i]
     /\ pc' = [pc EXCEPT ![p] = IF i = Len(lh) THEN "clear" ELSE @]
  /\ UNCHANGED <<wrote, held, logVars, pins, logdata, hdr, bootVars>>

(* One iteration of install_trans(0).                                      *)
install_trans(p) ==
  /\ boot = "up"
  /\ pc[p] = "install"
  /\ LET i == tail[p] + 1
         b == lh[i] IN
     /\ cache' = [cache EXCEPT ![b] = logdata[i]]
     /\ home' = [home EXCEPT ![b] = logdata[i]]
     /\ pins' = [pins EXCEPT ![b] = @ - 1]
     /\ tail' = [tail EXCEPT ![p] = i]
     /\ pc' = [pc EXCEPT ![p] = IF i = Len(lh) THEN "clear" ELSE @]
  /\ UNCHANGED <<wrote, held, logVars, logdata, hdr, bootVars>>

(* log.lh.n = 0 and the second write_head() of commit().                   *)
clear_head(p) ==
  /\ boot = "up"
  /\ pc[p] = "clear"
  /\ lh' = << >>
  /\ hdr' = << >>
  /\ pc' = [pc EXCEPT ![p] = "committed"]
  /\ UNCHANGED <<tail, wrote, held, committing, outstanding, cache, pins, home, logdata, bootVars>>

(* The second half of end_op(): the commit is over, waiters may go on.     *)
end_commit(p) ==
  /\ boot = "up"
  /\ pc[p] = "committed"
  /\ committing' = 0
  /\ pc' = Wakeup(p, "idle")
  /\ UNCHANGED <<tail, wrote, held, outstanding, lh, cache, pins, diskVars, bootVars>>

-----------------------------------------------------------------------------
(* A crash loses the memory.  The block being written at that moment, if   *)
(* it spans several sectors, may be left with any contents; the header     *)
(* fits in one sector, so its write happens or does not.                   *)
TornLogdata ==
  {logdata} \cup {[logdata EXCEPT ![tail[p] + 1] = v] :
                    p \in {q \in Procs : pc[q] = "write_log"}, v \in Vals}

TornHome ==
  {home} \cup {[home EXCEPT ![lh[tail[p] + 1]] = v] :
                 p \in {q \in Procs : pc[q] = "install"}, v \in Vals}
         \cup {[home EXCEPT ![lh[btail + 1]] = v] :
                 v \in IF boot = "install" THEN Vals ELSE {}}

Crash ==
  /\ crashes < MaxCrashes
  /\ crashes' = crashes + 1
  /\ logdata' \in TornLogdata
  /\ home' \in TornHome
  /\ pc' = [p \in Procs |-> "idle"]
  /\ tail' = [p \in Procs |-> 0]
  /\ wrote' = [p \in Procs |-> {}]
  /\ held' = [p \in Procs |-> NoBlock]
  /\ committing' = 0
  /\ outstanding' = 0
  /\ lh' = << >>
  /\ cache' = [b \in Blocks |-> NotCached]
  /\ pins' = [b \in Blocks |-> 0]
  /\ boot' = "read_head"
  /\ btail' = 0
  /\ UNCHANGED hdr

(* Mutant: recovery reads the header but installs nothing.                 *)
read_head_Mutant ==
  /\ boot = "read_head"
  /\ lh' = hdr
  /\ boot' = "clear"
  /\ btail' = 0
  /\ UNCHANGED <<opVars, committing, outstanding, cache, pins, diskVars, crashes>>

(* Mutant: the loop of install_trans(1) never advances.                    *)
recover_install_Mutant ==
  /\ boot = "install"
  /\ cache' = [cache EXCEPT ![lh[btail + 1]] = logdata[btail + 1]]
  /\ home' = [home EXCEPT ![lh[btail + 1]] = logdata[btail + 1]]
  /\ UNCHANGED <<opVars, logVars, pins, logdata, hdr, bootVars>>

(* recover_from_log(), which initlog() calls: read_head() ...              *)
read_head ==
  /\ boot = "read_head"
  /\ lh' = hdr
  /\ boot' = IF hdr = << >> THEN "clear" ELSE "install"
  /\ btail' = 0
  /\ UNCHANGED <<opVars, committing, outstanding, cache, pins, diskVars, crashes>>

(* ... one iteration of install_trans(1) ...                               *)
recover_install ==
  /\ boot = "install"
  /\ LET i == btail + 1
         b == lh[i] IN
     /\ cache' = [cache EXCEPT ![b] = logdata[i]]
     /\ home' = [home EXCEPT ![b] = logdata[i]]
     /\ btail' = i
     /\ boot' = IF i = Len(lh) THEN "clear" ELSE boot
  /\ UNCHANGED <<opVars, logVars, pins, logdata, hdr, crashes>>

(* ... and log.lh.n = 0; write_head().                                     *)
recover_clear ==
  /\ boot = "clear"
  /\ lh' = << >>
  /\ hdr' = << >>
  /\ boot' = "up"
  /\ UNCHANGED <<opVars, committing, outstanding, cache, pins, home, logdata, btail, crashes>>

-----------------------------------------------------------------------------
Recover == read_head \/ recover_install \/ recover_clear

CommitStep(p) ==
  \/ write_log(p)
  \/ write_head(p)
  \/ install_trans(p)
  \/ clear_head(p)
  \/ end_commit(p)

Next ==
  \/ \E p \in Procs : begin_op(p) \/ log_write(p) \/ end_op(p) \/ CommitStep(p)
  \/ \E p \in Procs, b \in Blocks, v \in Vals : Modify(p, b, v)
  \/ \E b \in Blocks : bread(b) \/ Recycle(b)
  \/ Recover
  \/ Crash

(* Processes that hold no lock keep running (the scheduler is round-robin  *)
(* and disk requests complete), recovery runs to its end, and a call logs  *)
(* finitely many blocks before its end_op(), hence the strong fairness.    *)
Fairness ==
  /\ WF_vars(Recover)
  /\ \A p \in Procs : /\ WF_vars(log_write(p))
                      /\ SF_vars(end_op(p))
                      /\ WF_vars(CommitStep(p))

Spec == Init /\ [][Next]_vars
FairSpec == Spec /\ Fairness

-----------------------------------------------------------------------------
(* The contents recovery would leave if the machine stopped now.           *)
Recovered ==
  [b \in Blocks |->
     IF b \in Elems(hdr)
       THEN logdata[CHOOSE i \in 1 .. Len(hdr) : hdr[i] = b]
       ELSE home[b]]

(* The contents a running system sees through bread().                     *)
View == [b \in Blocks |-> IF boot = "up" THEN BufData(b) ELSE Recovered[b]]

InOp(p) == pc[p] \in {"op", "logging"}
InCommit(p) == pc[p] \in {"write_log", "write_head", "install", "clear", "committed"}

Active == {p \in Procs : InOp(p)}

(* The log implements atomic group commit.                                 *)
Abs == INSTANCE AtomicDisk WITH
         durable <- Recovered, view <- View, active <- Active

(* Group commit is atomic across crashes: whatever write is cut short, and *)
(* however often recovery is itself interrupted, the disk recovery leaves  *)
(* is the one of the last commit, and a commit contains whole calls only   *)
(* (log.c:12-16).                                                          *)
AtomicCommit == Abs!Spec

(* The process that leaves commit() finds every update it committed        *)
(* durable: a crash from here on cannot undo its call (log.c:144-145).     *)
CommittedIsDurable ==
  \A p \in Procs : pc[p] \in {"install", "clear", "committed"} => Recovered = View

(* log_write() never meets its panics (log.c:220-223) when no call logs as *)
(* many blocks as begin_op() reserves for it, even when the write would be *)
(* absorbed, and end_op() never finds a commit under way (log.c:153-154).  *)
NoLogPanic ==
  \A p \in Procs : /\ pc[p] = "logging" => LogHasRoom /\ outstanding >= 1
                   /\ pc[p] = "op" => committing = 0

(* At most one process runs commit(), log.committing is set exactly then,  *)
(* and no call is in progress while it runs, so nobody changes a buffer    *)
(* that is being copied to the log (log.c:13-16).                          *)
CommitIsExclusive ==
  /\ outstanding = Cardinality(Active)
  /\ committing = 1 <=> \E p \in Procs : InCommit(p)
  /\ \A p, q \in Procs : InCommit(p) => ~InOp(q) /\ (InCommit(q) => p = q)

(* The i-th logged block has been copied to its home location.             *)
Installed(i) ==
  \E p \in Procs : pc[p] = "clear" \/ (pc[p] = "install" /\ i <= tail[p])

(* bpin()/bunpin() balance: a buffer is pinned exactly while its update is *)
(* in the log and not yet home, so it cannot be recycled before its        *)
(* install (log.c:206, 231, 79) and is recyclable afterwards.              *)
PinnedUntilInstalled ==
  boot = "up" =>
    \A b \in Blocks :
      pins[b] = IF \E i \in 1 .. Len(lh) : lh[i] = b /\ ~Installed(i) THEN 1 ELSE 0

(* No lost wakeup: a process asleep in begin_op() always leaves somebody   *)
(* behind who will call wakeup(&log): a committer or another call.         *)
SleeperHasWaker ==
  \A p \in Procs : pc[p] = "sleep" => committing = 1 \/ outstanding > 0

(* Every process that begin_op() put to sleep is woken (log.c:162, 172).   *)
SleeperIsWoken == \A p \in Procs : pc[p] = "sleep" ~> pc[p] # "sleep"

(* Recovery after a crash, cut short or not, ends with the log empty and   *)
(* the file system up (log.c:116-123).                                     *)
RecoveryFinishes == boot # "up" ~> boot = "up"
=============================================================================
