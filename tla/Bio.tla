--------------------------------- MODULE Bio ---------------------------------
(***************************************************************************)
(* kernel/bio.c and kernel/sleeplock.c: NBUF buffers cache the blocks of   *)
(* the disk.  bcache.lock makes each of its critical sections one step;    *)
(* so does the spinlock inside a sleep lock.  An access is one use of a    *)
(* buffer, from bread() to brelse().  A process has up to two at once:     *)
(* bmap() and itrunc() keep the indirect block while balloc() and bfree()  *)
(* use the bitmap, and the log copies from one buffer to another.  Those   *)
(* two are two members of Accesses here, free to interleave although the   *)
(* code orders them.  An access changes a block as the file system does:   *)
(* before it gives the buffer back it has written the block, or the log    *)
(* has pinned it; the log later writes the block to the disk and unpins it.*)
(***************************************************************************)
EXTENDS Integers, FiniteSets

CONSTANTS Accesses, Blocks, Values, NoAccess, NoBlock, Zero,
          NBUF,
          MaxPins       \* blocks the log may have pinned

ASSUME BioAssumption ==
  /\ NBUF \in Nat \ {0} /\ MaxPins \in Nat
  /\ IsFiniteSet(Accesses) /\ IsFiniteSet(Blocks)
  /\ NoAccess \notin Accesses /\ NoBlock \notin Blocks /\ Zero \in Values

VARIABLES lru,          \* the list from bcache.head.next to bcache.head.prev
          buf,          \* struct buf: blockno, valid, refcnt, data and lock
          media,        \* the blocks on disk
          logged,       \* the blocks in the log header
          proc          \* where an access is, its buffer, and what it did with it

vars == <<lru, buf, media, logged, proc>>

Bufs == 1 .. NBUF

TypeOK ==
  /\ lru \in [Bufs -> Bufs] /\ \A b \in Bufs : \E i \in Bufs : lru[i] = b
  /\ buf \in [Bufs -> [blockno : Blocks \cup {NoBlock}, valid : BOOLEAN,
                       refcnt : 0 .. Cardinality(Accesses) + 1, data : Values,
                       lock : Accesses \cup {NoAccess}]]
  /\ media \in [Blocks -> Values]
  /\ logged \subseteq Blocks
  /\ proc \in [Accesses -> [pc : {"idle", "lock", "asleep", "read", "have", "write",
                                  "released", "panic"},
                            b : Bufs, state : {"clean", "dirty", "written"}]]

Idle == [pc |-> "idle", b |-> 1, state |-> "clean"]

(* binit(): the list starts with the last buffer.                          *)
Init ==
  /\ lru = [i \in Bufs |-> NBUF + 1 - i]
  /\ buf = [b \in Bufs |-> [blockno |-> NoBlock, valid |-> FALSE, refcnt |-> 0,
                            data |-> Zero, lock |-> NoAccess]]
  /\ media = [n \in Blocks |-> Zero]
  /\ logged = {}
  /\ proc = [p \in Accesses |-> Idle]

At(p, pc) == proc[p].pc = pc
Goto(p, pc) == proc' = [proc EXCEPT ![p].pc = pc]
Buf(p) == buf[proc[p].b]

(* panic() never returns, and bget() calls it with bcache.lock, which      *)
(* nobody can take from then on.                                           *)
Running == \A p \in Accesses : ~At(p, "panic")

-----------------------------------------------------------------------------
Cached(n) == {b \in Bufs : buf[b].blockno = n}

(* Mutant: a buffer is recycled only if it holds nothing.                  *)
Unused_Mutant == {b \in Bufs : buf[b].refcnt = 0 /\ ~buf[b].valid}
Unused == {b \in Bufs : buf[b].refcnt = 0}

(* Mutant: b->valid is not cleared.                                        *)
Recycled_Mutant(b, n) == [buf[b] EXCEPT !.blockno = n, !.refcnt = 1]
Recycled(b, n) == [buf[b] EXCEPT !.blockno = n, !.valid = FALSE, !.refcnt = 1]

(* The least recently used buffer of S.                                    *)
Oldest(S) == lru[CHOOSE i \in Bufs : lru[i] \in S /\ \A j \in Bufs : lru[j] \in S => j <= i]

bget(p, n) ==
  /\ At(p, "idle") /\ Running
  /\ UNCHANGED <<lru, media, logged>>
  /\ IF Cached(n) # {}
       THEN LET b == CHOOSE c \in Cached(n) : TRUE
            IN /\ buf' = [buf EXCEPT ![b].refcnt = @ + 1]
               /\ proc' = [proc EXCEPT ![p] = [pc |-> "lock", b |-> b, state |-> "clean"]]
     ELSE IF Unused # {}
       THEN LET b == Oldest(Unused)
            IN /\ buf' = [buf EXCEPT ![b] = Recycled(b, n)]
               /\ proc' = [proc EXCEPT ![p] = [pc |-> "lock", b |-> b, state |-> "clean"]]
     ELSE Goto(p, "panic") /\ UNCHANGED buf

(* acquiresleep(), up to the test of b->valid in bread().                  *)
acquiresleep(p) ==
  /\ At(p, "lock")
  /\ IF Buf(p).lock # NoAccess
       THEN Goto(p, "asleep") /\ UNCHANGED buf
       ELSE /\ buf' = [buf EXCEPT ![proc[p].b].lock = p]
            /\ Goto(p, IF Buf(p).valid THEN "have" ELSE "read")
  /\ UNCHANGED <<lru, media, logged>>

(* virtio_disk_rw(b, 0) moves the data at some point before it returns     *)
(* (Virtio), and bread() sets b->valid.                                    *)
bread(p) ==
  /\ At(p, "read")
  /\ buf' = [buf EXCEPT ![proc[p].b] = [@ EXCEPT !.data = media[Buf(p).blockno],
                                                !.valid = TRUE]]
  /\ Goto(p, "have")
  /\ UNCHANGED <<lru, media, logged>>

modify(p, v) ==
  /\ At(p, "have")
  /\ buf' = [buf EXCEPT ![proc[p].b].data = v]
  /\ proc' = [proc EXCEPT ![p].state = "dirty"]
  /\ UNCHANGED <<lru, media, logged>>

(* bwrite(): the call, and the moment the device has the data.             *)
bwrite(p) ==
  /\ At(p, "have") /\ proc[p].state # "written"
  /\ Goto(p, "write")
  /\ UNCHANGED <<lru, buf, media, logged>>

bwrite_done(p) ==
  /\ At(p, "write")
  /\ media' = [media EXCEPT ![Buf(p).blockno] = Buf(p).data]
  /\ proc' = [proc EXCEPT ![p] = [@ EXCEPT !.pc = "have", !.state = "written"]]
  /\ UNCHANGED <<lru, buf, logged>>

(* Mutant: log_write() pins the buffer each time.                          *)
Pinned_Mutant(n, refcnt) == refcnt + 1
Pinned(n, refcnt) == IF n \in logged THEN refcnt ELSE refcnt + 1

(* log_write() pins a block once; begin_op() bounds the blocks logged.     *)
bpin(p) ==
  LET n == Buf(p).blockno
  IN /\ At(p, "have") /\ proc[p].state = "dirty" /\ Running
     /\ n \in logged \/ Cardinality(logged) < MaxPins
     /\ logged' = logged \cup {n}
     /\ buf' = [buf EXCEPT ![proc[p].b].refcnt = Pinned(n, @)]
     /\ proc' = [proc EXCEPT ![p].state = "clean"]
     /\ UNCHANGED <<lru, media>>

(* bunpin() of install_trans(), after bwrite().                            *)
bunpin(p) ==
  /\ At(p, "have") /\ proc[p].state = "written" /\ Buf(p).blockno \in logged /\ Running
  /\ logged' = logged \ {Buf(p).blockno}
  /\ buf' = [buf EXCEPT ![proc[p].b].refcnt = @ - 1]
  /\ UNCHANGED <<lru, media, proc>>

(* Mutant: releasesleep() does not call wakeup().                          *)
Woken_Mutant(b) == {}
Woken(b) == {q \in Accesses : At(q, "asleep") /\ proc[q].b = b}

(* releasesleep() in brelse().                                             *)
releasesleep(p) ==
  LET b == proc[p].b
  IN /\ At(p, "have") /\ proc[p].state # "dirty"
     /\ buf' = [buf EXCEPT ![b].lock = NoAccess]
     /\ proc' = [q \in Accesses |-> IF q = p THEN [proc[q] EXCEPT !.pc = "released"]
                                    ELSE IF q \in Woken(b) THEN [proc[q] EXCEPT !.pc = "lock"]
                                    ELSE proc[q]]
     /\ UNCHANGED <<lru, media, logged>>

ToFront(b) ==
  LET i == CHOOSE j \in Bufs : lru[j] = b
  IN [j \in Bufs |-> IF j = 1 THEN b ELSE IF j <= i THEN lru[j - 1] ELSE lru[j]]

(* The rest of brelse().                                                   *)
brelse(p) ==
  LET b == proc[p].b
  IN /\ At(p, "released") /\ Running
     /\ buf' = [buf EXCEPT ![b].refcnt = @ - 1]
     /\ lru' = IF buf[b].refcnt = 1 THEN ToFront(b) ELSE lru
     /\ proc' = [proc EXCEPT ![p] = Idle]
     /\ UNCHANGED <<media, logged>>

(* kill() makes a process that sleeps runnable (proc.c:593-596).           *)
kill(p) ==
  /\ At(p, "asleep")
  /\ Goto(p, "lock")
  /\ UNCHANGED <<lru, buf, media, logged>>

Step(p) ==
  \/ acquiresleep(p) \/ bread(p) \/ bwrite(p) \/ bwrite_done(p) \/ bpin(p) \/ bunpin(p)
  \/ releasesleep(p) \/ brelse(p) \/ kill(p)
  \/ \E n \in Blocks : bget(p, n)
  \/ \E v \in Values : modify(p, v)

Next ==
  \/ \E p \in Accesses : Step(p)
  \/ ~Running /\ UNCHANGED vars

Spec == Init /\ [][Next]_vars

-----------------------------------------------------------------------------
(* For every block, the cache is a BlockStore (bio.c:1-16): the block has  *)
(* one value, whichever buffer holds it and however often it is recycled,  *)
(* and one user.                                                           *)
Valid(n) == {b \in Cached(n) : buf[b].valid}
ValueOf(n) == IF Valid(n) = {} THEN media[n] ELSE buf[CHOOSE b \in Valid(n) : TRUE].data
Users(n) == {p \in Accesses : proc[p].pc \in {"have", "write"} /\ Buf(p).blockno = n}
HolderOf(n) == IF Users(n) = {} THEN NoAccess ELSE CHOOSE p \in Users(n) : TRUE

Store(n) == INSTANCE BlockStore WITH
  Procs <- Accesses, NoProc <- NoAccess, value <- ValueOf(n), holder <- HolderOf(n)
CacheIsStore ==
  /\ \A n \in Blocks : Store(n)!Init
  /\ [][\A n \in Blocks : Store(n)!Next \/ UNCHANGED Store(n)!vars]_vars

(* The types hold, and refcnt counts the accesses that use or wait for     *)
(* the buffer and the pin of the log, so that a buffer with refcnt 0 may   *)
(* be recycled and no block gets a second buffer (bio.c:63-87).            *)
UsersOf(b) == {p \in Accesses : proc[p].pc \notin {"idle", "panic"} /\ proc[p].b = b}
PinsOf(b) == {n \in logged : buf[b].blockno = n}
RefcntsBalance ==
  /\ TypeOK
  /\ \A b \in Bufs : buf[b].refcnt = Cardinality(UsersOf(b)) + Cardinality(PinsOf(b))

(* An access asleep in acquiresleep() waits for a lock that is held.       *)
SleeperHasHolder == \A p \in Accesses : At(p, "asleep") => Buf(p).lock # NoAccess

(* No reference to a buffer is lost, and none is given up late: bget()     *)
(* panics only if the accesses that have not ended and the blocks in the   *)
(* log are enough to occupy every buffer (bio.c:75-88).                    *)
Busy == {p \in Accesses : proc[p].pc \notin {"idle", "panic"}}
PanicIsShortage == ~Running => Cardinality(Busy) + Cardinality(logged) >= NBUF
=============================================================================
