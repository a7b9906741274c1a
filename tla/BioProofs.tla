----------------------------- MODULE BioProofs -----------------------------
(***************************************************************************)
(* The buffer cache for any number of accesses, blocks and buffers.  The   *)
(* invariant ties b->refcnt to the accesses and pins it counts, the sleep  *)
(* lock of a buffer to the access that holds it, and says for which        *)
(* buffers the disk may be behind.                                         *)
(***************************************************************************)
EXTENDS Bio, FiniteSetTheorems, TLAPS

USE ZenonT(60), SMTT(30)

Active(p) == proc[p].pc \notin {"idle", "panic"}
Holding(p) == proc[p].pc \in {"read", "have", "write"}
Using(p) == proc[p].pc \in {"have", "write"}

Refs == \A b \in Bufs : buf[b].refcnt = Cardinality(UsersOf(b)) + Cardinality(PinsOf(b))

(* A block has at most one buffer, and one as long as it is in use.        *)
OneBuffer ==
  /\ \A b, c \in Bufs : buf[b].blockno # NoBlock /\ buf[b].blockno = buf[c].blockno => b = c
  /\ \A p \in Accesses : Active(p) => Buf(p).blockno # NoBlock
  /\ \A b \in Bufs : buf[b].valid => buf[b].blockno # NoBlock
  /\ \A n \in logged : \E b \in Bufs : buf[b].blockno = n

(* b->lock is held by the access between acquiresleep() and                *)
(* releasesleep().                                                         *)
LockInv == \A p \in Accesses, b \in Bufs : buf[b].lock = p <=> Holding(p) /\ proc[p].b = b

(* What an access knows of its buffer.                                     *)
User(p) ==
  /\ proc[p].pc \in {"lock", "asleep", "read"} => proc[p].state = "clean"
  /\ proc[p].pc = "write" => proc[p].state # "written"
  /\ proc[p].pc = "read" => ~Buf(p).valid
  /\ Using(p) => Buf(p).valid
  /\ Using(p) /\ proc[p].state = "written" => Buf(p).data = media[Buf(p).blockno]
UserInv == \A p \in Accesses : User(p)

(* The disk is behind a buffer only while the log has pinned its block or  *)
(* the access that changed it still holds it.                              *)
Dirty(b) == \E p \in Accesses : Using(p) /\ proc[p].b = b /\ proc[p].state = "dirty"
DiskInv == \A b \in Bufs :
  buf[b].valid => \/ buf[b].data = media[buf[b].blockno]
                  \/ buf[b].blockno \in logged
                  \/ Dirty(b)

IInv ==
  /\ TypeOK /\ Refs /\ OneBuffer /\ LockInv /\ UserInv /\ DiskInv /\ SleeperHasHolder

-----------------------------------------------------------------------------
(* Every set of natural numbers has a least element.                       *)
LEMMA LeastOf ==
  ASSUME NEW R, IsWellFoundedOn(R, Nat), \A x, y \in Nat : y < x => <<y, x>> \in R,
         NEW S, S \subseteq Nat, S # {}
  PROVE  \E x \in S : \A y \in S : x <= y
<1>1. PICK x \in S : \A y \in S : ~(<<y, x>> \in R)
  BY WFMin
<1>2. x \in Nat /\ \A y \in S : y \in Nat /\ ~(y < x)
  BY <1>1
<1>3. \A y \in S : x <= y
  BY <1>2, SMTT(30)
<1>4. QED
  BY <1>3

LEMMA Least ==
  ASSUME NEW S, S \subseteq Nat, S # {}
  PROVE  \E x \in S : \A y \in S : x <= y
<1>1. \A x, y \in Nat : y < x => <<y, x>> \in OpToRel(<, Nat)
  BY DEF OpToRel
<1>2. QED
  BY <1>1, NatLessThanWellFounded, LeastOf

(* A set of buffers on the list has a least recently used one.             *)
LEMMA OldestFacts ==
  ASSUME TypeOK, NEW S \in SUBSET Bufs, S # {}
  PROVE  Oldest(S) \in S
<1> DEFINE I == {i \in Bufs : lru[i] \in S}
           D == {NBUF - i : i \in I}
<1>1. D \subseteq Nat /\ D # {}
  <2>1. PICK b \in S : TRUE
    OBVIOUS
  <2>2. PICK i \in Bufs : lru[i] = b
    BY <2>1 DEF TypeOK
  <2>3. NBUF - i \in D
    BY <2>1, <2>2
  <2>4. \A k \in I : NBUF - k \in Nat
    BY BioAssumption, SMTT(30) DEF Bufs
  <2>5. QED
    BY <2>3, <2>4
<1>2. PICK x \in D : \A y \in D : x <= y
  BY <1>1, Least
<1>3. PICK i \in I : x = NBUF - i
  BY <1>2
<1>4. \A j \in I : NBUF - j \in D
  OBVIOUS
<1>5. \A j \in I : j <= i
  <2> SUFFICES ASSUME NEW j \in I PROVE j <= i
    OBVIOUS
  <2>1. x <= NBUF - j
    BY <1>2, <1>4
  <2>2. QED
    BY <1>3, <2>1, BioAssumption, SMTT(30) DEF Bufs
<1>6. \E k \in Bufs : lru[k] \in S /\ \A j \in Bufs : lru[j] \in S => j <= k
  BY <1>5
<1>7. QED
  BY <1>6 DEF Oldest

(* What the counts of a buffer add up to.                                  *)
LEMMA CountFacts ==
  ASSUME NEW b \in Bufs
  PROVE  /\ IsFiniteSet(UsersOf(b)) /\ Cardinality(UsersOf(b)) \in 0 .. Cardinality(Accesses)
         /\ IsFiniteSet(PinsOf(b)) /\ Cardinality(PinsOf(b)) = IF buf[b].blockno \in logged THEN 1 ELSE 0
         /\ Cardinality(Accesses) \in Nat
<1>1. IsFiniteSet(UsersOf(b)) /\ Cardinality(UsersOf(b)) <= Cardinality(Accesses)
  BY BioAssumption, FS_Subset DEF UsersOf
<1>2. Cardinality(UsersOf(b)) \in Nat /\ Cardinality(Accesses) \in Nat
  BY <1>1, BioAssumption, FS_CardinalityType
<1>3. PinsOf(b) = IF buf[b].blockno \in logged THEN {buf[b].blockno} ELSE {}
  BY DEF PinsOf
<1>4. IsFiniteSet(PinsOf(b)) /\ Cardinality(PinsOf(b)) = IF buf[b].blockno \in logged THEN 1 ELSE 0
  BY <1>3, FS_EmptySet, FS_Singleton
<1>5. QED
  BY <1>1, <1>2, <1>4, SMTT(30)

(* Steps that leave the references of every buffer alone.                  *)
LEMMA RefsFrame ==
  ASSUME Refs, UNCHANGED logged,
         \A p \in Accesses : (Active(p)' <=> Active(p)) /\ (Active(p) => proc'[p].b = proc[p].b),
         \A b \in Bufs : buf'[b].refcnt = buf[b].refcnt /\ buf'[b].blockno = buf[b].blockno
  PROVE  Refs'
<1> SUFFICES ASSUME NEW b \in Bufs
             PROVE  buf'[b].refcnt = Cardinality(UsersOf(b)') + Cardinality(PinsOf(b)')
  BY DEF Refs
<1>1. UsersOf(b)' = UsersOf(b)
  BY DEF UsersOf, Active
<1>2. PinsOf(b)' = PinsOf(b)
  BY DEF PinsOf
<1>3. QED
  BY <1>1, <1>2 DEF Refs

(* A step of p: what it makes of its entry, and of one buffer.             *)
Moves(p, pc, b, st) ==
  /\ \A q \in Accesses \ {p} : proc'[q] = proc[q]
  /\ proc'[p].pc = pc /\ proc'[p].b = b /\ proc'[p].state = st

Changes(b, blockno, valid, refcnt, data, lock) ==
  /\ \A c \in Bufs \ {b} : buf'[c] = buf[c]
  /\ buf'[b].blockno = blockno /\ buf'[b].valid = valid /\ buf'[b].refcnt = refcnt
  /\ buf'[b].data = data /\ buf'[b].lock = lock

LEMMA AcquireSteps ==
  ASSUME TypeOK, NEW p \in Accesses, acquiresleep(p)
  PROVE  LET b == proc[p].b IN
         /\ UNCHANGED <<lru, media, logged>> /\ proc[p].pc = "lock" /\ b \in Bufs
         /\ \/ buf[b].lock # NoAccess /\ Moves(p, "asleep", b, proc[p].state) /\ UNCHANGED buf
            \/ /\ buf[b].lock = NoAccess
               /\ Moves(p, IF buf[b].valid THEN "have" ELSE "read", b, proc[p].state)
               /\ Changes(b, buf[b].blockno, buf[b].valid, buf[b].refcnt, buf[b].data, p)
  BY SMTT(30) DEF TypeOK, acquiresleep, At, Goto, Moves, Changes, Buf

LEMMA ReadSteps ==
  ASSUME TypeOK, NEW p \in Accesses, bread(p)
  PROVE  LET b == proc[p].b IN
         /\ UNCHANGED <<lru, media, logged>> /\ proc[p].pc = "read" /\ b \in Bufs
         /\ Moves(p, "have", b, proc[p].state)
         /\ Changes(b, buf[b].blockno, TRUE, buf[b].refcnt, media[buf[b].blockno], buf[b].lock)
  BY SMTT(30) DEF TypeOK, bread, At, Goto, Moves, Changes, Buf

LEMMA ModifySteps ==
  ASSUME TypeOK, NEW p \in Accesses, NEW v \in Values, modify(p, v)
  PROVE  LET b == proc[p].b IN
         /\ UNCHANGED <<lru, media, logged>> /\ proc[p].pc = "have" /\ b \in Bufs
         /\ Moves(p, "have", b, "dirty")
         /\ Changes(b, buf[b].blockno, buf[b].valid, buf[b].refcnt, v, buf[b].lock)
  BY SMTT(30) DEF TypeOK, modify, At, Goto, Moves, Changes, Buf

LEMMA WriteDoneSteps ==
  ASSUME TypeOK, NEW p \in Accesses, bwrite_done(p)
  PROVE  LET b == proc[p].b IN
         /\ UNCHANGED <<lru, buf, logged>> /\ proc[p].pc = "write" /\ b \in Bufs
         /\ Moves(p, "have", b, "written")
         /\ media' = [media EXCEPT ![buf[b].blockno] = buf[b].data]
  BY SMTT(30) DEF TypeOK, bwrite_done, At, Goto, Moves, Buf

LEMMA GetSteps ==
  ASSUME TypeOK, NEW p \in Accesses, NEW n \in Blocks, bget(p, n)
  PROVE  /\ UNCHANGED <<lru, media, logged>> /\ proc[p].pc = "idle"
         /\ \/ \E b \in Bufs :
                 /\ buf[b].blockno = n /\ Moves(p, "lock", b, "clean")
                 /\ Changes(b, n, buf[b].valid, buf[b].refcnt + 1, buf[b].data, buf[b].lock)
            \/ \E b \in Bufs :
                 /\ buf[b].refcnt = 0 /\ \A c \in Bufs : buf[c].blockno # n
                 /\ Moves(p, "lock", b, "clean")
                 /\ Changes(b, n, FALSE, 1, buf[b].data, buf[b].lock)
            \/ /\ \A b \in Bufs : buf[b].refcnt # 0
               /\ Moves(p, "panic", proc[p].b, proc[p].state) /\ UNCHANGED buf
<1>1. UNCHANGED <<lru, media, logged>> /\ proc[p].pc = "idle"
  BY DEF bget, At
<1>2. CASE Cached(n) # {}
  <2> DEFINE b == CHOOSE c \in Cached(n) : TRUE
  <2>1. b \in Bufs /\ buf[b].blockno = n
    BY <1>2 DEF Cached
  <2>2. /\ buf' = [buf EXCEPT ![b].refcnt = @ + 1]
        /\ proc' = [proc EXCEPT ![p] = [pc |-> "lock", b |-> b, state |-> "clean"]]
    BY <1>2 DEF bget
  <2> HIDE DEF b
  <2>3. Moves(p, "lock", b, "clean")
    BY <2>1, <2>2 DEF TypeOK, Moves
  <2>4. Changes(b, n, buf[b].valid, buf[b].refcnt + 1, buf[b].data, buf[b].lock)
    BY <2>1, <2>2, SMTT(30) DEF TypeOK, Changes
  <2>5. QED
    BY <1>1, <2>1, <2>3, <2>4
<1>3. CASE Cached(n) = {} /\ Unused # {}
  <2> DEFINE b == Oldest(Unused)
  <2>1. b \in Bufs /\ buf[b].refcnt = 0
    BY <1>3, OldestFacts DEF Unused
  <2>2. /\ buf' = [buf EXCEPT ![b] = Recycled(b, n)]
        /\ proc' = [proc EXCEPT ![p] = [pc |-> "lock", b |-> b, state |-> "clean"]]
    BY <1>3 DEF bget
  <2> HIDE DEF b
  <2>3. Moves(p, "lock", b, "clean")
    BY <2>1, <2>2 DEF TypeOK, Moves
  <2>4. Changes(b, n, FALSE, 1, buf[b].data, buf[b].lock)
    BY <2>1, <2>2, SMTT(30) DEF TypeOK, Changes, Recycled
  <2>5. \A c \in Bufs : buf[c].blockno # n
    BY <1>3 DEF Cached
  <2>6. QED
    BY <1>1, <2>1, <2>3, <2>4, <2>5
<1>4. CASE Cached(n) = {} /\ Unused = {}
  <2>1. \A b \in Bufs : buf[b].refcnt # 0
    BY <1>4 DEF Unused
  <2>2. Goto(p, "panic") /\ UNCHANGED buf
    BY <1>4 DEF bget
  <2>3. Moves(p, "panic", proc[p].b, proc[p].state)
    BY <2>2, SMTT(30) DEF Goto, TypeOK, Moves
  <2>4. QED
    BY <1>1, <2>1, <2>2, <2>3
<1>5. QED
  BY <1>2, <1>3, <1>4

LEMMA PinSteps ==
  ASSUME TypeOK, NEW p \in Accesses, bpin(p)
  PROVE  LET b == proc[p].b
             n == buf[b].blockno
         IN /\ UNCHANGED <<lru, media>> /\ proc[p].pc = "have" /\ b \in Bufs
            /\ proc[p].state = "dirty" /\ Moves(p, "have", b, "clean")
            /\ n \in logged \/ Cardinality(logged) < MaxPins
            /\ logged' = logged \cup {n}
            /\ Changes(b, n, buf[b].valid, IF n \in logged THEN buf[b].refcnt ELSE buf[b].refcnt + 1,
                       buf[b].data, buf[b].lock)
  BY SMTT(30) DEF TypeOK, bpin, At, Pinned, Moves, Changes, Buf

LEMMA UnpinSteps ==
  ASSUME TypeOK, NEW p \in Accesses, bunpin(p)
  PROVE  LET b == proc[p].b
             n == buf[b].blockno
         IN /\ UNCHANGED <<lru, media, proc>> /\ proc[p].pc = "have" /\ b \in Bufs
            /\ proc[p].state = "written" /\ n \in logged /\ logged' = logged \ {n}
            /\ Changes(b, n, buf[b].valid, buf[b].refcnt - 1, buf[b].data, buf[b].lock)
  BY SMTT(30) DEF TypeOK, bunpin, At, Changes, Buf

LEMMA ReleaseSteps ==
  ASSUME TypeOK, NEW p \in Accesses, releasesleep(p)
  PROVE  LET b == proc[p].b
         IN /\ UNCHANGED <<lru, media, logged>> /\ proc[p].pc = "have" /\ b \in Bufs
            /\ proc[p].state # "dirty" /\ proc'[p].pc = "released"
            /\ \A q \in Accesses : proc'[q].b = proc[q].b /\ proc'[q].state = proc[q].state
            /\ \A q \in Accesses \ {p} :
                 proc'[q].pc = IF proc[q].pc = "asleep" /\ proc[q].b = b THEN "lock" ELSE proc[q].pc
            /\ Changes(b, buf[b].blockno, buf[b].valid, buf[b].refcnt, buf[b].data, NoAccess)
  BY SMTT(30) DEF TypeOK, releasesleep, At, Woken, Changes

LEMMA RelseSteps ==
  ASSUME TypeOK, NEW p \in Accesses, brelse(p)
  PROVE  LET b == proc[p].b
         IN /\ UNCHANGED <<media, logged>> /\ proc[p].pc = "released" /\ b \in Bufs
            /\ Moves(p, "idle", 1, "clean") /\ lru' \in {lru, ToFront(b)}
            /\ Changes(b, buf[b].blockno, buf[b].valid, buf[b].refcnt - 1, buf[b].data, buf[b].lock)
  BY SMTT(30) DEF TypeOK, brelse, At, Idle, Moves, Changes

(* bwrite() before the device has the data, and kill().                    *)
LEMMA GotoSteps ==
  ASSUME TypeOK, NEW p \in Accesses, bwrite(p) \/ kill(p)
  PROVE  /\ UNCHANGED <<lru, buf, media, logged>>
         /\ \/ proc[p].pc = "have" /\ proc[p].state # "written"
               /\ Moves(p, "write", proc[p].b, proc[p].state)
            \/ proc[p].pc = "asleep" /\ Moves(p, "lock", proc[p].b, proc[p].state)
  BY SMTT(30) DEF TypeOK, bwrite, kill, At, Goto, Moves

-----------------------------------------------------------------------------
(* The types but for the bound of refcnt, which the balance gives.         *)
BufType == [blockno : Blocks \cup {NoBlock}, valid : BOOLEAN, refcnt : Int, data : Values,
            lock : Accesses \cup {NoAccess}]
ProcType == [pc : {"idle", "lock", "asleep", "read", "have", "write", "released", "panic"},
             b : Bufs, state : {"clean", "dirty", "written"}]
Shape ==
  /\ lru \in [Bufs -> Bufs] /\ \A b \in Bufs : \E i \in Bufs : lru[i] = b
  /\ buf \in [Bufs -> BufType]
  /\ media \in [Blocks -> Values] /\ logged \subseteq Blocks /\ proc \in [Accesses -> ProcType]

LEMMA ShapeOfType == TypeOK => Shape
<1>1. \A x \in 0 .. Cardinality(Accesses) + 1 : x \in Int
  BY BioAssumption, FS_CardinalityType, SMTT(30)
<1>2. QED
  BY <1>1 DEF TypeOK, Shape, BufType, ProcType

LEMMA TypeOfShape ==
  ASSUME Shape, Refs PROVE TypeOK
<1>1. \A b \in Bufs : buf[b].refcnt \in 0 .. Cardinality(Accesses) + 1
  <2> SUFFICES ASSUME NEW b \in Bufs PROVE buf[b].refcnt \in 0 .. Cardinality(Accesses) + 1
    OBVIOUS
  <2>1. buf[b].refcnt = Cardinality(UsersOf(b)) + Cardinality(PinsOf(b))
    BY DEF Refs
  <2>2. QED
    BY <2>1, CountFacts, SMTT(30)
<1>2. buf \in [Bufs -> [blockno : Blocks \cup {NoBlock}, valid : BOOLEAN,
                        refcnt : 0 .. Cardinality(Accesses) + 1, data : Values,
                        lock : Accesses \cup {NoAccess}]]
  BY <1>1, SMTT(60) DEF Shape, BufType
<1>3. QED
  BY <1>2 DEF TypeOK, Shape, ProcType

(* The list stays a permutation of the buffers.                            *)
LEMMA ToFrontFacts ==
  ASSUME Shape, NEW b \in Bufs
  PROVE  /\ ToFront(b) \in [Bufs -> Bufs]
         /\ \A c \in Bufs : \E i \in Bufs : ToFront(b)[i] = c
<1> DEFINE i == CHOOSE j \in Bufs : lru[j] = b
<1>1. i \in Bufs /\ lru[i] = b
  BY DEF Shape
<1>2. ToFront(b) = [j \in Bufs |-> IF j = 1 THEN b ELSE IF j <= i THEN lru[j - 1] ELSE lru[j]]
  BY DEF ToFront
<1> HIDE DEF i
<1>3. ToFront(b) \in [Bufs -> Bufs]
  <2>1. \A j \in Bufs : j # 1 => j - 1 \in Bufs
    BY BioAssumption, SMTT(30) DEF Bufs
  <2>2. \A j \in Bufs : (IF j = 1 THEN b ELSE IF j <= i THEN lru[j - 1] ELSE lru[j]) \in Bufs
    BY <2>1 DEF Shape
  <2>3. QED
    BY <1>2, <2>2
<1>4. ASSUME NEW c \in Bufs PROVE \E j \in Bufs : ToFront(b)[j] = c
  <2>1. CASE c = b
    BY <1>2, <2>1, BioAssumption, SMTT(30) DEF Bufs
  <2>2. CASE c # b
    <3>1. PICK k \in Bufs : lru[k] = c
      BY DEF Shape
    <3>2. CASE k < i
      <4>1. k + 1 \in Bufs /\ k + 1 # 1 /\ k + 1 <= i /\ (k + 1) - 1 = k
        BY <1>1, <3>2, BioAssumption, SMTT(30) DEF Bufs
      <4>2. QED
        BY <1>2, <3>1, <4>1
    <3>3. CASE k > i
      BY <1>1, <1>2, <3>1, <3>3, BioAssumption, SMTT(30) DEF Bufs
    <3>4. QED
      BY <1>1, <2>2, <3>1, <3>2, <3>3, BioAssumption, SMTT(30) DEF Bufs
  <2>3. QED
    BY <2>1, <2>2
<1>5. QED
  BY <1>3, <1>4

-----------------------------------------------------------------------------
(* Every action keeps the invariant.                                       *)
LEMMA TypeFollows == Shape /\ Refs => TypeOK
  BY TypeOfShape

LEMMA Combine ==
  ASSUME Shape', Refs', OneBuffer', LockInv', UserInv', DiskInv', SleeperHasHolder'
  PROVE  IInv'
<1>1. TypeOK'
  BY TypeFollows, PTL
<1>2. QED
  BY <1>1 DEF IInv

LEMMA EntryFacts ==
  ASSUME TypeOK
  PROVE  /\ \A q \in Accesses : proc[q].b \in Bufs
         /\ \A b \in Bufs : buf[b].lock \in Accesses \cup {NoAccess} /\ buf[b].refcnt \in Nat
                            /\ buf[b].blockno \in Blocks \cup {NoBlock}
<1>1. \A x \in 0 .. Cardinality(Accesses) + 1 : x \in Nat
  BY BioAssumption, FS_CardinalityType, SMTT(30)
<1>2. QED
  BY <1>1 DEF TypeOK

(* Assignments to the fields of an entry.                                  *)
LEMMA BufFields ==
  ASSUME NEW r \in BufType
  PROVE  /\ \A q \in Accesses \cup {NoAccess} : [r EXCEPT !.lock = q] \in BufType
         /\ \A v \in Values : [r EXCEPT !.data = v] \in BufType
         /\ \A v \in Values : [r EXCEPT !.data = v, !.valid = TRUE] \in BufType
<1>1. ASSUME NEW q \in Accesses \cup {NoAccess} PROVE [r EXCEPT !.lock = q] \in BufType
  BY DEF BufType
<1>2. ASSUME NEW v \in Values PROVE [r EXCEPT !.data = v] \in BufType
  BY DEF BufType
<1>3. ASSUME NEW v \in Values PROVE [r EXCEPT !.data = v, !.valid = TRUE] \in BufType
  BY DEF BufType
<1>4. QED
  BY <1>1, <1>2, <1>3

LEMMA ProcFields ==
  ASSUME NEW r \in ProcType
  PROVE  [r EXCEPT !.pc = "have", !.state = "written"] \in ProcType
  BY DEF ProcType

LEMMA BufUpdate ==
  ASSUME TypeOK, NEW b \in Bufs, NEW r \in BufType, buf' = [buf EXCEPT ![b] = r]
  PROVE  buf' \in [Bufs -> BufType]
<1>1. buf \in [Bufs -> BufType]
  BY ShapeOfType DEF Shape
<1>2. QED
  BY <1>1

LEMMA BufEntry ==
  ASSUME TypeOK, NEW b \in Bufs
  PROVE  buf[b] \in BufType
<1>1. buf \in [Bufs -> BufType]
  BY ShapeOfType DEF Shape
<1>2. QED
  BY <1>1

(* Steps that keep the blocks of the buffers.                              *)
LEMMA OneBufferFrame ==
  ASSUME OneBuffer, logged' \subseteq logged, \A q \in Accesses : proc[q].b \in Bufs,
         \A q \in Accesses : Active(q)' => Active(q) /\ proc'[q].b = proc[q].b,
         \A c \in Bufs : /\ buf'[c].blockno = buf[c].blockno
                         /\ buf'[c].valid => buf[c].valid \/ buf[c].blockno # NoBlock
  PROVE  OneBuffer'
<1>1. \A b, c \in Bufs : buf'[b].blockno # NoBlock /\ buf'[b].blockno = buf'[c].blockno => b = c
  BY SMTT(30) DEF OneBuffer
<1>2. \A q \in Accesses : Active(q)' => Buf(q)'.blockno # NoBlock
  BY DEF OneBuffer, Buf
<1>3. \A b \in Bufs : buf'[b].valid => buf'[b].blockno # NoBlock
  BY DEF OneBuffer
<1>4. \A n \in logged' : \E b \in Bufs : buf'[b].blockno = n
  BY DEF OneBuffer
<1>5. QED
  BY <1>1, <1>2, <1>3, <1>4 DEF OneBuffer

LEMMA AcquireInv ==
  ASSUME IInv, NEW p \in Accesses, acquiresleep(p) PROVE IInv'
<1> DEFINE b == proc[p].b
<1> USE DEF IInv
<1>e. /\ \A q \in Accesses : proc[q].b \in Bufs
      /\ \A c \in Bufs : buf[c].lock \in Accesses \cup {NoAccess}
  BY EntryFacts
<1>0. UNCHANGED <<lru, media, logged>> /\ proc[p].pc = "lock" /\ b \in Bufs
  BY AcquireSteps
<1>s. Shape'
  <2>1. proc' \in [Accesses -> ProcType]
    BY ShapeOfType, SMTT(30) DEF Shape, ProcType, acquiresleep, Goto
  <2>2. buf' \in [Bufs -> BufType]
    <3>1. CASE UNCHANGED buf
      BY <3>1, ShapeOfType DEF Shape
    <3>2. CASE buf' = [buf EXCEPT ![b] = [buf[b] EXCEPT !.lock = p]]
      BY <1>0, <3>2, BufEntry, BufFields, BufUpdate
    <3>3. QED
      BY <3>1, <3>2 DEF acquiresleep
  <2>3. QED
    BY <1>0, <2>1, <2>2, ShapeOfType DEF Shape
<1> HIDE DEF b
<1>1. CASE buf[b].lock # NoAccess /\ Moves(p, "asleep", b, proc[p].state) /\ UNCHANGED buf
  <2>1. Refs'
    BY <1>0, <1>1, RefsFrame DEF Moves, Active, b
  <2>2. OneBuffer'
    <3>1. \A q \in Accesses : Active(q)' => Active(q) /\ proc'[q].b = proc[q].b
      BY <1>0, <1>1 DEF Moves, Active, b
    <3>2. QED
      BY <1>0, <1>1, <1>e, <3>1, OneBufferFrame
  <2>3. LockInv'
    BY <1>0, <1>1, SMTT(30) DEF LockInv, Moves, Holding, b
  <2>4. UserInv'
    BY <1>0, <1>1, SMTT(30) DEF UserInv, User, Moves, Using, Buf, b
  <2>5. DiskInv'
    BY <1>0, <1>1, SMTT(30) DEF DiskInv, Dirty, Moves, Using, b
  <2>6. SleeperHasHolder'
    BY <1>0, <1>1 DEF SleeperHasHolder, Moves, At, Buf, b
  <2>7. QED
    BY <1>s, <2>1, <2>2, <2>3, <2>4, <2>5, <2>6, Combine
<1>2. CASE /\ buf[b].lock = NoAccess
           /\ Moves(p, IF buf[b].valid THEN "have" ELSE "read", b, proc[p].state)
           /\ Changes(b, buf[b].blockno, buf[b].valid, buf[b].refcnt, buf[b].data, p)
  <2>1. Refs'
    BY <1>0, <1>2, RefsFrame DEF Moves, Changes, Active, b
  <2>2. OneBuffer'
    <3>1. \A q \in Accesses : Active(q)' => Active(q) /\ proc'[q].b = proc[q].b
      BY <1>0, <1>2 DEF Moves, Active, b
    <3>2. \A c \in Bufs : buf'[c].blockno = buf[c].blockno /\ buf'[c].valid = buf[c].valid
      BY <1>2 DEF Changes
    <3>3. QED
      BY <1>0, <1>e, <3>1, <3>2, OneBufferFrame
  <2>3. LockInv'
    BY <1>0, <1>2, BioAssumption, SMTT(30) DEF LockInv, Moves, Changes, Holding, b
  <2>4. UserInv'
    <3>1. \A c \in Bufs : /\ buf'[c].valid = buf[c].valid /\ buf'[c].data = buf[c].data
                          /\ buf'[c].blockno = buf[c].blockno
      BY <1>2 DEF Changes
    <3>2. ASSUME NEW q \in Accesses \ {p} PROVE User(q)'
      <4>1. proc'[q] = proc[q] /\ User(q)
        BY <1>2 DEF UserInv, Moves
      <4>2. QED
        BY <1>0, <1>e, <3>1, <4>1 DEF User, Using, Buf
    <3>3. User(p)'
      <4>1. /\ proc'[p].pc = (IF buf[b].valid THEN "have" ELSE "read")
            /\ proc'[p].b = b /\ proc'[p].state = "clean"
        BY <1>0, <1>2 DEF UserInv, User, Moves
      <4>2. QED
        BY <1>0, <3>1, <4>1 DEF User, Using, Buf
    <3>4. QED
      BY <3>2, <3>3 DEF UserInv
  <2>5. DiskInv'
    BY <1>0, <1>2, SMTT(30) DEF DiskInv, Dirty, Moves, Changes, Using, b
  <2>6. SleeperHasHolder'
    BY <1>0, <1>2, <1>e, BioAssumption, SMTT(30) DEF SleeperHasHolder, Moves, Changes, At, Buf, b
  <2>7. QED
    BY <1>s, <2>1, <2>2, <2>3, <2>4, <2>5, <2>6, Combine
<1>3. QED
  BY <1>1, <1>2, AcquireSteps DEF b

LEMMA OnlyHolder ==
  ASSUME TypeOK, LockInv, NEW p \in Accesses, NEW q \in Accesses, Holding(p), Holding(q),
         proc[p].b = proc[q].b
  PROVE  p = q
  BY EntryFacts, SMTT(30) DEF LockInv

LEMMA ReadInv ==
  ASSUME IInv, NEW p \in Accesses, bread(p) PROVE IInv'
<1> DEFINE b == proc[p].b
<1> USE DEF IInv
<1>e. \A q \in Accesses : proc[q].b \in Bufs
  BY EntryFacts
<1>0. /\ UNCHANGED <<lru, media, logged>> /\ proc[p].pc = "read" /\ b \in Bufs
      /\ Moves(p, "have", b, proc[p].state)
      /\ Changes(b, buf[b].blockno, TRUE, buf[b].refcnt, media[buf[b].blockno], buf[b].lock)
  BY ReadSteps
<1>h. \A q \in Accesses \ {p} : proc[q].pc \in {"read", "have", "write"} => proc[q].b # b
  BY <1>0, OnlyHolder DEF Holding
<1>n. buf[b].blockno \in Blocks
  BY <1>0, EntryFacts DEF OneBuffer, Active, Buf
<1>s. Shape'
  <2>1. proc' \in [Accesses -> ProcType]
    BY ShapeOfType, SMTT(30) DEF Shape, ProcType, bread, Goto
  <2>2. buf' \in [Bufs -> BufType]
    <3> DEFINE r == [buf[b] EXCEPT !.data = media[buf[b].blockno], !.valid = TRUE]
    <3>1. buf' = [buf EXCEPT ![b] = r]
      BY DEF bread, Buf
    <3>2. media[buf[b].blockno] \in Values /\ buf \in [Bufs -> BufType]
      BY <1>n, ShapeOfType DEF Shape
    <3>3. r \in BufType
      BY <1>0, <3>2, BufEntry, BufFields
    <3> HIDE DEF r
    <3>4. QED
      BY <1>0, <3>1, <3>3, BufUpdate
  <2>3. QED
    BY <1>0, <2>1, <2>2, ShapeOfType DEF Shape
<1> HIDE DEF b
<1>1. Refs'
  BY <1>0, RefsFrame DEF Moves, Changes, Active, b
<1>2. OneBuffer'
  <2>1. \A q \in Accesses : Active(q)' => Active(q) /\ proc'[q].b = proc[q].b
    BY <1>0 DEF Moves, Active, b
  <2>2. \A c \in Bufs : /\ buf'[c].blockno = buf[c].blockno
                        /\ buf'[c].valid => buf[c].valid \/ buf[c].blockno # NoBlock
    BY <1>0, <1>n, BioAssumption DEF Changes
  <2>3. QED
    BY <1>0, <1>e, <2>1, <2>2, OneBufferFrame
<1>3. LockInv'
  BY <1>0, SMTT(30) DEF LockInv, Moves, Changes, Holding, b
<1>4. UserInv'
  <2>1. ASSUME NEW q \in Accesses \ {p} PROVE User(q)'
    <3>1. proc'[q] = proc[q] /\ User(q) /\ proc[q].b \in Bufs
      BY <1>0, <1>e DEF UserInv, Moves
    <3>2. proc[q].pc \in {"read", "have", "write"} => Buf(q)' = Buf(q)
      BY <1>0, <1>h, <3>1 DEF Changes, Buf
    <3>3. QED
      BY <1>0, <3>1, <3>2 DEF User, Using
  <2>2. User(p)'
    <3>1. /\ proc'[p].pc = "have" /\ proc'[p].b = b /\ proc'[p].state = "clean"
          /\ buf'[b].valid
      BY <1>0 DEF UserInv, User, Moves, Changes
    <3>2. QED
      BY <3>1 DEF User, Using, Buf
  <2>3. QED
    BY <2>1, <2>2 DEF UserInv
<1>5. DiskInv'
  BY <1>0, SMTT(30) DEF DiskInv, Dirty, Moves, Changes, Using, b
<1>6. SleeperHasHolder'
  BY <1>0, <1>e, SMTT(30) DEF SleeperHasHolder, Moves, Changes, At, Buf, b
<1>7. QED
  BY <1>s, <1>1, <1>2, <1>3, <1>4, <1>5, <1>6, Combine

LEMMA ModifyInv ==
  ASSUME IInv, NEW p \in Accesses, NEW v \in Values, modify(p, v) PROVE IInv'
<1> DEFINE b == proc[p].b
<1> USE DEF IInv
<1>e. \A q \in Accesses : proc[q].b \in Bufs
  BY EntryFacts
<1>0. /\ UNCHANGED <<lru, media, logged>> /\ proc[p].pc = "have" /\ b \in Bufs
      /\ Moves(p, "have", b, "dirty")
      /\ Changes(b, buf[b].blockno, buf[b].valid, buf[b].refcnt, v, buf[b].lock)
  BY ModifySteps
<1>h. \A q \in Accesses \ {p} : proc[q].pc \in {"read", "have", "write"} => proc[q].b # b
  BY <1>0, OnlyHolder DEF Holding
<1>s. Shape'
  <2>1. proc' \in [Accesses -> ProcType]
    BY ShapeOfType, SMTT(30) DEF Shape, ProcType, modify
  <2>2. buf' \in [Bufs -> BufType]
    <3>1. buf' = [buf EXCEPT ![b] = [buf[b] EXCEPT !.data = v]]
      BY DEF modify
    <3>2. QED
      BY <1>0, <3>1, BufEntry, BufFields, BufUpdate
  <2>3. QED
    BY <1>0, <2>1, <2>2, ShapeOfType DEF Shape
<1> HIDE DEF b
<1>1. Refs'
  BY <1>0, RefsFrame DEF Moves, Changes, Active, b
<1>2. OneBuffer'
  <2>1. \A q \in Accesses : Active(q)' => Active(q) /\ proc'[q].b = proc[q].b
    BY <1>0 DEF Moves, Active, b
  <2>2. \A c \in Bufs : /\ buf'[c].blockno = buf[c].blockno
                        /\ buf'[c].valid => buf[c].valid \/ buf[c].blockno # NoBlock
    BY <1>0 DEF Changes
  <2>3. QED
    BY <1>0, <1>e, <2>1, <2>2, OneBufferFrame
<1>3. LockInv'
  BY <1>0, SMTT(30) DEF LockInv, Moves, Changes, Holding, b
<1>4. UserInv'
  <2>1. ASSUME NEW q \in Accesses \ {p} PROVE User(q)'
    <3>1. proc'[q] = proc[q] /\ User(q) /\ proc[q].b \in Bufs
      BY <1>0, <1>e DEF UserInv, Moves
    <3>2. proc[q].pc \in {"read", "have", "write"} => Buf(q)' = Buf(q)
      BY <1>0, <1>h, <3>1 DEF Changes, Buf
    <3>3. QED
      BY <1>0, <3>1, <3>2 DEF User, Using
  <2>2. User(p)'
    <3>1. User(p) /\ Buf(p).valid
      BY <1>0 DEF UserInv, User, Using
    <3>2. proc'[p].pc = "have" /\ proc'[p].b = b /\ proc'[p].state = "dirty"
      BY <1>0 DEF Moves
    <3>3. buf'[b].valid
      BY <1>0, <3>1 DEF Changes, Buf, b
    <3>4. QED
      BY <3>2, <3>3 DEF User, Using, Buf
  <2>3. QED
    BY <2>1, <2>2 DEF UserInv
<1>5. DiskInv'
  <2>1. ASSUME NEW c \in Bufs, c = b PROVE Dirty(c)'
    <3>1. Using(p)' /\ proc'[p].b = c /\ proc'[p].state = "dirty"
      BY <1>0, <2>1 DEF Moves, Using
    <3>2. QED
      BY <3>1 DEF Dirty
  <2>2. ASSUME NEW c \in Bufs \ {b}, Dirty(c) PROVE Dirty(c)'
    <3>1. PICK q \in Accesses : Using(q) /\ proc[q].b = c /\ proc[q].state = "dirty"
      BY <2>2 DEF Dirty
    <3>2. q # p
      BY <3>1 DEF b
    <3>3. proc'[q] = proc[q]
      BY <1>0, <3>2 DEF Moves
    <3>4. QED
      BY <3>1, <3>3 DEF Dirty, Using
  <2>3. \A c \in Bufs \ {b} : buf'[c] = buf[c]
    BY <1>0 DEF Changes
  <2>4. ASSUME NEW c \in Bufs \ {b}, buf'[c].valid
        PROVE  \/ buf'[c].data = media'[buf'[c].blockno]
               \/ buf'[c].blockno \in logged'
               \/ Dirty(c)'
    BY <1>0, <2>2, <2>3, <2>4 DEF DiskInv
  <2>5. QED
    BY <2>1, <2>4 DEF DiskInv
<1>6. SleeperHasHolder'
  BY <1>0, <1>e, SMTT(30) DEF SleeperHasHolder, Moves, Changes, At, Buf, b
<1>7. QED
  BY <1>s, <1>1, <1>2, <1>3, <1>4, <1>5, <1>6, Combine

LEMMA WriteDoneInv ==
  ASSUME IInv, NEW p \in Accesses, bwrite_done(p) PROVE IInv'
<1> DEFINE b == proc[p].b
<1> USE DEF IInv
<1>e. \A q \in Accesses : proc[q].b \in Bufs
  BY EntryFacts
<1>0. /\ UNCHANGED <<lru, buf, logged>> /\ proc[p].pc = "write" /\ b \in Bufs
      /\ Moves(p, "have", b, "written")
      /\ media' = [media EXCEPT ![buf[b].blockno] = buf[b].data]
  BY WriteDoneSteps
<1>h. \A q \in Accesses \ {p} : proc[q].pc \in {"read", "have", "write"} => proc[q].b # b
  BY <1>0, OnlyHolder DEF Holding
<1>n. buf[b].blockno \in Blocks
  BY <1>0, EntryFacts DEF OneBuffer, Active, Buf
(* No other buffer in use, or valid, holds this block.                     *)
<1>m. /\ media'[buf[b].blockno] = buf[b].data
      /\ \A c \in Bufs \ {b} : buf[c].valid => media'[buf[c].blockno] = media[buf[c].blockno]
  <2>1. media \in [Blocks -> Values]
    BY DEF TypeOK
  <2>2. \A c \in Bufs \ {b} : buf[c].valid => buf[c].blockno \in Blocks /\ buf[c].blockno # buf[b].blockno
    BY <1>0, <1>n, EntryFacts DEF OneBuffer
  <2>3. QED
    BY <1>0, <1>n, <2>1, <2>2
<1>s. Shape'
  <2>1. proc' \in [Accesses -> ProcType]
    <3>1. proc \in [Accesses -> ProcType]
      BY ShapeOfType DEF Shape
    <3>2. proc[p] \in ProcType
      BY <3>1
    <3>3. [proc[p] EXCEPT !.pc = "have", !.state = "written"] \in ProcType
      BY <3>2, ProcFields
    <3>4. proc' = [proc EXCEPT ![p] = [proc[p] EXCEPT !.pc = "have", !.state = "written"]]
      BY DEF bwrite_done
    <3>5. QED
      BY <3>1, <3>3, <3>4
  <2>2. media' \in [Blocks -> Values]
    BY <1>0, <1>n DEF TypeOK
  <2>3. QED
    BY <1>0, <2>1, <2>2, ShapeOfType DEF Shape
<1> HIDE DEF b
<1>1. Refs'
  BY <1>0, RefsFrame DEF Moves, Active, b
<1>2. OneBuffer'
  BY <1>0, <1>e DEF OneBuffer, Moves, Active, Buf, b
<1>3. LockInv'
  BY <1>0, SMTT(30) DEF LockInv, Moves, Holding, b
<1>4. UserInv'
  <2>1. ASSUME NEW q \in Accesses \ {p} PROVE User(q)'
    <3>1. proc'[q] = proc[q] /\ User(q) /\ proc[q].b \in Bufs /\ Buf(q)' = Buf(q)
      BY <1>0, <1>e DEF UserInv, Moves, Buf
    <3>2. Using(q) => media'[Buf(q).blockno] = media[Buf(q).blockno]
      BY <1>h, <1>m, <3>1 DEF User, Using, Buf
    <3>3. QED
      BY <3>1, <3>2 DEF User, Using
  <2>2. User(p)'
    <3>1. Buf(p).valid /\ Buf(p) = buf[b]
      BY <1>0 DEF UserInv, User, Using, Buf, b
    <3>2. proc'[p].pc = "have" /\ proc'[p].state = "written" /\ Buf(p)' = buf[b]
      BY <1>0 DEF Moves, Buf
    <3>3. QED
      BY <1>m, <3>1, <3>2 DEF User, Using
  <2>3. QED
    BY <2>1, <2>2 DEF UserInv
<1>5. DiskInv'
  BY <1>0, <1>h, <1>m, SMTT(30) DEF DiskInv, Dirty, Moves, Using, b
<1>6. SleeperHasHolder'
  BY <1>0, <1>e DEF SleeperHasHolder, Moves, At, Buf, b
<1>7. QED
  BY <1>s, <1>1, <1>2, <1>3, <1>4, <1>5, <1>6, Combine

LEMMA GotoInv ==
  ASSUME IInv, NEW p \in Accesses, bwrite(p) \/ kill(p) PROVE IInv'
<1> USE DEF IInv
<1>e. \A q \in Accesses : proc[q].b \in Bufs
  BY EntryFacts
<1>0. /\ UNCHANGED <<lru, buf, media, logged>>
      /\ \/ proc[p].pc = "have" /\ proc[p].state # "written"
            /\ Moves(p, "write", proc[p].b, proc[p].state)
         \/ proc[p].pc = "asleep" /\ Moves(p, "lock", proc[p].b, proc[p].state)
  BY GotoSteps
<1>s. Shape'
  <2>1. proc' \in [Accesses -> ProcType]
    BY ShapeOfType, SMTT(30) DEF Shape, ProcType, bwrite, kill, Goto
  <2>2. QED
    BY <1>0, <2>1, ShapeOfType DEF Shape
<1>1. Refs'
  BY <1>0, RefsFrame DEF Moves, Active
<1>2. OneBuffer'
  BY <1>0, <1>e DEF OneBuffer, Moves, Active, Buf
<1>3. LockInv'
  BY <1>0, SMTT(30) DEF LockInv, Moves, Holding
<1>4. UserInv'
  BY <1>0, <1>e, SMTT(30) DEF UserInv, User, Moves, Using, Buf
<1>5. DiskInv'
  BY <1>0, SMTT(30) DEF DiskInv, Dirty, Moves, Using
<1>6. SleeperHasHolder'
  BY <1>0, <1>e DEF SleeperHasHolder, Moves, At, Buf
<1>7. QED
  BY <1>s, <1>1, <1>2, <1>3, <1>4, <1>5, <1>6, Combine

LEMMA ReleaseInv ==
  ASSUME IInv, NEW p \in Accesses, releasesleep(p) PROVE IInv'
<1> DEFINE b == proc[p].b
<1> USE DEF IInv
<1>e. \A q \in Accesses : proc[q].b \in Bufs
  BY EntryFacts
<1>0. /\ UNCHANGED <<lru, media, logged>> /\ proc[p].pc = "have" /\ b \in Bufs
      /\ proc[p].state # "dirty" /\ proc'[p].pc = "released"
      /\ \A q \in Accesses : proc'[q].b = proc[q].b /\ proc'[q].state = proc[q].state
      /\ \A q \in Accesses \ {p} :
           proc'[q].pc = IF proc[q].pc = "asleep" /\ proc[q].b = b THEN "lock" ELSE proc[q].pc
      /\ Changes(b, buf[b].blockno, buf[b].valid, buf[b].refcnt, buf[b].data, NoAccess)
  BY ReleaseSteps
<1>h. \A q \in Accesses \ {p} : proc[q].pc \in {"read", "have", "write"} => proc[q].b # b
  BY <1>0, OnlyHolder DEF Holding
<1>s. Shape'
  <2>1. proc' \in [Accesses -> ProcType]
    BY ShapeOfType, SMTT(30) DEF Shape, ProcType, releasesleep
  <2>2. buf' \in [Bufs -> BufType]
    <3>1. buf' = [buf EXCEPT ![b] = [buf[b] EXCEPT !.lock = NoAccess]]
      BY DEF releasesleep
    <3>2. QED
      BY <1>0, <3>1, BufEntry, BufFields, BufUpdate
  <2>3. QED
    BY <1>0, <2>1, <2>2, ShapeOfType DEF Shape
<1> HIDE DEF b
<1>1. Refs'
  BY <1>0, RefsFrame DEF Changes, Active, b
<1>2. OneBuffer'
  <2>1. \A q \in Accesses : Active(q)' => Active(q) /\ proc'[q].b = proc[q].b
    BY <1>0 DEF Active
  <2>2. \A c \in Bufs : /\ buf'[c].blockno = buf[c].blockno
                        /\ buf'[c].valid => buf[c].valid \/ buf[c].blockno # NoBlock
    BY <1>0 DEF Changes
  <2>3. QED
    BY <1>0, <1>e, <2>1, <2>2, OneBufferFrame
<1>3. LockInv'
  BY <1>0, <1>h, BioAssumption, SMTT(30) DEF LockInv, Changes, Holding, b
<1>4. UserInv'
  <2>1. \A c \in Bufs : /\ buf'[c].valid = buf[c].valid /\ buf'[c].data = buf[c].data
                       /\ buf'[c].blockno = buf[c].blockno
    BY <1>0 DEF Changes, b
  <2>2. \A q \in Accesses : /\ Buf(q)'.valid = Buf(q).valid /\ Buf(q)'.data = Buf(q).data
                        /\ Buf(q)'.blockno = Buf(q).blockno
    BY <1>0, <1>e, <2>1 DEF Buf
  <2>3. \A q \in Accesses :
          /\ Using(q)' => Using(q)
          /\ proc'[q].pc \in {"lock", "asleep", "read"} => proc[q].pc \in {"lock", "asleep", "read"}
          /\ \A c \in {"write", "read"} : proc'[q].pc = c => proc[q].pc = c
    BY <1>0 DEF Using
  <2>4. \A q \in Accesses : proc'[q].state = proc[q].state
    BY <1>0
  <2>5. media' = media
    BY <1>0
  <2>6. QED
    BY <2>2, <2>3, <2>4, <2>5 DEF UserInv, User
<1>5. DiskInv'
  <2>1. ASSUME NEW c \in Bufs, Dirty(c) PROVE Dirty(c)'
    <3>1. PICK q \in Accesses : Using(q) /\ proc[q].b = c /\ proc[q].state = "dirty"
      BY <2>1 DEF Dirty
    <3>2. q # p /\ proc[q].pc \in {"have", "write"}
      BY <1>0, <3>1 DEF Using
    <3>3. proc'[q].pc = proc[q].pc
      BY <1>0, <3>2
    <3>4. Using(q)' /\ proc'[q].b = c /\ proc'[q].state = "dirty"
      BY <1>0, <3>1, <3>2, <3>3 DEF Using
    <3>5. QED
      BY <3>4 DEF Dirty
  <2>2. QED
    BY <1>0, <2>1 DEF DiskInv, Changes
<1>6. SleeperHasHolder'
  BY <1>0, <1>e, SMTT(30) DEF SleeperHasHolder, Changes, At, Buf, b
<1>7. QED
  BY <1>s, <1>1, <1>2, <1>3, <1>4, <1>5, <1>6, Combine

(* An access or a pin joins or leaves the references of one buffer.        *)
LEMMA Counts ==
  \A b \in Bufs :
    /\ IsFiniteSet(UsersOf(b)) /\ Cardinality(UsersOf(b)) \in Nat
    /\ Cardinality(PinsOf(b)) = IF buf[b].blockno \in logged THEN 1 ELSE 0
  BY CountFacts, SMTT(30)

LEMMA CountsNext ==
  \A b \in Bufs : Cardinality(PinsOf(b)') = IF buf'[b].blockno \in logged' THEN 1 ELSE 0
<1>1. (\A b \in Bufs :
         /\ IsFiniteSet(UsersOf(b)) /\ Cardinality(UsersOf(b)) \in Nat
         /\ Cardinality(PinsOf(b)) = IF buf[b].blockno \in logged THEN 1 ELSE 0)'
  BY Counts, PTL
<1>2. QED
  BY <1>1

LEMMA RefsStep ==
  ASSUME Refs, NEW b \in Bufs,
         \A c \in Bufs \ {b} :
           /\ UsersOf(c)' = UsersOf(c) /\ buf'[c].refcnt = buf[c].refcnt
           /\ buf'[c].blockno \in logged' <=> buf[c].blockno \in logged,
         buf'[b].refcnt = Cardinality(UsersOf(b)') + Cardinality(PinsOf(b)')
  PROVE  Refs'
<1>1. ASSUME NEW c \in Bufs \ {b}
      PROVE  buf'[c].refcnt = Cardinality(UsersOf(c)') + Cardinality(PinsOf(c)')
  <2>1. Cardinality(PinsOf(c)') = Cardinality(PinsOf(c))
    BY Counts, CountsNext
  <2>2. QED
    BY <2>1 DEF Refs
<1>2. QED
  BY <1>1 DEF Refs

LEMMA RefcntType ==
  ASSUME Shape, NEW b \in Bufs, NEW k \in Int
  PROVE  [buf EXCEPT ![b].refcnt = k] \in [Bufs -> BufType]
  BY SMTT(30) DEF Shape, BufType

LEMMA PinInv ==
  ASSUME IInv, NEW p \in Accesses, bpin(p) PROVE IInv'
<1> USE DEF IInv
<1>e. \A q \in Accesses : proc[q].b \in Bufs
  BY EntryFacts
<1>b. PICK b \in Bufs : b = proc[p].b
  BY <1>e
<1>d. PICK n : n = buf[b].blockno
  OBVIOUS
<1>0. /\ UNCHANGED <<lru, media>> /\ proc[p].pc = "have" /\ b \in Bufs
      /\ proc[p].state = "dirty" /\ Moves(p, "have", b, "clean")
      /\ n \in logged \/ Cardinality(logged) < MaxPins
      /\ logged' = logged \cup {n}
      /\ Changes(b, n, buf[b].valid, IF n \in logged THEN buf[b].refcnt ELSE buf[b].refcnt + 1,
                 buf[b].data, buf[b].lock)
  BY <1>b, <1>d, PinSteps
<1>n. n \in Blocks /\ n # NoBlock
  BY <1>0, <1>b, <1>d, EntryFacts DEF OneBuffer, Active, Buf
<1>h. \A q \in Accesses \ {p} : proc[q].pc \in {"read", "have", "write"} => proc[q].b # b
  BY <1>0, <1>b, OnlyHolder DEF Holding
<1>s. Shape'
  <2>1. proc' \in [Accesses -> ProcType]
    BY ShapeOfType, SMTT(30) DEF Shape, ProcType, bpin
  <2>2. buf' \in [Bufs -> BufType]
    <3>1. buf' = [buf EXCEPT ![b].refcnt = Pinned(n, buf[b].refcnt)]
      BY <1>b, <1>d DEF bpin, Buf
    <3>2. Pinned(n, buf[b].refcnt) \in Int
      BY <1>b, EntryFacts, SMTT(30) DEF Pinned
    <3>3. QED
      BY <3>1, <3>2, RefcntType, ShapeOfType
  <2>3. QED
    BY <1>0, <1>n, <2>1, <2>2, ShapeOfType DEF Shape
<1>1. Refs'
  <2>1. \A c \in Bufs : UsersOf(c)' = UsersOf(c)
    BY <1>0, <1>b DEF UsersOf, Moves
  <2>2. \A c \in Bufs \ {b} : buf[c].blockno # n /\ buf'[c] = buf[c]
    BY <1>0, <1>d, <1>n, SMTT(30) DEF OneBuffer, Changes
  <2>3. Cardinality(PinsOf(b)') = 1 /\ Cardinality(PinsOf(b)) = IF n \in logged THEN 1 ELSE 0
    BY <1>0, <1>d, Counts, CountsNext DEF Changes
  <2>4. buf[b].refcnt = Cardinality(UsersOf(b)) + Cardinality(PinsOf(b)) /\ Cardinality(UsersOf(b)) \in Nat
    BY <1>0, Counts DEF Refs
  <2>5. buf'[b].refcnt = Cardinality(UsersOf(b)') + Cardinality(PinsOf(b)')
    BY <1>0, <2>1, <2>3, <2>4, SMTT(30) DEF Changes
  <2>6. QED
    BY <1>0, <2>1, <2>2, <2>5, RefsStep
<1>r. /\ \A c \in Bufs : /\ buf'[c].valid = buf[c].valid /\ buf'[c].data = buf[c].data
                         /\ buf'[c].blockno = buf[c].blockno
      /\ \A q \in Accesses : /\ proc'[q].b = proc[q].b /\ proc'[q].pc = proc[q].pc
                             /\ proc'[q].state = IF q = p THEN "clean" ELSE proc[q].state
  BY <1>0, <1>b, <1>d DEF Changes, Moves
<1>2. OneBuffer'
  <2>1. \A c, e \in Bufs : buf'[c].blockno # NoBlock /\ buf'[c].blockno = buf'[e].blockno => c = e
    BY <1>r, SMTT(30) DEF OneBuffer
  <2>2. \A q \in Accesses : Active(q)' => Buf(q)'.blockno # NoBlock
    <3>1. \A q \in Accesses : Buf(q)'.blockno = Buf(q).blockno /\ (Active(q)' <=> Active(q))
      BY <1>e, <1>r DEF Buf, Active
    <3>2. QED
      BY <3>1, SMTT(30) DEF OneBuffer
  <2>3. \A c \in Bufs : buf'[c].valid => buf'[c].blockno # NoBlock
    BY <1>r DEF OneBuffer
  <2>4. \A m \in logged' : \E c \in Bufs : buf'[c].blockno = m
    BY <1>0, <1>d, <1>r, SMTT(30) DEF OneBuffer
  <2>5. QED
    BY <2>1, <2>2, <2>3, <2>4 DEF OneBuffer
<1>3. LockInv'
  BY <1>0, <1>b, SMTT(30) DEF LockInv, Moves, Changes, Holding
<1>4. UserInv'
  <2>1. \A q \in Accesses : /\ Buf(q)'.valid = Buf(q).valid /\ Buf(q)'.data = Buf(q).data
                        /\ Buf(q)'.blockno = Buf(q).blockno /\ (Using(q)' <=> Using(q))
    BY <1>e, <1>r DEF Buf, Using
  <2>2. \A q \in Accesses : /\ proc'[q].pc = proc[q].pc /\ proc'[p].state = "clean"
                        /\ proc'[q].state \in {"clean", proc[q].state}
    BY <1>r
  <2>3. media' = media
    BY <1>0
  <2>4. QED
    BY <2>1, <2>2, <2>3 DEF UserInv, User
<1>5. DiskInv'
  BY <1>0, <1>b, <1>d, SMTT(30) DEF DiskInv, Dirty, Moves, Changes, Using
<1>6. SleeperHasHolder'
  BY <1>0, <1>b, <1>e, SMTT(30) DEF SleeperHasHolder, Moves, Changes, At, Buf
<1>7. QED
  BY <1>s, <1>1, <1>2, <1>3, <1>4, <1>5, <1>6, Combine

LEMMA UnpinInv ==
  ASSUME IInv, NEW p \in Accesses, bunpin(p) PROVE IInv'
<1> USE DEF IInv
<1>e. \A q \in Accesses : proc[q].b \in Bufs
  BY EntryFacts
<1>b. PICK b \in Bufs : b = proc[p].b
  BY <1>e
<1>d. PICK n : n = buf[b].blockno
  OBVIOUS
<1>0. /\ UNCHANGED <<lru, media, proc>> /\ proc[p].pc = "have" /\ b \in Bufs
      /\ proc[p].state = "written" /\ n \in logged /\ logged' = logged \ {n}
      /\ Changes(b, n, buf[b].valid, buf[b].refcnt - 1, buf[b].data, buf[b].lock)
  BY <1>b, <1>d, UnpinSteps
<1>n. n \in Blocks /\ n # NoBlock /\ buf[b].data = media[n]
  BY <1>0, <1>b, <1>d, EntryFacts DEF OneBuffer, UserInv, User, Active, Using, Buf
<1>s. Shape'
  <2>1. buf' \in [Bufs -> BufType]
    <3>1. buf' = [buf EXCEPT ![b].refcnt = buf[b].refcnt - 1] /\ buf[b].refcnt - 1 \in Int
      BY <1>b, EntryFacts, SMTT(30) DEF bunpin
    <3>2. QED
      BY <3>1, RefcntType, ShapeOfType
  <2>2. QED
    BY <1>0, <2>1, ShapeOfType DEF Shape
<1>c. \A c \in Bufs \ {b} : buf[c].blockno # n /\ buf'[c] = buf[c]
  BY <1>0, <1>d, <1>n, SMTT(30) DEF OneBuffer, Changes
<1>1. Refs'
  <2>1. \A c \in Bufs : UsersOf(c)' = UsersOf(c)
    BY <1>0 DEF UsersOf
  <2>2. Cardinality(PinsOf(b)') = 0 /\ Cardinality(PinsOf(b)) = 1
    BY <1>0, <1>d, Counts, CountsNext DEF Changes
  <2>3. buf[b].refcnt = Cardinality(UsersOf(b)) + Cardinality(PinsOf(b)) /\ Cardinality(UsersOf(b)) \in Nat
    BY <1>0, Counts DEF Refs
  <2>4. buf'[b].refcnt = Cardinality(UsersOf(b)') + Cardinality(PinsOf(b)')
    BY <1>0, <2>1, <2>2, <2>3, SMTT(30) DEF Changes
  <2>5. QED
    BY <1>0, <1>c, <2>1, <2>4, RefsStep
<1>2. OneBuffer'
  <2>1. \A q \in Accesses : Active(q)' => Active(q) /\ proc'[q].b = proc[q].b
    BY <1>0 DEF Active
  <2>2. \A c \in Bufs : /\ buf'[c].blockno = buf[c].blockno
                        /\ buf'[c].valid => buf[c].valid \/ buf[c].blockno # NoBlock
    BY <1>0, <1>d DEF Changes
  <2>3. QED
    BY <1>0, <1>e, <2>1, <2>2, OneBufferFrame
<1>3. LockInv'
  BY <1>0, <1>b, SMTT(30) DEF LockInv, Changes, Holding
<1>4. UserInv'
  <2>1. \A c \in Bufs : /\ buf'[c].valid = buf[c].valid /\ buf'[c].data = buf[c].data
                        /\ buf'[c].blockno = buf[c].blockno
    BY <1>0, <1>d DEF Changes
  <2>2. ASSUME NEW q \in Accesses PROVE User(q)'
    <3>1. User(q) /\ proc[q].b \in Bufs
      BY <1>e DEF UserInv
    <3>2. QED
      BY <1>0, <2>1, <3>1 DEF User, Using, Buf
  <2>3. QED
    BY <2>2 DEF UserInv
<1>5. DiskInv'
  BY <1>0, <1>c, <1>n, SMTT(30) DEF DiskInv, Dirty, Changes, Using
<1>6. SleeperHasHolder'
  BY <1>0, <1>b, <1>e DEF SleeperHasHolder, Changes, At, Buf
<1>7. QED
  BY <1>s, <1>1, <1>2, <1>3, <1>4, <1>5, <1>6, Combine

LEMMA RelseInv ==
  ASSUME IInv, NEW p \in Accesses, brelse(p) PROVE IInv'
<1> USE DEF IInv
<1>e. \A q \in Accesses : proc[q].b \in Bufs
  BY EntryFacts
<1>b. PICK b \in Bufs : b = proc[p].b
  BY <1>e
<1>0. /\ UNCHANGED <<media, logged>> /\ proc[p].pc = "released"
      /\ Moves(p, "idle", 1, "clean") /\ lru' \in {lru, ToFront(b)}
      /\ Changes(b, buf[b].blockno, buf[b].valid, buf[b].refcnt - 1, buf[b].data, buf[b].lock)
  BY <1>b, RelseSteps
<1>s. Shape'
  <2>1. proc' \in [Accesses -> ProcType]
    <3>1. Idle \in ProcType
      BY BioAssumption, SMTT(30) DEF Idle, ProcType, Bufs
    <3>2. QED
      BY <3>1, ShapeOfType DEF Shape, brelse
  <2>2. buf' \in [Bufs -> BufType]
    <3>1. buf' = [buf EXCEPT ![b].refcnt = buf[b].refcnt - 1] /\ buf[b].refcnt - 1 \in Int
      BY <1>b, EntryFacts, SMTT(30) DEF brelse
    <3>2. QED
      BY <3>1, RefcntType, ShapeOfType
  <2>3. lru' \in [Bufs -> Bufs] /\ \A c \in Bufs : \E i \in Bufs : lru'[i] = c
    <3>1. /\ ToFront(b) \in [Bufs -> Bufs] /\ \A c \in Bufs : \E i \in Bufs : ToFront(b)[i] = c
          /\ lru \in [Bufs -> Bufs] /\ \A c \in Bufs : \E i \in Bufs : lru[i] = c
      BY ToFrontFacts, ShapeOfType DEF Shape
    <3>2. QED
      BY <1>0, <3>1
  <2>4. QED
    BY <1>0, <2>1, <2>2, <2>3, ShapeOfType DEF Shape
<1>1. Refs'
  <2>1. \A c \in Bufs \ {b} : UsersOf(c)' = UsersOf(c)
    BY <1>0, <1>b DEF UsersOf, Moves
  <2>2. UsersOf(b)' = UsersOf(b) \ {p} /\ p \in UsersOf(b)
    BY <1>0, <1>b DEF UsersOf, Moves
  <2>3. Cardinality(UsersOf(b)') = Cardinality(UsersOf(b)) - 1
    BY <2>2, Counts, FS_RemoveElement
  <2>4. Cardinality(PinsOf(b)') = Cardinality(PinsOf(b)) /\ Cardinality(PinsOf(b)) \in Int
    BY <1>0, Counts, CountsNext, SMTT(30) DEF Changes
  <2>5. buf[b].refcnt = Cardinality(UsersOf(b)) + Cardinality(PinsOf(b)) /\ Cardinality(UsersOf(b)) \in Nat
    BY Counts DEF Refs
  <2>6. buf'[b].refcnt = Cardinality(UsersOf(b)') + Cardinality(PinsOf(b)')
    BY <1>0, <2>3, <2>4, <2>5, SMTT(30) DEF Changes
  <2>7. \A c \in Bufs \ {b} : buf'[c] = buf[c]
    BY <1>0 DEF Changes
  <2>8. QED
    BY <1>0, <2>1, <2>6, <2>7, RefsStep
<1>2. OneBuffer'
  BY <1>0, <1>e, SMTT(30) DEF OneBuffer, Moves, Changes, Active, Buf
<1>3. LockInv'
  BY <1>0, <1>b, SMTT(30) DEF LockInv, Moves, Changes, Holding
<1>4. UserInv'
  BY <1>0, <1>e, SMTT(30) DEF UserInv, User, Moves, Changes, Using, Buf
<1>5. DiskInv'
  BY <1>0, SMTT(30) DEF DiskInv, Dirty, Moves, Changes, Using
<1>6. SleeperHasHolder'
  BY <1>0, <1>e, SMTT(30) DEF SleeperHasHolder, Moves, Changes, At, Buf
<1>7. QED
  BY <1>s, <1>1, <1>2, <1>3, <1>4, <1>5, <1>6, Combine

(* bget() finds the block, ...                                             *)
LEMMA HitInv ==
  ASSUME IInv, Shape', UNCHANGED <<lru, media, logged>>,
         NEW p \in Accesses, NEW n \in Blocks, NEW b \in Bufs,
         proc[p].pc = "idle", buf[b].blockno = n, Moves(p, "lock", b, "clean"),
         Changes(b, n, buf[b].valid, buf[b].refcnt + 1, buf[b].data, buf[b].lock)
  PROVE  IInv'
<1> USE DEF IInv
<1>e. \A q \in Accesses : proc[q].b \in Bufs
  BY EntryFacts
<1>1. Refs'
  <2>1. \A c \in Bufs \ {b} : UsersOf(c)' = UsersOf(c)
    BY DEF UsersOf, Moves
  <2>2. UsersOf(b)' = UsersOf(b) \cup {p} /\ p \notin UsersOf(b)
    BY DEF UsersOf, Moves
  <2>3. Cardinality(UsersOf(b)') = Cardinality(UsersOf(b)) + 1
    BY <2>2, Counts, FS_AddElement
  <2>4. Cardinality(PinsOf(b)') = Cardinality(PinsOf(b)) /\ Cardinality(PinsOf(b)) \in Int
    BY Counts, CountsNext, SMTT(30) DEF Changes
  <2>5. buf[b].refcnt = Cardinality(UsersOf(b)) + Cardinality(PinsOf(b)) /\ Cardinality(UsersOf(b)) \in Nat
    BY Counts DEF Refs
  <2>6. buf'[b].refcnt = Cardinality(UsersOf(b)') + Cardinality(PinsOf(b)')
    BY <2>3, <2>4, <2>5, SMTT(30) DEF Changes
  <2>7. \A c \in Bufs \ {b} : buf'[c] = buf[c]
    BY DEF Changes
  <2>8. QED
    BY <2>1, <2>6, <2>7, RefsStep
<1>2. OneBuffer'
  BY <1>e, BioAssumption, SMTT(30) DEF OneBuffer, Moves, Changes, Active, Buf
<1>3. LockInv'
  BY SMTT(30) DEF LockInv, Moves, Changes, Holding
<1>4. UserInv'
  BY <1>e, SMTT(30) DEF UserInv, User, Moves, Changes, Using, Buf
<1>5. DiskInv'
  BY SMTT(30) DEF DiskInv, Dirty, Moves, Changes, Using
<1>6. SleeperHasHolder'
  BY <1>e, SMTT(30) DEF SleeperHasHolder, Moves, Changes, At, Buf
<1>7. QED
  BY <1>1, <1>2, <1>3, <1>4, <1>5, <1>6, Combine

(* ... recycles a buffer that nobody refers to, ...                        *)
LEMMA RecycleInv ==
  ASSUME IInv, Shape', UNCHANGED <<lru, media, logged>>,
         NEW p \in Accesses, NEW n \in Blocks, NEW b \in Bufs,
         proc[p].pc = "idle", buf[b].refcnt = 0, \A c \in Bufs : buf[c].blockno # n,
         Moves(p, "lock", b, "clean"), Changes(b, n, FALSE, 1, buf[b].data, buf[b].lock)
  PROVE  IInv'
<1> USE DEF IInv
<1>e. \A q \in Accesses : proc[q].b \in Bufs
  BY EntryFacts
<1>0. UsersOf(b) = {} /\ buf[b].blockno \notin logged /\ n \notin logged
  <2>1. Cardinality(UsersOf(b)) = 0 /\ Cardinality(PinsOf(b)) = 0
    BY Counts, SMTT(30) DEF Refs
  <2>2. QED
    BY <2>1, Counts, FS_EmptySet, SMTT(30) DEF OneBuffer
<1>u. \A q \in Accesses : Active(q) => proc[q].b # b
  BY <1>0 DEF UsersOf, Active
<1>l. buf[b].lock \notin Accesses
  BY <1>u, SMTT(30) DEF LockInv, Holding, Active
<1>1. Refs'
  <2>1. \A c \in Bufs \ {b} : UsersOf(c)' = UsersOf(c)
    BY DEF UsersOf, Moves
  <2>2. UsersOf(b)' = {p}
    BY <1>0, SMTT(30) DEF UsersOf, Moves
  <2>3. Cardinality(UsersOf(b)') = 1
    BY <2>2, FS_Singleton
  <2>4. Cardinality(PinsOf(b)') = 0
    BY <1>0, CountsNext DEF Changes
  <2>5. buf'[b].refcnt = Cardinality(UsersOf(b)') + Cardinality(PinsOf(b)')
    BY <2>3, <2>4, SMTT(30) DEF Changes
  <2>6. \A c \in Bufs \ {b} : buf'[c] = buf[c]
    BY DEF Changes
  <2>7. QED
    BY <2>1, <2>5, <2>6, RefsStep
<1>2. OneBuffer'
  <2>1. \A m \in logged : \E c \in Bufs \ {b} : buf[c].blockno = m
    BY <1>0, SMTT(30) DEF OneBuffer
  <2>2. QED
    BY <1>e, <1>u, <2>1, BioAssumption, SMTT(30) DEF OneBuffer, Moves, Changes, Active, Buf
<1>3. LockInv'
  BY <1>l, SMTT(30) DEF LockInv, Moves, Changes, Holding
<1>4. UserInv'
  <2>1. ASSUME NEW q \in Accesses \ {p} PROVE User(q)'
    <3>1. proc'[q] = proc[q] /\ User(q) /\ proc[q].b \in Bufs
      BY <1>e DEF UserInv, Moves
    <3>2. Active(q) => Buf(q)' = Buf(q)
      BY <1>u, <3>1 DEF Changes, Buf
    <3>3. QED
      BY <3>1, <3>2 DEF User, Using, Active
  <2>2. User(p)'
    BY DEF User, Using, Moves
  <2>3. QED
    BY <2>1, <2>2 DEF UserInv
<1>5. DiskInv'
  BY SMTT(30) DEF DiskInv, Dirty, Moves, Changes, Using
<1>6. SleeperHasHolder'
  BY <1>e, <1>u, SMTT(30) DEF SleeperHasHolder, Moves, Changes, At, Active, Buf
<1>7. QED
  BY <1>1, <1>2, <1>3, <1>4, <1>5, <1>6, Combine

(* ... or panics.                                                          *)
LEMMA PanicInv ==
  ASSUME IInv, Shape', UNCHANGED <<lru, media, logged, buf>>,
         NEW p \in Accesses, proc[p].pc = "idle", Moves(p, "panic", proc[p].b, proc[p].state)
  PROVE  IInv'
<1> USE DEF IInv
<1>e. \A q \in Accesses : proc[q].b \in Bufs
  BY EntryFacts
<1>1. Refs'
  BY RefsFrame DEF Moves, Active
<1>2. OneBuffer'
  <2>1. \A q \in Accesses : Active(q)' => Active(q) /\ proc'[q].b = proc[q].b
    BY DEF Moves, Active
  <2>2. QED
    BY <1>e, <2>1, OneBufferFrame
<1>3. LockInv'
  BY SMTT(30) DEF LockInv, Moves, Holding
<1>4. UserInv'
  BY <1>e DEF UserInv, User, Moves, Using, Buf
<1>5. DiskInv'
  BY SMTT(30) DEF DiskInv, Dirty, Moves, Using
<1>6. SleeperHasHolder'
  BY <1>e DEF SleeperHasHolder, Moves, At, Buf
<1>7. QED
  BY <1>1, <1>2, <1>3, <1>4, <1>5, <1>6, Combine

LEMMA GetInv ==
  ASSUME IInv, NEW p \in Accesses, NEW n \in Blocks, bget(p, n) PROVE IInv'
<1> USE DEF IInv
<1>1. proc' \in [Accesses -> ProcType] /\ buf' \in [Bufs -> BufType]
  <2>0. Shape
    BY ShapeOfType
  <2>1. CASE Cached(n) # {}
    <3> DEFINE b == CHOOSE c \in Cached(n) : TRUE
    <3>1. b \in Bufs
      BY <2>1 DEF Cached
    <3>2. /\ buf' = [buf EXCEPT ![b].refcnt = buf[b].refcnt + 1]
          /\ proc' = [proc EXCEPT ![p] = [pc |-> "lock", b |-> b, state |-> "clean"]]
      BY <2>1, <3>1 DEF bget
    <3> HIDE DEF b
    <3>3. buf[b].refcnt + 1 \in Int
      BY <3>1, EntryFacts, SMTT(30)
    <3>4. QED
      BY <2>0, <3>1, <3>2, <3>3, RefcntType DEF Shape, ProcType
  <2>2. CASE Cached(n) = {} /\ Unused # {}
    <3> DEFINE b == Oldest(Unused)
    <3>1. b \in Bufs
      BY <2>2, OldestFacts DEF Unused
    <3>2. /\ buf' = [buf EXCEPT ![b] = Recycled(b, n)]
          /\ proc' = [proc EXCEPT ![p] = [pc |-> "lock", b |-> b, state |-> "clean"]]
      BY <2>2 DEF bget
    <3> HIDE DEF b
    <3>3. Recycled(b, n) \in BufType
      <4>1. buf[b] \in BufType
        BY <2>0, <3>1 DEF Shape
      <4>2. \A r \in BufType : [r EXCEPT !.blockno = n] \in BufType
        BY DEF BufType
      <4>3. \A r \in BufType : [r EXCEPT !.valid = FALSE] \in BufType
        BY DEF BufType
      <4>4. \A r \in BufType : [r EXCEPT !.refcnt = 1] \in BufType
        BY SMTT(30) DEF BufType
      <4>5. Recycled(b, n) = [[[buf[b] EXCEPT !.blockno = n] EXCEPT !.valid = FALSE] EXCEPT !.refcnt = 1]
        BY DEF Recycled
      <4>6. QED
        BY <4>1, <4>2, <4>3, <4>4, <4>5
    <3>4. QED
      BY <2>0, <3>1, <3>2, <3>3 DEF Shape, ProcType
  <2>3. CASE Cached(n) = {} /\ Unused = {}
    <3>1. Goto(p, "panic") /\ UNCHANGED buf
      BY <2>3 DEF bget
    <3>2. QED
      BY <2>0, <3>1, SMTT(30) DEF Shape, Goto, ProcType
  <2>4. QED
    BY <2>1, <2>2, <2>3
<1>2. /\ UNCHANGED <<lru, media, logged>> /\ proc[p].pc = "idle"
      /\ \/ \E b \in Bufs :
              /\ buf[b].blockno = n /\ Moves(p, "lock", b, "clean")
              /\ Changes(b, n, buf[b].valid, buf[b].refcnt + 1, buf[b].data, buf[b].lock)
         \/ \E b \in Bufs :
              /\ buf[b].refcnt = 0 /\ \A c \in Bufs : buf[c].blockno # n
              /\ Moves(p, "lock", b, "clean")
              /\ Changes(b, n, FALSE, 1, buf[b].data, buf[b].lock)
         \/ /\ \A b \in Bufs : buf[b].refcnt # 0
            /\ Moves(p, "panic", proc[p].b, proc[p].state) /\ UNCHANGED buf
  BY GetSteps
<1>3. Shape'
  BY <1>1, <1>2, ShapeOfType DEF Shape
<1> HIDE DEF IInv
<1>4. QED
  BY <1>2, <1>3, HitInv, RecycleInv, PanicInv

LEMMA InitInv == Init => IInv
<1> SUFFICES ASSUME Init PROVE IInv
  OBVIOUS
<1> USE DEF Init
<1>p. \A p \in Accesses : proc[p].pc = "idle" /\ proc[p].b = 1 /\ proc[p].state = "clean"
  BY DEF Idle
<1>b. \A b \in Bufs : /\ buf[b].blockno = NoBlock /\ buf[b].refcnt = 0 /\ buf[b].lock = NoAccess
                      /\ ~buf[b].valid
  OBVIOUS
<1>1. Shape
  <2>1. lru \in [Bufs -> Bufs] /\ \A b \in Bufs : \E i \in Bufs : lru[i] = b
    <3>1. \A b \in Bufs : NBUF + 1 - b \in Bufs /\ NBUF + 1 - (NBUF + 1 - b) = b
      BY BioAssumption, SMTT(30) DEF Bufs
    <3>2. QED
      BY <3>1
  <2>2. buf \in [Bufs -> BufType] /\ media \in [Blocks -> Values] /\ logged \subseteq Blocks
    BY BioAssumption, SMTT(30) DEF BufType
  <2>3. proc \in [Accesses -> ProcType]
    BY BioAssumption, SMTT(30) DEF ProcType, Idle, Bufs
  <2>4. QED
    BY <2>1, <2>2, <2>3 DEF Shape
<1>2. Refs
  <2> SUFFICES ASSUME NEW b \in Bufs
               PROVE  buf[b].refcnt = Cardinality(UsersOf(b)) + Cardinality(PinsOf(b))
    BY DEF Refs
  <2>1. UsersOf(b) = {} /\ PinsOf(b) = {}
    BY <1>p DEF UsersOf, PinsOf
  <2>2. QED
    BY <1>b, <2>1, FS_EmptySet, SMTT(30)
<1>3. OneBuffer /\ LockInv
  BY <1>b, <1>p, BioAssumption DEF OneBuffer, LockInv, Active, Holding
<1>4. UserInv /\ DiskInv /\ SleeperHasHolder
  BY <1>b, <1>p DEF UserInv, User, DiskInv, SleeperHasHolder, Using, At
<1>5. QED
  BY <1>1, <1>2, <1>3, <1>4, TypeFollows DEF IInv

LEMMA StutterInv == IInv /\ UNCHANGED vars => IInv'
<1> SUFFICES ASSUME IInv, UNCHANGED <<lru, buf, media, logged, proc>> PROVE IInv'
  BY DEF vars
<1> USE DEF IInv
<1>1. Shape'
  BY ShapeOfType DEF Shape
<1>2. Refs'
  BY RefsFrame DEF Active
<1>3. OneBuffer' /\ LockInv'
  BY DEF OneBuffer, LockInv, Active, Holding, Buf
<1>4. UserInv' /\ SleeperHasHolder'
  BY DEF UserInv, User, SleeperHasHolder, Using, At, Buf
<1>5. DiskInv'
  BY DEF DiskInv, Dirty, Using
<1>6. QED
  BY <1>1, <1>2, <1>3, <1>4, <1>5, Combine

LEMMA NextInv == IInv /\ [Next]_vars => IInv'
<1> SUFFICES ASSUME IInv, [Next]_vars PROVE IInv'
  OBVIOUS
<1>1. ASSUME NEW p \in Accesses, Step(p) PROVE IInv'
  BY <1>1, AcquireInv, ReadInv, ModifyInv, WriteDoneInv, GotoInv, ReleaseInv, PinInv, UnpinInv,
     RelseInv, GetInv DEF Step
<1>2. QED
  BY <1>1, StutterInv DEF Next

(* The inductive invariant of the buffer cache holds initially and is kept *)
(* by every step of bio.c, sleeplock.c and the log's pins.                 *)
THEOREM Invariance == Spec => []IInv
  BY InitInv, NextInv, PTL DEF Spec

(* The types hold and b->refcnt counts the accesses inside bread() ...     *)
(* brelse() and the pin of the log, for any number of accesses, blocks     *)
(* and buffers (bio.c:59-92, 114-135).                                     *)
THEOREM References == Spec => []RefcntsBalance
<1>1. IInv => RefcntsBalance
  BY DEF IInv, Refs, RefcntsBalance
<1>2. QED
  BY <1>1, Invariance, PTL

(* Who sleeps in acquiresleep() sleeps on a lock that somebody holds and   *)
(* will release with a wakeup (sleeplock.c:21-41).                         *)
THEOREM Sleepers == Spec => []SleeperHasHolder
  BY Invariance, PTL DEF IInv

(* When every buffer is in use, there are at least NBUF accesses and pins. *)
LEMMA AllUsed ==
  ASSUME IInv, \A b \in Bufs : buf[b].refcnt # 0
  PROVE  Cardinality(Busy) + Cardinality(logged) >= NBUF
<1> USE DEF IInv
<1> DEFINE A == {b \in Bufs : UsersOf(b) # {}}
           P == {b \in Bufs : buf[b].blockno \in logged}
           f == [q \in Busy |-> proc[q].b]
           g == [b \in P |-> buf[b].blockno]
<1>1. Bufs = A \cup P
  <2>1. ASSUME NEW b \in Bufs PROVE UsersOf(b) # {} \/ buf[b].blockno \in logged
    <3>1. Cardinality(UsersOf(b)) # 0 \/ Cardinality(PinsOf(b)) # 0
      BY Counts, SMTT(30) DEF Refs
    <3>2. QED
      BY <3>1, Counts, FS_EmptySet
  <2>2. QED
    BY <2>1
<1>2. IsFiniteSet(Busy)
  BY BioAssumption, FS_Subset DEF Busy
<1>3. IsFiniteSet(A) /\ Cardinality(A) <= Cardinality(Busy)
  <2>1. \A q \in Busy : proc[q].b \in A
    BY EntryFacts DEF UsersOf, Busy
  <2>2. \A b \in A : \E q \in Busy : proc[q].b = b
    BY DEF UsersOf, Busy
  <2>3. f \in Surjection(Busy, A)
    BY <2>1, <2>2 DEF Surjection
  <2> HIDE DEF f, A
  <2>4. QED
    BY <1>2, <2>3, FS_Surjection
<1>4. IsFiniteSet(logged)
  BY BioAssumption, FS_Subset DEF TypeOK
<1>5. IsFiniteSet(P) /\ Cardinality(P) <= Cardinality(logged)
  <2>1. \A b, c \in P : buf[b].blockno = buf[c].blockno => b = c
    BY BioAssumption DEF OneBuffer, TypeOK
  <2>2. g \in Injection(P, logged)
    BY <2>1 DEF Injection, IsInjective
  <2> HIDE DEF g, P
  <2>3. QED
    BY <1>4, <2>2, FS_Injection
<1> HIDE DEF A, P
<1>6. Cardinality(A \cup P) = NBUF
  <2>1. NBUF \in Int /\ 1 \in Int /\ ~(1 > NBUF)
    BY BioAssumption, SMTT(30)
  <2>2. Cardinality(1 .. NBUF) = IF 1 > NBUF THEN 0 ELSE NBUF - 1 + 1
    BY <2>1, FS_Interval
  <2>3. A \cup P = 1 .. NBUF
    BY <1>1 DEF Bufs
  <2>4. Cardinality(1 .. NBUF) = NBUF
    BY <2>1, <2>2, SMTT(30)
  <2>5. QED
    BY <2>3, <2>4
<1>7. /\ Cardinality(A) \in Nat /\ Cardinality(P) \in Nat
      /\ Cardinality(Busy) \in Nat /\ Cardinality(logged) \in Nat
  BY <1>2, <1>3, <1>4, <1>5, FS_CardinalityType
<1>8. Cardinality(A \cup P) <= Cardinality(A) + Cardinality(P)
  <2>1. Cardinality(A \cup P) = Cardinality(A) + Cardinality(P) - Cardinality(A \cap P)
    BY <1>3, <1>5, FS_Union
  <2>2. IsFiniteSet(A \cap P) /\ Cardinality(A \cap P) \in Nat
    BY <1>3, FS_Intersection, FS_CardinalityType
  <2>3. QED
    BY <1>7, <2>1, <2>2, SMTT(30)
<1>9. NBUF <= Cardinality(A) + Cardinality(P)
  BY <1>6, <1>8
<1>10. QED
  BY <1>3, <1>5, <1>7, <1>9, BioAssumption, SMTT(30)

(* Steps that neither begin nor end an access and touch no pin.            *)
LEMMA ShortageFrame ==
  ASSUME PanicIsShortage, UNCHANGED logged,
         \A q \in Accesses : /\ (proc'[q].pc \in {"idle", "panic"}) <=> (proc[q].pc \in {"idle", "panic"})
                             /\ proc'[q].pc = "panic" => proc[q].pc = "panic"
  PROVE  PanicIsShortage'
<1>1. Busy' = Busy
  BY DEF Busy
<1>2. Running => Running'
  BY DEF Running, At
<1>3. QED
  BY <1>1, <1>2 DEF PanicIsShortage

(* Steps that take bcache.lock, and panic only when no buffer is free.     *)
LEMMA ShortageRunning ==
  ASSUME Running, \A q \in Accesses : proc'[q].pc = "panic" => proc[q].pc = "panic"
  PROVE  PanicIsShortage'
<1>1. Running'
  BY DEF Running, At
<1>2. QED
  BY <1>1 DEF PanicIsShortage

LEMMA ShortageGet ==
  ASSUME IInv, NEW p \in Accesses, NEW n \in Blocks, bget(p, n)
  PROVE  PanicIsShortage'
<1>0. TypeOK /\ Running /\ UNCHANGED logged /\ proc[p].pc = "idle"
  BY DEF IInv, bget, At
<1>1. CASE \E b \in Bufs : Moves(p, "lock", b, "clean")
  BY <1>0, <1>1, ShortageRunning DEF Moves
<1>2. CASE (\A b \in Bufs : buf[b].refcnt # 0) /\ Moves(p, "panic", proc[p].b, proc[p].state)
  <2>1. Cardinality(Busy) + Cardinality(logged) >= NBUF
    BY <1>2, AllUsed
  <2>2. Busy' = Busy
    BY <1>0, <1>2 DEF Busy, Moves
  <2>3. QED
    BY <1>0, <2>1, <2>2 DEF PanicIsShortage
<1>3. QED
  BY <1>0, <1>1, <1>2, GetSteps

LEMMA ShortageStep ==
  ASSUME IInv, PanicIsShortage, NEW p \in Accesses, Step(p)
  PROVE  PanicIsShortage'
<1>0. TypeOK
  BY DEF IInv
<1>1. CASE acquiresleep(p)
  BY <1>0, <1>1, AcquireSteps, ShortageFrame DEF Moves
<1>2. CASE bread(p)
  BY <1>0, <1>2, ReadSteps, ShortageFrame DEF Moves
<1>3. ASSUME NEW v \in Values, modify(p, v) PROVE PanicIsShortage'
  BY <1>0, <1>3, ModifySteps, ShortageFrame DEF Moves
<1>4. CASE bwrite_done(p)
  BY <1>0, <1>4, WriteDoneSteps, ShortageFrame DEF Moves
<1>5. CASE bwrite(p) \/ kill(p)
  BY <1>0, <1>5, GotoSteps, ShortageFrame DEF Moves
<1>6. CASE releasesleep(p)
  BY <1>0, <1>6, ReleaseSteps, ShortageFrame
<1>7. CASE bpin(p)
  BY <1>0, <1>7, PinSteps, ShortageRunning DEF Moves, bpin
<1>8. CASE bunpin(p)
  BY <1>0, <1>8, UnpinSteps, ShortageRunning DEF bunpin
<1>9. CASE brelse(p)
  BY <1>0, <1>9, RelseSteps, ShortageRunning DEF Moves, brelse
<1>10. QED
  BY <1>1, <1>2, <1>3, <1>4, <1>5, <1>6, <1>7, <1>8, <1>9, ShortageGet DEF Step

(* bget() panics only when the accesses that have not ended and the blocks *)
(* in the log are at least NBUF (bio.c:75-88), however many there are: no  *)
(* buffer is lost to a reference that brelse() or bunpin() did not give    *)
(* back.                                                                   *)
THEOREM Buffers == Spec => []PanicIsShortage
<1>1. Init => PanicIsShortage
  <2>1. Init => \A p \in Accesses : proc[p].pc = "idle"
    BY SMTT(30) DEF Init, Idle
  <2>2. (\A p \in Accesses : proc[p].pc = "idle") => Running
    BY DEF Running, At
  <2>3. QED
    BY <2>1, <2>2 DEF PanicIsShortage
<1>2. IInv /\ PanicIsShortage /\ [Next]_vars => PanicIsShortage'
  <2> SUFFICES ASSUME IInv, PanicIsShortage, [Next]_vars PROVE PanicIsShortage'
    OBVIOUS
  <2>1. CASE UNCHANGED vars
    BY <2>1, ShortageFrame DEF vars
  <2>2. QED
    BY <2>1, ShortageStep DEF Next
<1>3. QED
  BY <1>1, <1>2, Invariance, PTL DEF Spec

-----------------------------------------------------------------------------
(* The cache implements a BlockStore for every block.  A block has the     *)
(* value of its valid buffer, or else the one on disk; its holder is the   *)
(* access that is between bread() and brelse() with it.                    *)
Uses(p, n) == Using(p) /\ Buf(p).blockno = n
Holds(b, n) == buf[b].blockno = n /\ buf[b].valid

StoreFacts == \A n \in Blocks :
  /\ (\A b \in Bufs : ~Holds(b, n)) => ValueOf(n) = media[n]
  /\ \A b \in Bufs : Holds(b, n) => ValueOf(n) = buf[b].data
  /\ (\A p \in Accesses : ~Uses(p, n)) => HolderOf(n) = NoAccess
  /\ \A p \in Accesses : Uses(p, n) => HolderOf(n) = p

LEMMA StoreState == IInv => StoreFacts
<1> SUFFICES ASSUME IInv, NEW n \in Blocks
             PROVE  /\ (\A b \in Bufs : ~Holds(b, n)) => ValueOf(n) = media[n]
                    /\ \A b \in Bufs : Holds(b, n) => ValueOf(n) = buf[b].data
                    /\ (\A p \in Accesses : ~Uses(p, n)) => HolderOf(n) = NoAccess
                    /\ \A p \in Accesses : Uses(p, n) => HolderOf(n) = p
  BY DEF StoreFacts
<1> USE DEF IInv
<1>1. Valid(n) = {b \in Bufs : Holds(b, n)} /\ Users(n) = {p \in Accesses : Uses(p, n)}
  BY DEF Valid, Cached, Holds, Users, Uses, Using
<1>2. ASSUME NEW b \in Bufs, Holds(b, n) PROVE ValueOf(n) = buf[b].data
  <2>1. Valid(n) = {b}
    BY <1>1, <1>2, BioAssumption DEF OneBuffer, Holds
  <2>2. QED
    BY <2>1 DEF ValueOf
<1>3. ASSUME NEW p \in Accesses, Uses(p, n) PROVE HolderOf(n) = p
  <2>1. \A q \in Accesses : Uses(q, n) => q = p
    BY <1>3, OnlyHolder, EntryFacts, BioAssumption, SMTT(30) DEF OneBuffer, Uses, Using, Holding, Buf
  <2>2. Users(n) = {p}
    BY <1>1, <1>3, <2>1
  <2>3. QED
    BY <2>2 DEF HolderOf
<1>4. QED
  BY <1>1, <1>2, <1>3 DEF ValueOf, HolderOf

LEMMA StoreInit == ASSUME Init, NEW n \in Blocks PROVE Store(n)!Init
<1>1. StoreFacts
  BY InitInv, StoreState
<1>2. ValueOf(n) = Zero /\ HolderOf(n) = NoAccess
  <2>1. \A b \in Bufs : ~Holds(b, n)
    BY DEF Init, Holds
  <2>2. \A p \in Accesses : ~Uses(p, n)
    BY DEF Init, Idle, Uses, Using
  <2>3. QED
    BY <1>1, <2>1, <2>2 DEF StoreFacts, Init
<1>3. QED
  BY <1>2 DEF Store!Init

LEMMA StoreSame ==
  ASSUME NEW n \in Blocks, ValueOf(n)' = ValueOf(n), HolderOf(n)' = HolderOf(n)
  PROVE  UNCHANGED Store(n)!vars
  BY DEF Store!vars

LEMMA StoreAcquire ==
  ASSUME NEW n \in Blocks, NEW p \in Accesses,
         ValueOf(n)' = ValueOf(n), HolderOf(n) = NoAccess, HolderOf(n)' = p
  PROVE  Store(n)!Next
  BY DEF Store!Next, Store!Acquire

LEMMA StoreWrite ==
  ASSUME NEW n \in Blocks, NEW p \in Accesses, NEW v \in Values,
         ValueOf(n)' = v, HolderOf(n) = p, HolderOf(n)' = p
  PROVE  Store(n)!Next
  BY DEF Store!Next, Store!Write

LEMMA StoreRelease ==
  ASSUME NEW n \in Blocks, NEW p \in Accesses,
         ValueOf(n)' = ValueOf(n), HolderOf(n) = p, HolderOf(n)' = NoAccess
  PROVE  Store(n)!Next
  BY DEF Store!Next, Store!Release

LEMMA ValueSame ==
  ASSUME StoreFacts, StoreFacts', NEW n \in Blocks,
         \A b \in Bufs : /\ Holds(b, n)' <=> Holds(b, n)
                         /\ Holds(b, n) => buf'[b].data = buf[b].data,
         media'[n] = media[n] \/ \E b \in Bufs : Holds(b, n)
  PROVE  ValueOf(n)' = ValueOf(n)
<1>1. CASE \E b \in Bufs : Holds(b, n)
  BY <1>1, SMTT(30) DEF StoreFacts
<1>2. CASE \A b \in Bufs : ~Holds(b, n)
  BY <1>2 DEF StoreFacts
<1>3. QED
  BY <1>1, <1>2

LEMMA HolderSame ==
  ASSUME StoreFacts, StoreFacts', NEW n \in Blocks,
         \A p \in Accesses : Uses(p, n)' <=> Uses(p, n)
  PROVE  HolderOf(n)' = HolderOf(n)
<1>1. CASE \E p \in Accesses : Uses(p, n)
  BY <1>1 DEF StoreFacts
<1>2. CASE \A p \in Accesses : ~Uses(p, n)
  BY <1>2 DEF StoreFacts
<1>3. QED
  BY <1>1, <1>2

(* Steps that no BlockStore notices: the users and the contents of the     *)
(* valid buffers stay.                                                     *)
LEMMA QuietStep ==
  ASSUME StoreFacts, StoreFacts', NEW n \in Blocks,
         \A p \in Accesses : Uses(p, n)' <=> Uses(p, n),
         \A b \in Bufs : /\ Holds(b, n)' <=> Holds(b, n)
                         /\ Holds(b, n) => buf'[b].data = buf[b].data,
         media'[n] = media[n] \/ \E b \in Bufs : Holds(b, n)
  PROVE  Store(n)!Next \/ UNCHANGED Store(n)!vars
<1>1. ValueOf(n)' = ValueOf(n)
  BY ValueSame
<1>2. HolderOf(n)' = HolderOf(n)
  BY HolderSame
<1>3. QED
  BY <1>1, <1>2, StoreSame

(* bread() has the lock: the access gets the block with its value.         *)
LEMMA AcquireStore ==
  ASSUME IInv, StoreFacts, StoreFacts', NEW p \in Accesses, acquiresleep(p), NEW n \in Blocks
  PROVE  Store(n)!Next \/ UNCHANGED Store(n)!vars
<1> USE DEF IInv
<1>e. \A q \in Accesses : proc[q].b \in Bufs
  BY EntryFacts
<1>b. PICK b \in Bufs : b = proc[p].b
  BY <1>e
<1>0. UNCHANGED <<lru, media, logged>> /\ proc[p].pc = "lock"
  BY AcquireSteps
<1>1. CASE Moves(p, "asleep", b, proc[p].state) /\ UNCHANGED buf
  BY <1>0, <1>1, <1>b, QuietStep DEF Moves, Uses, Using, Holds, Buf
<1>2. CASE /\ buf[b].lock = NoAccess
           /\ Moves(p, IF buf[b].valid THEN "have" ELSE "read", b, proc[p].state)
           /\ Changes(b, buf[b].blockno, buf[b].valid, buf[b].refcnt, buf[b].data, p)
  <2>1. \A c \in Bufs : (Holds(c, n)' <=> Holds(c, n)) /\ buf'[c].data = buf[c].data
    BY <1>2 DEF Changes, Holds
  <2>2. \A q \in Accesses \ {p} : Uses(q, n)' <=> Uses(q, n)
    BY <1>2, <1>e, SMTT(30) DEF Moves, Changes, Uses, Using, Buf
  <2>3. CASE buf[b].valid /\ buf[b].blockno = n
    <3>1. Uses(p, n)'
      BY <1>2, <1>b, <2>3 DEF Moves, Changes, Uses, Using, Buf
    <3>2. \A q \in Accesses : ~Uses(q, n)
      <4> SUFFICES ASSUME NEW q \in Accesses, Uses(q, n) PROVE FALSE
        OBVIOUS
      <4>1. proc[q].b = b
        BY <1>e, <2>3, BioAssumption, SMTT(30) DEF OneBuffer, Uses, Buf
      <4>2. buf[b].lock = q
        BY <4>1, SMTT(30) DEF LockInv, Uses, Using, Holding
      <4>3. QED
        BY <1>2, <4>2, BioAssumption
    <3>3. HolderOf(n) = NoAccess /\ HolderOf(n)' = p
      BY <3>1, <3>2 DEF StoreFacts
    <3>4. ValueOf(n)' = ValueOf(n)
      BY <1>0, <2>1, ValueSame
    <3>5. QED
      BY <3>3, <3>4, StoreAcquire
  <2>4. CASE ~(buf[b].valid /\ buf[b].blockno = n)
    <3>1. Uses(p, n)' <=> Uses(p, n)
      BY <1>0, <1>2, <1>b, <2>4 DEF Moves, Changes, Uses, Using, Buf
    <3>2. QED
      BY <1>0, <2>1, <2>2, <3>1, QuietStep
  <2>5. QED
    BY <2>3, <2>4
<1>3. QED
  BY <1>1, <1>2, <1>b, AcquireSteps

(* bread() without a valid buffer: the value comes from the disk.          *)
LEMMA ReadStore ==
  ASSUME IInv, StoreFacts, StoreFacts', NEW p \in Accesses, bread(p), NEW n \in Blocks
  PROVE  Store(n)!Next \/ UNCHANGED Store(n)!vars
<1> USE DEF IInv
<1>e. \A q \in Accesses : proc[q].b \in Bufs
  BY EntryFacts
<1>b. PICK b \in Bufs : b = proc[p].b
  BY <1>e
<1>0. /\ UNCHANGED <<lru, media, logged>> /\ proc[p].pc = "read"
      /\ Moves(p, "have", b, proc[p].state)
      /\ Changes(b, buf[b].blockno, TRUE, buf[b].refcnt, media[buf[b].blockno], buf[b].lock)
  BY <1>b, ReadSteps
<1>h. \A q \in Accesses \ {p} : proc[q].pc \in {"read", "have", "write"} => proc[q].b # b
  BY <1>0, <1>b, OnlyHolder DEF Holding
<1>1. \A q \in Accesses \ {p} : Uses(q, n)' <=> Uses(q, n)
  BY <1>0, <1>e, SMTT(30) DEF Moves, Changes, Uses, Using, Buf
<1>2. CASE buf[b].blockno = n
  <2>1. \A c \in Bufs : ~Holds(c, n)
    BY <1>0, <1>2, <1>b, BioAssumption DEF OneBuffer, UserInv, User, Holds, Buf
  <2>2. Holds(b, n)' /\ buf'[b].data = media[n]
    BY <1>0, <1>2 DEF Changes, Holds
  <2>3. ValueOf(n)' = ValueOf(n)
    BY <2>1, <2>2 DEF StoreFacts
  <2>4. Uses(p, n)'
    BY <1>0, <1>2, <1>b DEF Moves, Changes, Uses, Using, Buf
  <2>5. \A q \in Accesses : ~Uses(q, n)
    <3> SUFFICES ASSUME NEW q \in Accesses, Uses(q, n) PROVE FALSE
      OBVIOUS
    <3>1. buf[proc[q].b].blockno = n /\ n # NoBlock
      BY BioAssumption DEF Uses, Buf
    <3>2. proc[q].b = b
      BY <1>2, <1>e, <3>1 DEF OneBuffer
    <3>3. proc[q].pc \in {"have", "write"}
      BY DEF Uses, Using
    <3>4. q # p
      BY <1>0, <3>3
    <3>5. QED
      BY <1>h, <3>2, <3>3, <3>4
  <2>6. HolderOf(n) = NoAccess /\ HolderOf(n)' = p
    BY <2>4, <2>5 DEF StoreFacts
  <2>7. QED
    BY <2>3, <2>6, StoreAcquire
<1>3. CASE buf[b].blockno # n
  <2>1. \A c \in Bufs : (Holds(c, n)' <=> Holds(c, n)) /\ (Holds(c, n) => buf'[c].data = buf[c].data)
    BY <1>0, <1>3 DEF Changes, Holds
  <2>2. Uses(p, n)' <=> Uses(p, n)
    BY <1>0, <1>3, <1>b DEF Moves, Changes, Uses, Using, Buf
  <2>3. QED
    BY <1>0, <1>1, <2>1, <2>2, QuietStep
<1>4. QED
  BY <1>2, <1>3

(* The holder changes the block, ...                                       *)
LEMMA ModifyStore ==
  ASSUME IInv, StoreFacts, StoreFacts', NEW p \in Accesses, NEW v \in Values, modify(p, v),
         NEW n \in Blocks
  PROVE  Store(n)!Next \/ UNCHANGED Store(n)!vars
<1> USE DEF IInv
<1>e. \A q \in Accesses : proc[q].b \in Bufs
  BY EntryFacts
<1>b. PICK b \in Bufs : b = proc[p].b
  BY <1>e
<1>0. /\ UNCHANGED <<lru, media, logged>> /\ proc[p].pc = "have"
      /\ Moves(p, "have", b, "dirty")
      /\ Changes(b, buf[b].blockno, buf[b].valid, buf[b].refcnt, v, buf[b].lock)
  BY <1>b, ModifySteps
<1>1. \A q \in Accesses : Uses(q, n)' <=> Uses(q, n)
  BY <1>0, <1>b, <1>e, SMTT(30) DEF Moves, Changes, Uses, Using, Buf
<1>2. HolderOf(n)' = HolderOf(n)
  BY <1>1, HolderSame
<1>3. CASE buf[b].blockno = n
  <2>1. Holds(b, n)' /\ buf'[b].data = v
    BY <1>0, <1>3, <1>b DEF UserInv, User, Using, Changes, Holds, Buf
  <2>2. ValueOf(n)' = v
    BY <2>1 DEF StoreFacts
  <2>3. Uses(p, n)
    BY <1>0, <1>3, <1>b DEF Uses, Using, Buf
  <2>4. HolderOf(n) = p
    BY <2>3 DEF StoreFacts
  <2>5. QED
    BY <1>2, <2>2, <2>4, StoreWrite
<1>4. CASE buf[b].blockno # n
  <2>1. \A c \in Bufs : (Holds(c, n)' <=> Holds(c, n)) /\ (Holds(c, n) => buf'[c].data = buf[c].data)
    BY <1>0, <1>4 DEF Changes, Holds
  <2>2. QED
    BY <1>0, <1>1, <2>1, QuietStep
<1>5. QED
  BY <1>3, <1>4

(* ... writes it to the disk, which changes no value, ...                  *)
LEMMA WriteDoneStore ==
  ASSUME IInv, StoreFacts, StoreFacts', NEW p \in Accesses, bwrite_done(p), NEW n \in Blocks
  PROVE  Store(n)!Next \/ UNCHANGED Store(n)!vars
<1> USE DEF IInv
<1>e. \A q \in Accesses : proc[q].b \in Bufs
  BY EntryFacts
<1>b. PICK b \in Bufs : b = proc[p].b
  BY <1>e
<1>0. /\ UNCHANGED <<lru, buf, logged>> /\ proc[p].pc = "write"
      /\ Moves(p, "have", b, "written")
      /\ media' = [media EXCEPT ![buf[b].blockno] = buf[b].data]
  BY <1>b, WriteDoneSteps
<1>1. \A q \in Accesses : Uses(q, n)' <=> Uses(q, n)
  BY <1>0, <1>b, <1>e DEF Moves, Uses, Using, Buf
<1>2. \A c \in Bufs : (Holds(c, n)' <=> Holds(c, n)) /\ buf'[c].data = buf[c].data
  BY <1>0 DEF Holds
<1>3. media'[n] = media[n] \/ \E c \in Bufs : Holds(c, n)
  <2>1. CASE buf[b].blockno = n
    BY <1>0, <1>b, <2>1 DEF UserInv, User, Using, Holds, Buf
  <2>2. CASE buf[b].blockno # n
    BY <1>0, <2>2 DEF TypeOK
  <2>3. QED
    BY <2>1, <2>2
<1>4. QED
  BY <1>1, <1>2, <1>3, QuietStep

(* ... and gives it back.                                                  *)
LEMMA ReleaseStore ==
  ASSUME IInv, StoreFacts, StoreFacts', NEW p \in Accesses, releasesleep(p), NEW n \in Blocks
  PROVE  Store(n)!Next \/ UNCHANGED Store(n)!vars
<1> USE DEF IInv
<1>e. \A q \in Accesses : proc[q].b \in Bufs
  BY EntryFacts
<1>b. PICK b \in Bufs : b = proc[p].b
  BY <1>e
<1>0. /\ UNCHANGED <<lru, media, logged>> /\ proc[p].pc = "have"
      /\ proc'[p].pc = "released"
      /\ \A q \in Accesses : proc'[q].b = proc[q].b
      /\ \A q \in Accesses \ {p} :
           proc'[q].pc = IF proc[q].pc = "asleep" /\ proc[q].b = b THEN "lock" ELSE proc[q].pc
      /\ Changes(b, buf[b].blockno, buf[b].valid, buf[b].refcnt, buf[b].data, NoAccess)
  BY <1>b, ReleaseSteps
<1>h. \A q \in Accesses \ {p} : proc[q].pc \in {"read", "have", "write"} => proc[q].b # b
  BY <1>0, <1>b, OnlyHolder DEF Holding
<1>1. \A c \in Bufs : (Holds(c, n)' <=> Holds(c, n)) /\ buf'[c].data = buf[c].data
  BY <1>0 DEF Changes, Holds
<1>2. \A q \in Accesses \ {p} : Uses(q, n)' <=> Uses(q, n)
  BY <1>0, <1>e, SMTT(30) DEF Changes, Uses, Using, Buf
<1>3. ~Uses(p, n)'
  BY <1>0 DEF Uses, Using
<1>4. CASE buf[b].blockno = n
  <2>1. Uses(p, n)
    BY <1>0, <1>4, <1>b DEF Uses, Using, Buf
  <2>2. \A q \in Accesses \ {p} : ~Uses(q, n)
    BY <1>4, <1>b, <1>e, <1>h, BioAssumption, SMTT(30) DEF OneBuffer, Uses, Using, Buf
  <2>3. HolderOf(n) = p /\ HolderOf(n)' = NoAccess
    BY <1>2, <1>3, <2>1, <2>2 DEF StoreFacts
  <2>4. ValueOf(n)' = ValueOf(n)
    BY <1>0, <1>1, ValueSame
  <2>5. QED
    BY <2>3, <2>4, StoreRelease
<1>5. CASE buf[b].blockno # n
  <2>1. ~Uses(p, n)
    BY <1>5, <1>b DEF Uses, Buf
  <2>2. QED
    BY <1>0, <1>1, <1>2, <1>3, <2>1, QuietStep
<1>6. QED
  BY <1>4, <1>5

(* Pins, the counting in brelse(), a call of bwrite() and kill() do not    *)
(* show.                                                                   *)
LEMMA QuietStore ==
  ASSUME IInv, StoreFacts, StoreFacts', NEW p \in Accesses, NEW n \in Blocks,
         bpin(p) \/ bunpin(p) \/ brelse(p) \/ bwrite(p) \/ kill(p)
  PROVE  Store(n)!Next \/ UNCHANGED Store(n)!vars
<1> USE DEF IInv
<1>e. \A q \in Accesses : proc[q].b \in Bufs
  BY EntryFacts
<1>b. PICK b \in Bufs : b = proc[p].b
  BY <1>e
<1>0. /\ UNCHANGED media
      /\ \A c \in Bufs : /\ buf'[c].blockno = buf[c].blockno /\ buf'[c].valid = buf[c].valid
                         /\ buf'[c].data = buf[c].data
      /\ \A q \in Accesses : /\ Using(q)' <=> Using(q)
                             /\ Using(q) => proc'[q].b = proc[q].b
  <2>1. CASE bpin(p)
    BY <1>b, <2>1, PinSteps DEF Moves, Changes, Using
  <2>2. CASE bunpin(p)
    BY <1>b, <2>2, UnpinSteps DEF Changes, Using
  <2>3. CASE brelse(p)
    BY <1>b, <2>3, RelseSteps DEF Moves, Changes, Using
  <2>4. CASE bwrite(p) \/ kill(p)
    BY <2>4, GotoSteps DEF Moves, Using
  <2>5. QED
    BY <2>1, <2>2, <2>3, <2>4
<1>1. \A c \in Bufs : (Holds(c, n)' <=> Holds(c, n)) /\ buf'[c].data = buf[c].data
  BY <1>0 DEF Holds
<1>2. \A q \in Accesses : Uses(q, n)' <=> Uses(q, n)
  BY <1>0, <1>e DEF Uses, Buf
<1>3. QED
  BY <1>0, <1>1, <1>2, QuietStep

(* Nor does bget(): a buffer is recycled only when the disk has its value. *)
LEMMA GetStore ==
  ASSUME IInv, StoreFacts, StoreFacts', NEW p \in Accesses, NEW m \in Blocks, bget(p, m),
         NEW n \in Blocks
  PROVE  Store(n)!Next \/ UNCHANGED Store(n)!vars
<1> USE DEF IInv
<1>e. \A q \in Accesses : proc[q].b \in Bufs
  BY EntryFacts
<1>0. UNCHANGED <<lru, media, logged>> /\ proc[p].pc = "idle"
  BY GetSteps
<1>1. CASE \E b \in Bufs :
             /\ buf[b].blockno = m /\ Moves(p, "lock", b, "clean")
             /\ Changes(b, m, buf[b].valid, buf[b].refcnt + 1, buf[b].data, buf[b].lock)
  <2>1. \A c \in Bufs : (Holds(c, n)' <=> Holds(c, n)) /\ buf'[c].data = buf[c].data
    BY <1>1 DEF Changes, Holds
  <2>2. \A q \in Accesses : Uses(q, n)' <=> Uses(q, n)
    BY <1>0, <1>1, <1>e, SMTT(30) DEF Moves, Changes, Uses, Using, Buf
  <2>3. QED
    BY <1>0, <2>1, <2>2, QuietStep
<1>2. CASE \E b \in Bufs :
             /\ buf[b].refcnt = 0 /\ \A c \in Bufs : buf[c].blockno # m
             /\ Moves(p, "lock", b, "clean")
             /\ Changes(b, m, FALSE, 1, buf[b].data, buf[b].lock)
  <2>b. PICK b \in Bufs :
             /\ buf[b].refcnt = 0 /\ \A c \in Bufs : buf[c].blockno # m
             /\ Moves(p, "lock", b, "clean")
             /\ Changes(b, m, FALSE, 1, buf[b].data, buf[b].lock)
    BY <1>2
  <2>0. UsersOf(b) = {} /\ buf[b].blockno \notin logged
    <3>1. Cardinality(UsersOf(b)) = 0 /\ Cardinality(PinsOf(b)) = 0
      BY <2>b, Counts, SMTT(30) DEF Refs
    <3>2. QED
      BY <3>1, Counts, FS_EmptySet, SMTT(30)
  <2>u. \A q \in Accesses : Active(q) => proc[q].b # b
    BY <2>0 DEF UsersOf, Active
  <2>1. \A q \in Accesses : Uses(q, n)' <=> Uses(q, n)
    BY <1>0, <1>e, <2>b, <2>u, SMTT(30) DEF Moves, Changes, Uses, Using, Active, Buf
  <2>2. \A c \in Bufs \ {b} : (Holds(c, n)' <=> Holds(c, n)) /\ buf'[c].data = buf[c].data
    BY <2>b DEF Changes, Holds
  <2>3. ~Holds(b, n)'
    BY <2>b DEF Changes, Holds
  <2>4. CASE Holds(b, n)
    <3>1. buf[b].data = media[n]
      <4>1. ~Dirty(b)
        BY <2>u DEF Dirty, Using, Active
      <4>2. QED
        BY <2>0, <2>4, <4>1 DEF DiskInv, Holds
    <3>2. \A c \in Bufs : ~Holds(c, n)'
      BY <2>2, <2>3, <2>4, BioAssumption DEF OneBuffer, Holds
    <3>3. ValueOf(n) = media[n] /\ ValueOf(n)' = media[n]
      BY <1>0, <2>4, <3>1, <3>2 DEF StoreFacts
    <3>4. QED
      BY <2>1, <3>3, HolderSame, StoreSame
  <2>5. CASE ~Holds(b, n)
    BY <1>0, <2>1, <2>2, <2>3, <2>5, QuietStep
  <2>6. QED
    BY <2>4, <2>5
<1>3. CASE Moves(p, "panic", proc[p].b, proc[p].state) /\ UNCHANGED buf
  <2>1. \A c \in Bufs : (Holds(c, n)' <=> Holds(c, n)) /\ buf'[c].data = buf[c].data
    BY <1>3 DEF Holds
  <2>2. \A q \in Accesses : Uses(q, n)' <=> Uses(q, n)
    BY <1>0, <1>3 DEF Moves, Uses, Using, Buf
  <2>3. QED
    BY <1>0, <2>1, <2>2, QuietStep
<1>4. QED
  BY <1>1, <1>2, <1>3, GetSteps

LEMMA StoreStep ==
  ASSUME IInv, IInv', [Next]_vars, NEW n \in Blocks
  PROVE  Store(n)!Next \/ UNCHANGED Store(n)!vars
<1>1. StoreFacts /\ StoreFacts'
  BY StoreState, PTL
<1>2. ASSUME NEW p \in Accesses, Step(p) PROVE Store(n)!Next \/ UNCHANGED Store(n)!vars
  BY <1>1, <1>2, AcquireStore, ReadStore, ModifyStore, WriteDoneStore, ReleaseStore, QuietStore,
     GetStore DEF Step
<1>3. CASE UNCHANGED vars
  <2>1. UNCHANGED <<lru, buf, media, logged, proc>>
    BY <1>3 DEF vars
  <2>2. QED
    BY <1>1, <2>1, QuietStep DEF Uses, Using, Holds, Buf
<1>4. QED
  BY <1>2, <1>3 DEF Next

(* The cache implements a BlockStore for every block (bio.c:1-16): one     *)
(* value, whichever buffer holds the block and however often buffers are   *)
(* recycled, and one user at a time.                                       *)
THEOREM Caching == Spec => CacheIsStore
<1>1. Init => \A n \in Blocks : Store(n)!Init
  BY StoreInit
<1>2. IInv /\ IInv' /\ [Next]_vars => [\A n \in Blocks : Store(n)!Next \/ UNCHANGED Store(n)!vars]_vars
  BY StoreStep
<1>3. QED
  BY <1>1, <1>2, Invariance, PTL DEF Spec, CacheIsStore
=============================================================================
