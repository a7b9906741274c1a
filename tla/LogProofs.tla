----------------------------- MODULE LogProofs ------------------------------
(***************************************************************************)
(* Proofs about Log, for any processes, blocks, log size and crashes: the  *)
(* inductive invariant, and its parts about control and the headers.       *)
(***************************************************************************)
EXTENDS Log, FiniteSetTheorems, TLAPS

USE ZenonT(60), SMTT(30)

-----------------------------------------------------------------------------
(* The inductive invariant, in parts.                                      *)

(* commit() runs alone: no call is in progress beside it.                  *)
Alone ==
  /\ committing = 1 <=> \E p \in Procs : InCommit(p)
  /\ \A p, q \in Procs : InCommit(p) => ~InOp(q) /\ (InCommit(q) => p = q)

(* log.outstanding counts the calls in progress.                           *)
Counted == outstanding = Cardinality(Active)

(* Recovery runs before any other process.                                 *)
BootFirst == boot # "up" => \A p \in Procs : pc[p] = "idle"

(* A process holds a buffer exactly between Modify and log_write, and its  *)
(* sleep-lock keeps others out.                                            *)
Holding ==
  /\ \A p \in Procs : pc[p] = "logging" <=> held[p] # NoBlock
  /\ \A p, q \in Procs : held[p] # NoBlock /\ held[p] = held[q] => p = q

(* The headers in memory and on disk, and the loop variables.              *)
Injective(s) == \A i, j \in 1 .. Len(s) : s[i] = s[j] => i = j

Headers ==
  /\ Len(lh) <= LogBlocks - 1 /\ Injective(lh)
  /\ Len(hdr) <= LogBlocks - 1 /\ Injective(hdr)
  /\ \A p \in Procs : /\ pc[p] \in {"write_log", "install"} => tail[p] < Len(lh)
                      /\ pc[p] = "write_head" => lh # << >>
                      /\ pc[p] = "committed" => lh = << >>
                      /\ pc[p] \in {"install", "clear"} => hdr = lh
  /\ boot = "up" /\ (\A p \in Procs : pc[p] \notin {"install", "clear"}) => hdr = << >>
  /\ boot = "install" => btail < Len(lh)
  /\ boot \in {"install", "clear"} => hdr = lh
  /\ boot = "read_head" => lh = << >>

(* A buffer differs from its home block only while it is held or logged,   *)
(* and then it is cached and cannot be recycled.                           *)
CleanHome ==
  boot = "up" =>
    \A b \in Blocks :
      b \notin Elems(lh) /\ (\A p \in Procs : held[p] # b) => BufData(b) = home[b]

HeldCached == \A p \in Procs : held[p] # NoBlock => cache[held[p]] # NotCached

LoggedCached ==
  boot = "up" =>
    \A i \in 1 .. Len(lh) : ~Installed(i) => cache[lh[i]] # NotCached

BootClean == boot # "up" => \A b \in Blocks : BufData(b) = home[b] /\ pins[b] = 0

Buffers == CleanHome /\ HeldCached /\ LoggedCached /\ BootClean /\ PinnedUntilInstalled

(* How far the log slots and the home blocks have been written.            *)
InSlot(i) == logdata[i] = BufData(lh[i])
AtHome(i) == home[lh[i]] = logdata[i]

Copied ==
  /\ \A p \in Procs :
       /\ pc[p] = "write_log" => \A i \in 1 .. tail[p] : InSlot(i)
       /\ pc[p] \in {"write_head", "install", "clear"} => \A i \in 1 .. Len(lh) : InSlot(i)
       /\ pc[p] = "install" => \A i \in 1 .. tail[p] : AtHome(i)
       /\ pc[p] = "clear" => \A i \in 1 .. Len(lh) : AtHome(i)
  /\ boot = "install" => \A i \in 1 .. btail : AtHome(i)
  /\ boot = "clear" => \A i \in 1 .. Len(lh) : AtHome(i)

IInv ==
  /\ TypeOK
  /\ Alone
  /\ Counted
  /\ BootFirst
  /\ Holding
  /\ Headers
  /\ Buffers
  /\ Copied

-----------------------------------------------------------------------------
(* Every step keeps the types: the loops stay inside the header.           *)
LEMMA TypeStep == IInv /\ [Next]_vars => TypeOK'
<1> SUFFICES ASSUME IInv, [Next]_vars PROVE TypeOK'
  OBVIOUS
<1> USE ConstantsAssumption DEF IInv, TypeOK, opVars, logVars, diskVars, bootVars
<1>1. ASSUME NEW p \in Procs, begin_op(p) PROVE TypeOK'
  <2>1. CASE committing = 1 \/ LogIsFull
    BY <1>1, <2>1 DEF begin_op, PCs
  <2>2. CASE ~(committing = 1 \/ LogIsFull)
    <3>1. outstanding' \in Int
      BY <1>1, <2>2, SMTT(30) DEF begin_op
    <3>2. pc' \in [Procs -> PCs]
      BY <1>1, <2>2 DEF begin_op, PCs
    <3> QED
      BY <1>1, <3>1, <3>2 DEF begin_op
  <2> QED
    BY <2>1, <2>2
<1>2. ASSUME NEW p \in Procs, log_write(p) PROVE TypeOK'
  <2>1. held[p] \in Blocks
    BY <1>2 DEF log_write, Holding
  <2>2. CASE held[p] \in Elems(lh)
    BY <1>2, <2>1, <2>2 DEF log_write, PCs
  <2>3. CASE held[p] \notin Elems(lh)
    <3>1. lh' = Append(lh, held[p]) /\ pins' = [pins EXCEPT ![held[p]] = pins[held[p]] + 1]
      BY <1>2, <2>3 DEF log_write
    <3>2. lh' \in Seq(Blocks)
      BY <2>1, <3>1, SMTT(30)
    <3>3. pins' \in [Blocks -> Int]
      BY <2>1, <3>1, SMTT(30)
    <3>4. wrote' \in [Procs -> SUBSET Blocks] /\ pc' \in [Procs -> PCs]
      BY <1>2, <2>1 DEF log_write, PCs
    <3> QED
      BY <1>2, <3>2, <3>3, <3>4 DEF log_write
  <2> QED
    BY <2>2, <2>3
<1>3. ASSUME NEW p \in Procs, end_op(p) PROVE TypeOK'
  <2>1. CASE outstanding' = 0
    <3>1. pc' \in [Procs -> PCs]
      BY <1>3, <2>1 DEF end_op, PCs
    <3> QED
      BY <1>3, <2>1, <3>1, SMTT(30) DEF end_op
  <2>2. CASE outstanding' # 0
    BY <1>3, <2>2, SMTT(30) DEF end_op, PCs, Wakeup
  <2> QED
    BY <2>1, <2>2
<1>4. ASSUME NEW p \in Procs, write_log(p) PROVE TypeOK'
  <2> DEFINE i == tail[p] + 1
             b == lh[i]
  <2>1. b \in Blocks /\ BufData(b) \in Vals
    BY <1>4, SMTT(30) DEF write_log, Headers, BufData
  <2>2. /\ cache' \in [Blocks -> Vals \cup {NotCached}]
        /\ logdata' \in [LogSlots -> Vals]
    BY <1>4, <2>1 DEF write_log
  <2>3. pc' \in [Procs -> PCs] /\ tail' \in [Procs -> Nat]
    BY <1>4, SMTT(30) DEF write_log, PCs
  <2> QED
    BY <1>4, <2>2, <2>3 DEF write_log
<1>5. ASSUME NEW p \in Procs, write_head(p) PROVE TypeOK'
  BY <1>5 DEF write_head, PCs
<1>6. ASSUME NEW p \in Procs, install_trans(p) PROVE TypeOK'
  BY <1>6, SMTT(30) DEF install_trans, PCs, Headers, LogSlots
<1>7. ASSUME NEW p \in Procs, clear_head(p) PROVE TypeOK'
  BY <1>7, SMTT(30) DEF clear_head, PCs
<1>8. ASSUME NEW p \in Procs, end_commit(p) PROVE TypeOK'
  BY <1>8 DEF end_commit, PCs, Wakeup
<1>9. ASSUME NEW p \in Procs, NEW b \in Blocks, NEW v \in Vals, Modify(p, b, v) PROVE TypeOK'
  BY <1>9 DEF Modify, PCs
<1>10. ASSUME NEW b \in Blocks, bread(b) PROVE TypeOK'
  BY <1>10 DEF bread
<1>11. ASSUME NEW b \in Blocks, Recycle(b) PROVE TypeOK'
  BY <1>11 DEF Recycle
<1>12. CASE read_head
  BY <1>12 DEF read_head
<1>13. CASE recover_install
  BY <1>13, SMTT(30) DEF recover_install, Headers, LogSlots
<1>14. CASE recover_clear
  BY <1>14, SMTT(30) DEF recover_clear
<1>15. CASE Crash
  <2>1. logdata' = logdata \/ \E k : \E v \in Vals : logdata' = [logdata EXCEPT ![k] = v]
    BY <1>15, SMTT(30) DEF Crash, TornLogdata
  <2>2. home' = home \/ \E b : \E v \in Vals : home' = [home EXCEPT ![b] = v]
    BY <1>15, SMTT(30) DEF Crash, TornHome
  <2>3. logdata' \in [LogSlots -> Vals]
    BY <2>1
  <2>4. home' \in [Blocks -> Vals]
    BY <2>2
  <2> QED
    BY <1>15, <2>3, <2>4, SMTT(30) DEF Crash, PCs
<1>16. CASE UNCHANGED vars
  BY <1>16 DEF vars
<1> HIDE DEF IInv, TypeOK, opVars, logVars, diskVars, bootVars
<1> QED
  BY <1>1, <1>2, <1>3, <1>4, <1>5, <1>6, <1>7, <1>8, <1>9, <1>10, <1>11, <1>12,
     <1>13, <1>14, <1>15, <1>16 DEF Next, CommitStep, Recover

(* The set of calls in progress is finite, and p is alone in it when       *)
(* log.outstanding is 1.                                                   *)
LEMMA ActiveFacts ==
  ASSUME IInv
  PROVE  /\ IsFiniteSet(Active)
         /\ Cardinality(Active) \in Nat
         /\ \A p \in Active : outstanding = 1 => Active = {p}
<1>1. IsFiniteSet(Active)
  BY ConstantsAssumption, FS_Subset, Active \in SUBSET Procs DEF Active
<1>2. Cardinality(Active) = 1 => \E x : Active = {x}
  BY <1>1, FS_Singleton
<1> QED
  BY <1>1, <1>2, FS_CardinalityType DEF IInv, Counted

(* Every step keeps log.outstanding equal to the number of calls.          *)
LEMMA CountedStep == IInv /\ [Next]_vars => Counted'
<1> SUFFICES ASSUME IInv, [Next]_vars PROVE Counted'
  OBVIOUS
<1> USE ActiveFacts DEF IInv, TypeOK, Counted, opVars, logVars, diskVars, bootVars
<1>1. ASSUME NEW p \in Procs, begin_op(p) PROVE Counted'
  <2>1. CASE committing = 1 \/ LogIsFull
    <3>1. Active' = Active
      BY <1>1, <2>1 DEF begin_op, Active, InOp
    <3> QED
      BY <1>1, <2>1, <3>1 DEF begin_op
  <2>2. CASE ~(committing = 1 \/ LogIsFull)
    <3>1. Active' = Active \cup {p} /\ p \notin Active
      BY <1>1, <2>2 DEF begin_op, Active, InOp
    <3> QED
      BY <1>1, <2>2, <3>1, FS_AddElement DEF begin_op
  <2> QED
    BY <2>1, <2>2
<1>2. ASSUME NEW p \in Procs, end_op(p) PROVE Counted'
  <2>1. Active' = Active \ {p} /\ p \in Active
    <3>1. CASE outstanding' = 0
      BY <1>2, <3>1 DEF end_op, Active, InOp
    <3>2. CASE outstanding' # 0
      BY <1>2, <3>2 DEF end_op, Active, InOp, Wakeup
    <3> QED
      BY <3>1, <3>2
  <2> QED
    BY <1>2, <2>1, FS_RemoveElement DEF end_op
<1>3. CASE Crash
  <2>1. Active' = {}
    BY <1>3 DEF Crash, Active, InOp
  <2> QED
    BY <1>3, <2>1, FS_EmptySet DEF Crash
<1>4. ASSUME NEW p \in Procs, log_write(p) \/ CommitStep(p) PROVE Counted'
  <2>1. Active' = Active /\ outstanding' = outstanding
    BY <1>4 DEF log_write, CommitStep, write_log, write_head, install_trans,
                clear_head, end_commit, Wakeup, Active, InOp
  <2> QED
    BY <2>1
<1>5. ASSUME NEW p \in Procs, NEW b \in Blocks, NEW v \in Vals, Modify(p, b, v)
      PROVE  Counted'
  <2>1. Active' = Active /\ outstanding' = outstanding
    BY <1>5 DEF Modify, Active, InOp
  <2> QED
    BY <2>1
<1>6. CASE UNCHANGED <<pc, outstanding>>
  <2>1. Active' = Active
    BY <1>6 DEF Active, InOp
  <2> QED
    BY <1>6, <2>1
<1> QED
  BY <1>1, <1>2, <1>3, <1>4, <1>5, <1>6
  DEF Next, Recover, bread, Recycle, read_head, recover_install, recover_clear, vars

(* Every step keeps commit() alone.                                        *)
LEMMA AloneStep == IInv /\ [Next]_vars => Alone'
<1> SUFFICES ASSUME IInv, [Next]_vars PROVE Alone'
  OBVIOUS
<1> USE ConstantsAssumption DEF IInv, TypeOK, Alone, BootFirst, InOp, InCommit, opVars, logVars, diskVars, bootVars
<1>1. ASSUME NEW p \in Procs, begin_op(p) PROVE Alone'
  BY <1>1, SMTT(30) DEF begin_op
<1>2. ASSUME NEW p \in Procs, log_write(p) PROVE Alone'
  BY <1>2 DEF log_write
<1>3. ASSUME NEW p \in Procs, end_op(p) PROVE Alone'
  <2>1. CASE outstanding' = 0
    <3>1. Active = {p}
      BY <1>3, <2>1, ActiveFacts, SMTT(30) DEF end_op, Active
    <3>2. \A q \in Procs \ {p} : ~InOp(q) /\ ~InCommit(q)
      BY <1>3, <3>1 DEF end_op, Active
    <3>3. committing' = 1 /\ InCommit(p)' /\ \A q \in Procs \ {p} : pc'[q] = pc[q]
      BY <1>3, <2>1 DEF end_op
    <3> QED
      BY <3>2, <3>3
  <2>2. CASE outstanding' # 0
    <3>1. committing' = 0 /\ \A q \in Procs : ~InCommit(q)
      BY <1>3, <2>2 DEF end_op
    <3>2. pc' = Wakeup(p, "idle")
      BY <1>3, <2>2 DEF end_op
    <3>3. \A q \in Procs : ~InCommit(q)'
      BY <3>1, <3>2 DEF Wakeup
    <3> QED
      BY <3>1, <3>3
  <2> QED
    BY <2>1, <2>2
<1>4. ASSUME NEW p \in Procs, write_log(p) PROVE Alone'
  BY <1>4, SMTT(30) DEF write_log
<1>5. ASSUME NEW p \in Procs, write_head(p) PROVE Alone'
  BY <1>5, SMTT(30) DEF write_head
<1>6. ASSUME NEW p \in Procs, install_trans(p) PROVE Alone'
  BY <1>6, SMTT(30) DEF install_trans
<1>7. ASSUME NEW p \in Procs, clear_head(p) PROVE Alone'
  BY <1>7 DEF clear_head
<1>8. ASSUME NEW p \in Procs, end_commit(p) PROVE Alone'
  BY <1>8, SMTT(30) DEF end_commit, Wakeup
<1>9. ASSUME NEW p \in Procs, NEW b \in Blocks, NEW v \in Vals, Modify(p, b, v) PROVE Alone'
  BY <1>9 DEF Modify
<1>10. ASSUME NEW b \in Blocks, bread(b) PROVE Alone'
  BY <1>10 DEF bread
<1>11. ASSUME NEW b \in Blocks, Recycle(b) PROVE Alone'
  BY <1>11 DEF Recycle
<1>12. CASE read_head
  BY <1>12 DEF read_head
<1>13. CASE recover_install
  BY <1>13 DEF recover_install
<1>14. CASE recover_clear
  BY <1>14 DEF recover_clear
<1>15. CASE Crash
  BY <1>15, SMTT(30) DEF Crash
<1>16. CASE UNCHANGED vars
  BY <1>16 DEF vars
<1> HIDE DEF IInv, TypeOK, Alone, BootFirst, InOp, InCommit, opVars, logVars, diskVars, bootVars
<1> QED
  BY <1>1, <1>2, <1>3, <1>4, <1>5, <1>6, <1>7, <1>8, <1>9, <1>10, <1>11, <1>12,
     <1>13, <1>14, <1>15, <1>16 DEF Next, CommitStep, Recover

(* Every step keeps recovery ahead of the other processes.                 *)
LEMMA BootStep == IInv /\ [Next]_vars => BootFirst'
<1> SUFFICES ASSUME IInv, [Next]_vars PROVE BootFirst'
  OBVIOUS
<1> USE ConstantsAssumption DEF IInv, TypeOK, BootFirst, opVars, logVars, diskVars, bootVars
<1>1. ASSUME NEW p \in Procs, begin_op(p) PROVE BootFirst'
  BY <1>1 DEF begin_op
<1>2. ASSUME NEW p \in Procs, log_write(p) PROVE BootFirst'
  BY <1>2 DEF log_write
<1>3. ASSUME NEW p \in Procs, end_op(p) PROVE BootFirst'
  BY <1>3 DEF end_op
<1>4. ASSUME NEW p \in Procs, write_log(p) PROVE BootFirst'
  BY <1>4 DEF write_log
<1>5. ASSUME NEW p \in Procs, write_head(p) PROVE BootFirst'
  BY <1>5 DEF write_head
<1>6. ASSUME NEW p \in Procs, install_trans(p) PROVE BootFirst'
  BY <1>6 DEF install_trans
<1>7. ASSUME NEW p \in Procs, clear_head(p) PROVE BootFirst'
  BY <1>7 DEF clear_head
<1>8. ASSUME NEW p \in Procs, end_commit(p) PROVE BootFirst'
  BY <1>8 DEF end_commit
<1>9. ASSUME NEW p \in Procs, NEW b \in Blocks, NEW v \in Vals, Modify(p, b, v) PROVE BootFirst'
  BY <1>9 DEF Modify
<1>10. ASSUME NEW b \in Blocks, bread(b) PROVE BootFirst'
  BY <1>10 DEF bread
<1>11. ASSUME NEW b \in Blocks, Recycle(b) PROVE BootFirst'
  BY <1>11 DEF Recycle
<1>12. CASE read_head
  BY <1>12 DEF read_head
<1>13. CASE recover_install
  BY <1>13 DEF recover_install
<1>14. CASE recover_clear
  BY <1>14 DEF recover_clear
<1>15. CASE Crash
  BY <1>15 DEF Crash
<1>16. CASE UNCHANGED vars
  BY <1>16 DEF vars
<1> HIDE DEF IInv, TypeOK, BootFirst, opVars, logVars, diskVars, bootVars
<1> QED
  BY <1>1, <1>2, <1>3, <1>4, <1>5, <1>6, <1>7, <1>8, <1>9, <1>10, <1>11, <1>12,
     <1>13, <1>14, <1>15, <1>16 DEF Next, CommitStep, Recover

(* Every step keeps buffers exclusively held.                              *)
LEMMA HoldingStep == IInv /\ [Next]_vars => Holding'
<1> SUFFICES ASSUME IInv, [Next]_vars PROVE Holding'
  OBVIOUS
<1> USE ConstantsAssumption DEF IInv, TypeOK, Holding, BootFirst, opVars, logVars, diskVars, bootVars
<1>1. ASSUME NEW p \in Procs, begin_op(p) PROVE Holding'
  BY <1>1 DEF begin_op
<1>2. ASSUME NEW p \in Procs, log_write(p) PROVE Holding'
  BY <1>2 DEF log_write
<1>3. ASSUME NEW p \in Procs, end_op(p) PROVE Holding'
  BY <1>3 DEF end_op, Wakeup
<1>4. ASSUME NEW p \in Procs, write_log(p) PROVE Holding'
  BY <1>4 DEF write_log
<1>5. ASSUME NEW p \in Procs, write_head(p) PROVE Holding'
  BY <1>5 DEF write_head
<1>6. ASSUME NEW p \in Procs, install_trans(p) PROVE Holding'
  BY <1>6 DEF install_trans
<1>7. ASSUME NEW p \in Procs, clear_head(p) PROVE Holding'
  BY <1>7 DEF clear_head
<1>8. ASSUME NEW p \in Procs, end_commit(p) PROVE Holding'
  BY <1>8 DEF end_commit, Wakeup
<1>9. ASSUME NEW p \in Procs, NEW b \in Blocks, NEW v \in Vals, Modify(p, b, v) PROVE Holding'
  BY <1>9 DEF Modify
<1>10. ASSUME NEW b \in Blocks, bread(b) PROVE Holding'
  BY <1>10 DEF bread
<1>11. ASSUME NEW b \in Blocks, Recycle(b) PROVE Holding'
  BY <1>11 DEF Recycle
<1>12. CASE read_head
  BY <1>12 DEF read_head
<1>13. CASE recover_install
  BY <1>13 DEF recover_install
<1>14. CASE recover_clear
  BY <1>14 DEF recover_clear
<1>15. CASE Crash
  BY <1>15 DEF Crash
<1>16. CASE UNCHANGED vars
  BY <1>16 DEF vars
<1> HIDE DEF IInv, TypeOK, Holding, BootFirst, opVars, logVars, diskVars, bootVars
<1> QED
  BY <1>1, <1>2, <1>3, <1>4, <1>5, <1>6, <1>7, <1>8, <1>9, <1>10, <1>11, <1>12,
     <1>13, <1>14, <1>15, <1>16 DEF Next, CommitStep, Recover

(* Every step keeps the headers and the loop variables in bounds.          *)
LEMMA HeadersStep == IInv /\ [Next]_vars => Headers'
<1> SUFFICES ASSUME IInv, [Next]_vars PROVE Headers'
  OBVIOUS
<1> USE ConstantsAssumption DEF IInv, TypeOK, Headers, Injective, Alone, BootFirst, InOp, InCommit, opVars, logVars, diskVars, bootVars
<1>1. ASSUME NEW p \in Procs, begin_op(p) PROVE Headers'
  BY <1>1, SMTT(30) DEF begin_op
<1>2. ASSUME NEW p \in Procs, log_write(p) PROVE Headers'
  <2>1. /\ held[p] \in Blocks
        /\ \A q \in Procs : ~InCommit(q)
        /\ \A q \in Procs : pc'[q] \in {"install", "clear"} => FALSE
        /\ hdr = << >>
    BY <1>2, SMTT(30) DEF log_write, Holding
  <2>2. CASE held[p] \in Elems(lh)
    BY <1>2, <2>1, <2>2, SMTT(30) DEF log_write
  <2>3. CASE held[p] \notin Elems(lh)
    <3>1. lh' = Append(lh, held[p])
      BY <1>2, <2>3 DEF log_write
    <3>2. Injective(lh')
      <4> SUFFICES ASSUME NEW i \in 1 .. Len(lh'), NEW j \in 1 .. Len(lh'),
                          lh'[i] = lh'[j]
                   PROVE  i = j
        OBVIOUS
      <4>1. \A k \in 1 .. Len(lh) : lh[k] # held[p]
        BY <2>3 DEF Elems
      <4> QED
        BY <2>1, <3>1, <4>1, SMTT(30)
    <3>3. Len(lh') <= LogBlocks - 1
      BY <1>2, <2>1, <3>1, SMTT(30) DEF log_write, LogHasRoom
    <3> QED
      BY <1>2, <2>1, <3>2, <3>3, SMTT(30) DEF log_write
  <2> QED
    BY <2>2, <2>3
<1>3. ASSUME NEW p \in Procs, end_op(p) PROVE Headers'
  BY <1>3, SMTT(30) DEF end_op, Wakeup
<1>4. ASSUME NEW p \in Procs, write_log(p) PROVE Headers'
  BY <1>4, SMTT(30) DEF write_log
<1>5. ASSUME NEW p \in Procs, write_head(p) PROVE Headers'
  BY <1>5, SMTT(30) DEF write_head
<1>6. ASSUME NEW p \in Procs, install_trans(p) PROVE Headers'
  BY <1>6, SMTT(30) DEF install_trans
<1>7. ASSUME NEW p \in Procs, clear_head(p) PROVE Headers'
  BY <1>7, SMTT(30) DEF clear_head
<1>8. ASSUME NEW p \in Procs, end_commit(p) PROVE Headers'
  BY <1>8, SMTT(30) DEF end_commit, Wakeup
<1>9. ASSUME NEW p \in Procs, NEW b \in Blocks, NEW v \in Vals, Modify(p, b, v) PROVE Headers'
  BY <1>9, SMTT(30) DEF Modify
<1>10. ASSUME NEW b \in Blocks, bread(b) PROVE Headers'
  BY <1>10, SMTT(30) DEF bread
<1>11. ASSUME NEW b \in Blocks, Recycle(b) PROVE Headers'
  BY <1>11, SMTT(30) DEF Recycle
<1>12. CASE read_head
  BY <1>12, SMTT(30) DEF read_head
<1>13. CASE recover_install
  BY <1>13, SMTT(30) DEF recover_install
<1>14. CASE recover_clear
  BY <1>14, SMTT(30) DEF recover_clear
<1>15. CASE Crash
  BY <1>15, SMTT(30) DEF Crash
<1>16. CASE UNCHANGED vars
  BY <1>16, SMTT(30) DEF vars
<1> HIDE DEF IInv, TypeOK, Headers, Injective, Alone, BootFirst, InOp, InCommit, opVars, logVars, diskVars, bootVars
<1> QED
  BY <1>1, <1>2, <1>3, <1>4, <1>5, <1>6, <1>7, <1>8, <1>9, <1>10, <1>11, <1>12,
     <1>13, <1>14, <1>15, <1>16 DEF Next, CommitStep, Recover

-----------------------------------------------------------------------------
(* The rest of the inductive invariant of Log: buffers, pins and the       *)
(* copies in the log area and at home; and the safety theorems.            *)

(* What Append does to a sequence ...                                      *)
LEMMA AppendFacts ==
  ASSUME NEW S, NEW s \in Seq(S), NEW e \in S, NEW t, t = Append(s, e)
  PROVE  /\ t \in Seq(S) /\ Len(t) = Len(s) + 1
         /\ t[Len(s) + 1] = e
         /\ \A i \in 1 .. Len(s) : t[i] = s[i]
         /\ \A i \in 1 .. Len(t) : i \in 1 .. Len(s) \/ i = Len(s) + 1
         /\ 1 .. Len(s) \subseteq 1 .. Len(t) /\ Len(s) + 1 \in 1 .. Len(t)
<1>1. /\ t \in Seq(S) /\ Len(t) = Len(s) + 1
      /\ t[Len(s) + 1] = e
      /\ \A i \in 1 .. Len(s) : t[i] = s[i]
  BY SMTT(30)
<1>2. Len(s) \in Nat
  BY SMTT(30)
<1>3. /\ \A i \in 1 .. Len(t) : i \in 1 .. Len(s) \/ i = Len(s) + 1
      /\ 1 .. Len(s) \subseteq 1 .. Len(t) /\ Len(s) + 1 \in 1 .. Len(t)
  BY <1>1, <1>2, SMTT(30)
<1> QED
  BY <1>1, <1>3

(* ... and to the set of its elements.                                     *)
LEMMA AppendElems ==
  ASSUME NEW S, NEW s \in Seq(S), NEW e \in S
  PROVE  Elems(Append(s, e)) = Elems(s) \cup {e}
<1>1. PICK t : t = Append(s, e)
  OBVIOUS
<1>2. /\ t[Len(s) + 1] = e
      /\ \A i \in 1 .. Len(s) : t[i] = s[i]
      /\ \A i \in 1 .. Len(t) : i \in 1 .. Len(s) \/ i = Len(s) + 1
      /\ 1 .. Len(s) \subseteq 1 .. Len(t) /\ Len(s) + 1 \in 1 .. Len(t)
  BY <1>1, AppendFacts, SMTT(30)
<1>3. Elems(t) \subseteq Elems(s) \cup {e}
  BY <1>2 DEF Elems
<1>4. Elems(s) \cup {e} \subseteq Elems(t)
  BY <1>2 DEF Elems
<1>5. Elems(t) = Elems(s) \cup {e}
  BY <1>3, <1>4
<1> QED
  BY <1>1, <1>5

(* A buffer without pins holds no update that still has to go home.        *)
LEMMA UnpinnedIsInstalled ==
  ASSUME IInv, boot = "up", NEW b \in Blocks, pins[b] = 0
  PROVE  \A i \in 1 .. Len(lh) : ~Installed(i) => lh[i] # b
<1> SUFFICES ASSUME NEW i \in 1 .. Len(lh), ~Installed(i), lh[i] = b PROVE FALSE
  OBVIOUS
<1>1. pins[b] = IF \E j \in 1 .. Len(lh) : lh[j] = b /\ ~Installed(j) THEN 1 ELSE 0
  BY DEF IInv, Buffers, PinnedUntilInstalled
<1>2. \E j \in 1 .. Len(lh) : lh[j] = b /\ ~Installed(j)
  OBVIOUS
<1> QED
  BY <1>1, <1>2, SMTT(30)

(* Every step keeps modified buffers cached and pinned.                    *)
LEMMA BuffersStep == IInv /\ [Next]_vars => Buffers'
<1> SUFFICES ASSUME IInv, [Next]_vars PROVE Buffers'
  OBVIOUS
<1> USE ConstantsAssumption
    DEF IInv, TypeOK, Buffers, opVars, logVars, diskVars, bootVars
(* A step that leaves these variables and Installed alone is harmless.     *)
<1>0. ASSUME UNCHANGED <<held, lh, cache, pins, home, boot>>,
             \A i \in 1 .. Len(lh) : Installed(i)' <=> Installed(i)
      PROVE  Buffers'
  <2>1. CleanHome' /\ BootClean'
    BY <1>0 DEF CleanHome, BootClean, BufData, Elems
  <2>2. HeldCached' /\ LoggedCached'
    BY <1>0 DEF HeldCached, LoggedCached
  <2>3. PinnedUntilInstalled'
    BY <1>0 DEF PinnedUntilInstalled
  <2> QED
    BY <2>1, <2>2, <2>3
<1>1. ASSUME NEW p \in Procs, begin_op(p) PROVE Buffers'
  <2>1. \A i \in 1 .. Len(lh) : Installed(i)' <=> Installed(i)
    BY <1>1 DEF begin_op, Installed
  <2> QED
    BY <1>0, <1>1, <2>1 DEF begin_op
<1>2. ASSUME NEW p \in Procs, log_write(p) PROVE Buffers'
  <2> DEFINE b == held[p]
  <2>1. b \in Blocks /\ cache[b] # NotCached /\ boot = "up"
    BY <1>2 DEF log_write, Holding, HeldCached
  <2>2. \A i \in Nat : ~Installed(i) /\ ~Installed(i)'
    BY <1>2 DEF log_write, Installed, Alone, InOp, InCommit
  <2>3. held' = [held EXCEPT ![p] = NoBlock] /\ UNCHANGED <<cache, home, boot>>
    BY <1>2 DEF log_write
  <2>4. HeldCached' /\ BootClean'
    BY <2>1, <2>3 DEF HeldCached, BootClean
  <2>5. CASE b \in Elems(lh)
    <3>1. UNCHANGED <<lh, pins>>
      BY <1>2, <2>5 DEF log_write
    <3>2. CleanHome'
      <4> SUFFICES ASSUME NEW x \in Blocks, x \notin Elems(lh'),
                          \A q \in Procs : held'[q] # x
                   PROVE  BufData(x)' = home'[x]
        BY DEF CleanHome, Elems
      <4>1. x \notin Elems(lh) /\ \A q \in Procs : held[q] # x
        BY <2>3, <2>5, <3>1
      <4> QED
        BY <2>1, <2>3, <4>1 DEF CleanHome, BufData
    <3>3. LoggedCached' /\ PinnedUntilInstalled'
      BY <2>2, <2>3, <3>1, SMTT(30) DEF LoggedCached, PinnedUntilInstalled
    <3> QED
      BY <2>4, <3>2, <3>3
  <2>6. CASE b \notin Elems(lh)
    <3>1. lh' = Append(lh, b) /\ pins' = [pins EXCEPT ![b] = pins[b] + 1]
      BY <1>2, <2>6 DEF log_write
    <3>2. /\ Len(lh') = Len(lh) + 1 /\ lh'[Len(lh) + 1] = b
          /\ \A i \in 1 .. Len(lh) : lh'[i] = lh[i]
          /\ \A i \in 1 .. Len(lh') : i \in 1 .. Len(lh) \/ i = Len(lh) + 1
          /\ 1 .. Len(lh) \subseteq 1 .. Len(lh') /\ Len(lh) + 1 \in 1 .. Len(lh')
      BY <2>1, <3>1, AppendFacts, SMTT(30)
    <3>3. Elems(lh') = Elems(lh) \cup {b}
      <4>1. \A e \in Blocks : Elems(Append(lh, e)) = Elems(lh) \cup {e}
        BY AppendElems
      <4> QED
        BY <2>1, <3>1, <4>1
    <3>4. CleanHome'
      <4> SUFFICES ASSUME NEW x \in Blocks, x \notin Elems(lh'),
                          \A q \in Procs : held'[q] # x
                   PROVE  BufData(x)' = home'[x]
        BY DEF CleanHome, Elems
      <4>1. x \notin Elems(lh) /\ \A q \in Procs : held[q] # x
        BY <2>3, <3>3
      <4> QED
        BY <2>1, <2>3, <4>1 DEF CleanHome, BufData
    <3>5. LoggedCached'
      <4> SUFFICES ASSUME NEW i \in 1 .. Len(lh') PROVE cache[lh'[i]] # NotCached
        BY <2>3 DEF LoggedCached
      <4>1. CASE i \in 1 .. Len(lh)
        <5>1. cache[lh[i]] # NotCached
          BY <2>1, <2>2, <4>1, SMTT(30) DEF LoggedCached
        <5> QED
          BY <3>2, <4>1, <5>1
      <4>2. CASE i = Len(lh) + 1
        BY <2>1, <3>2, <4>2
      <4> QED
        BY <3>2, <4>1, <4>2
    <3>6. \A i \in 1 .. Len(lh) : lh[i] # b
      BY <2>6 DEF Elems
    <3>7. pins[b] = 0
      BY <2>1, <3>6 DEF PinnedUntilInstalled
    <3>8. PinnedUntilInstalled'
      <4> SUFFICES ASSUME NEW x \in Blocks
                   PROVE  pins'[x] = IF \E i \in 1 .. Len(lh') : lh'[i] = x THEN 1 ELSE 0
        BY <2>2, SMTT(30) DEF PinnedUntilInstalled
      <4>1. CASE x = b
        <5>1. pins'[x] = 1
          BY <2>1, <3>1, <3>7, <4>1, SMTT(30)
        <5>2. \E i \in 1 .. Len(lh') : lh'[i] = x
          BY <3>2, <4>1
        <5> QED
          BY <5>1, <5>2
      <4>2. CASE x # b
        <5>1. (\E i \in 1 .. Len(lh') : lh'[i] = x) <=> (\E i \in 1 .. Len(lh) : lh[i] = x)
          BY <3>2, <4>2
        <5>2. pins'[x] = pins[x]
          BY <3>1, <4>2
        <5>3. pins[x] = IF \E i \in 1 .. Len(lh) : lh[i] = x THEN 1 ELSE 0
          BY <2>1, <2>2, SMTT(30) DEF PinnedUntilInstalled
        <5> QED
          BY <5>1, <5>2, <5>3
      <4> QED
        BY <4>1, <4>2
    <3> QED
      BY <2>4, <3>4, <3>5, <3>8
  <2> QED
    BY <2>5, <2>6
<1>3. ASSUME NEW p \in Procs, end_op(p) PROVE Buffers'
  <2>1. \A i \in 1 .. Len(lh) : Installed(i)' <=> Installed(i)
    <3>1. CASE outstanding' = 0
      <4>1. /\ pc[p] = "op" /\ pc'[p] \in {"committed", "write_log"}
            /\ \A q \in Procs \ {p} : pc'[q] = pc[q] /\ tail'[q] = tail[q]
        BY <1>3, <3>1 DEF end_op
      <4> QED
        BY <4>1 DEF Installed
    <3>2. CASE outstanding' # 0
      <4>1. pc' = Wakeup(p, "idle") /\ tail' = [tail EXCEPT ![p] = 0] /\ pc[p] = "op"
        BY <1>3, <3>2 DEF end_op
      <4> QED
        BY <4>1 DEF Installed, Wakeup
    <3> QED
      BY <3>1, <3>2
  <2> QED
    BY <1>0, <1>3, <2>1 DEF end_op
<1>4. ASSUME NEW p \in Procs, write_log(p) PROVE Buffers'
  <2>1. \A i \in 1 .. Len(lh) : Installed(i)' <=> Installed(i)
    BY <1>4 DEF write_log, Installed
  <2>2. /\ UNCHANGED <<held, lh, pins, home, boot>> /\ boot = "up"
        /\ \A x \in Blocks : BufData(x)' = BufData(x)
        /\ \A x \in Blocks : cache[x] # NotCached => cache'[x] # NotCached
    BY <1>4 DEF write_log, BufData
  <2>3. BootClean'
    BY <2>2 DEF BootClean
  <2>a. CleanHome'
    BY <2>2 DEF CleanHome
  <2>4. HeldCached'
    BY <2>2 DEF HeldCached
  <2>5. LoggedCached'
    BY <2>1, <2>2, SMTT(30) DEF LoggedCached
  <2>6. PinnedUntilInstalled'
    BY <2>1, <2>2 DEF PinnedUntilInstalled
  <2> QED
    BY <2>3, <2>4, <2>5, <2>6, <2>a
<1>5. ASSUME NEW p \in Procs, write_head(p) PROVE Buffers'
  <2>1. \A i \in 1 .. Len(lh) : Installed(i)' <=> Installed(i)
    BY <1>5, SMTT(30) DEF write_head, Installed, Alone, InCommit
  <2> QED
    BY <1>0, <1>5, <2>1 DEF write_head
<1>6. ASSUME NEW p \in Procs, install_trans(p) PROVE Buffers'
  <2> DEFINE k == tail[p] + 1
             b == lh[k]
  <2>1. k \in 1 .. Len(lh) /\ k \in LogSlots /\ b \in Blocks /\ logdata[k] \in Vals
    BY <1>6, SMTT(30) DEF install_trans, Headers, LogSlots
  <2>2. \A i \in 1 .. Len(lh) : Installed(i)' <=> Installed(i) \/ i = k
    BY <1>6, <2>1, SMTT(30) DEF install_trans, Installed, Alone, InCommit
  <2>3. ~Installed(k)
    BY <1>6, <2>1, SMTT(30) DEF install_trans, Installed, Alone, InCommit
  <2>4. /\ UNCHANGED <<held, lh, boot>> /\ boot = "up"
        /\ cache' = [cache EXCEPT ![b] = logdata[k]]
        /\ home' = [home EXCEPT ![b] = logdata[k]]
        /\ pins' = [pins EXCEPT ![b] = pins[b] - 1]
    BY <1>6 DEF install_trans
  <2>5. CleanHome' /\ HeldCached' /\ BootClean'
    BY <2>1, <2>4, SMTT(30) DEF CleanHome, HeldCached, BootClean, BufData, Elems
  <2>6. LoggedCached'
    BY <2>1, <2>2, <2>4, SMTT(30) DEF LoggedCached
  <2>7. PinnedUntilInstalled'
    <3>1. \A i \in 1 .. Len(lh) : lh[i] = b => i = k
      BY <2>1 DEF Headers, Injective
    <3>2. pins[b] = 1
      BY <2>1, <2>3, <2>4 DEF PinnedUntilInstalled
    <3>3. ASSUME NEW x \in Blocks
          PROVE  pins'[x] = IF \E i \in 1 .. Len(lh) : lh[i] = x /\ ~Installed(i)' THEN 1 ELSE 0
      <4>1. CASE x = b
        BY <2>1, <2>2, <2>4, <3>1, <3>2, <4>1, SMTT(30)
      <4>2. CASE x # b
        <5>1. (\E i \in 1 .. Len(lh) : lh[i] = x /\ ~Installed(i)')
              <=> (\E i \in 1 .. Len(lh) : lh[i] = x /\ ~Installed(i))
          BY <2>2, <4>2
        <5>2. pins'[x] = pins[x]
          BY <2>4, <4>2
        <5> QED
          BY <2>4, <5>1, <5>2 DEF PinnedUntilInstalled
      <4> QED
        BY <4>1, <4>2
    <3> QED
      BY <2>4, <3>3 DEF PinnedUntilInstalled
  <2> QED
    BY <2>5, <2>6, <2>7
<1>7. ASSUME NEW p \in Procs, clear_head(p) PROVE Buffers'
  <2>1. /\ boot = "up" /\ lh' = << >> /\ Len(lh') = 0 /\ Elems(lh') = {}
        /\ UNCHANGED <<held, cache, pins, home, boot>>
    BY <1>7, SMTT(30) DEF clear_head, Elems
  <2>2. \A q \in Procs : held[q] = NoBlock
    BY <1>7 DEF clear_head, Alone, InCommit, InOp, Holding
  <2>3. \A i \in 1 .. Len(lh) : Installed(i) /\ BufData(lh[i]) = home[lh[i]]
    BY <1>7 DEF clear_head, Installed, Copied, InSlot, AtHome
  <2>4. \A x \in Blocks : BufData(x) = home[x] /\ pins[x] = 0
    <3>1. ASSUME NEW x \in Elems(lh) PROVE BufData(x) = home[x]
      <4>1. PICK i \in 1 .. Len(lh) : x = lh[i]
        BY DEF Elems
      <4> QED
        BY <2>3, <4>1
    <3>2. \A x \in Blocks \ Elems(lh) : BufData(x) = home[x]
      BY <2>1, <2>2 DEF CleanHome
    <3>3. \A x \in Blocks : pins[x] = 0
      BY <2>1, <2>3 DEF PinnedUntilInstalled
    <3> QED
      BY <3>1, <3>2, <3>3
  <2> QED
    BY <2>1, <2>4, SMTT(30) DEF CleanHome, HeldCached, LoggedCached, BootClean,
                      PinnedUntilInstalled, BufData
<1>8. ASSUME NEW p \in Procs, end_commit(p) PROVE Buffers'
  <2>1. \A i \in 1 .. Len(lh) : Installed(i)' <=> Installed(i)
    BY <1>8 DEF end_commit, Installed, Wakeup
  <2> QED
    BY <1>0, <1>8, <2>1 DEF end_commit
<1>9. ASSUME NEW p \in Procs, NEW b \in Blocks, NEW v \in Vals, Modify(p, b, v) PROVE Buffers'
  <2>1. \A i \in 1 .. Len(lh) : Installed(i)' <=> Installed(i)
    BY <1>9 DEF Modify, Installed
  <2>2. /\ UNCHANGED <<lh, pins, home, boot>> /\ boot = "up"
        /\ held' = [held EXCEPT ![p] = b]
        /\ cache' = [cache EXCEPT ![b] = v]
        /\ held[p] = NoBlock
    BY <1>9 DEF Modify, Holding
  <2>3. HeldCached' /\ BootClean'
    BY <2>2 DEF HeldCached, BootClean
  <2>4. CleanHome'
    <3> SUFFICES ASSUME NEW x \in Blocks, x \notin Elems(lh'),
                        \A q \in Procs : held'[q] # x
                 PROVE  BufData(x)' = home'[x]
      BY DEF CleanHome, Elems
    <3>1. x # b /\ x \notin Elems(lh) /\ \A q \in Procs : held[q] # x
      BY <2>2
    <3> QED
      BY <2>2, <3>1 DEF CleanHome, BufData
  <2>5. LoggedCached' /\ PinnedUntilInstalled'
    BY <2>1, <2>2, SMTT(30) DEF LoggedCached, PinnedUntilInstalled
  <2> QED
    BY <2>3, <2>4, <2>5
<1>10. ASSUME NEW b \in Blocks, bread(b) PROVE Buffers'
  <2>1. \A i \in 1 .. Len(lh) : Installed(i)' <=> Installed(i)
    BY <1>10 DEF bread, Installed
  <2>2. /\ UNCHANGED <<held, lh, pins, home, boot>> /\ boot = "up"
        /\ \A x \in Blocks : BufData(x)' = BufData(x)
        /\ \A x \in Blocks : cache[x] # NotCached => cache'[x] # NotCached
    BY <1>10 DEF bread, BufData
  <2>3. BootClean'
    BY <2>2 DEF BootClean
  <2>a. CleanHome'
    BY <2>2 DEF CleanHome
  <2>4. HeldCached'
    BY <2>2 DEF HeldCached
  <2>5. LoggedCached'
    BY <2>1, <2>2, SMTT(30) DEF LoggedCached
  <2>6. PinnedUntilInstalled'
    BY <2>1, <2>2 DEF PinnedUntilInstalled
  <2> QED
    BY <2>3, <2>4, <2>5, <2>6, <2>a
<1>11. ASSUME NEW b \in Blocks, Recycle(b) PROVE Buffers'
  <2>1. \A i \in 1 .. Len(lh) : Installed(i)' <=> Installed(i)
    BY <1>11 DEF Recycle, Installed
  <2>2. /\ UNCHANGED <<held, lh, pins, home, boot>> /\ boot = "up"
        /\ pins[b] = 0 /\ \A q \in Procs : held[q] # b
        /\ cache' = [cache EXCEPT ![b] = NotCached]
    BY <1>11 DEF Recycle
  <2>3. \A i \in 1 .. Len(lh) : ~Installed(i) => lh[i] # b
    BY <2>2, UnpinnedIsInstalled
  <2>4. HeldCached' /\ BootClean'
    BY <2>2 DEF HeldCached, BootClean
  <2>5. CleanHome'
    <3> SUFFICES ASSUME NEW x \in Blocks, x \notin Elems(lh'),
                        \A q \in Procs : held'[q] # x
                 PROVE  BufData(x)' = home'[x]
      BY DEF CleanHome, Elems
    <3>1. x \notin Elems(lh) /\ \A q \in Procs : held[q] # x
      BY <2>2
    <3> QED
      BY <2>2, <3>1 DEF CleanHome, BufData
  <2>6. LoggedCached'
    <3>1. \A x \in Blocks \ {b} : cache'[x] = cache[x]
      BY <2>2
    <3>2. \A i \in 1 .. Len(lh) : lh[i] \in Blocks
      BY SMTT(30)
    <3>3. QED
      BY <2>1, <2>2, <2>3, <3>1, <3>2 DEF LoggedCached
  <2>7. PinnedUntilInstalled'
    BY <2>1, <2>2 DEF PinnedUntilInstalled
  <2> QED
    BY <2>4, <2>5, <2>6, <2>7
<1>12. CASE read_head
  BY <1>12 DEF read_head, CleanHome, HeldCached, LoggedCached, BootClean,
               PinnedUntilInstalled, BufData
<1>13. CASE recover_install
  <2>1. \A q \in Procs : held[q] = NoBlock
    BY <1>13 DEF recover_install, BootFirst, Holding
  <2>2. lh[btail + 1] \in Blocks /\ logdata[btail + 1] \in Vals
    BY <1>13, SMTT(30) DEF recover_install, Headers, LogSlots
  <2>3. boot' # "up" /\ UNCHANGED <<held, pins>>
    BY <1>13 DEF recover_install
  <2>4. BootClean'
    BY <1>13, <2>2, <2>3 DEF recover_install, BootClean, BufData
  <2> QED
    BY <2>1, <2>3, <2>4 DEF CleanHome, HeldCached, LoggedCached, PinnedUntilInstalled
<1>14. CASE recover_clear
  <2>1. lh' = << >> /\ Len(lh') = 0 /\ UNCHANGED <<held, cache, pins, home>> /\ boot' = "up"
    BY <1>14 DEF recover_clear
  <2>2. \A x \in Blocks : BufData(x) = home[x] /\ pins[x] = 0
    BY <1>14 DEF recover_clear, BootClean
  <2> QED
    BY <2>1, <2>2, SMTT(30) DEF CleanHome, HeldCached, LoggedCached, BootClean,
                      PinnedUntilInstalled, BufData
<1>15. CASE Crash
  BY <1>15 DEF Crash, CleanHome, HeldCached, LoggedCached, BootClean,
               PinnedUntilInstalled, BufData
<1>16. CASE UNCHANGED vars
  <2>1. \A i \in 1 .. Len(lh) : Installed(i)' <=> Installed(i)
    BY <1>16 DEF vars, Installed
  <2> QED
    BY <1>0, <1>16, <2>1 DEF vars
<1> HIDE DEF IInv, TypeOK, Buffers, opVars, logVars, diskVars, bootVars
<1> QED
  BY <1>1, <1>2, <1>3, <1>4, <1>5, <1>6, <1>7, <1>8, <1>9, <1>10, <1>11, <1>12,
     <1>13, <1>14, <1>15, <1>16 DEF Next, CommitStep, Recover

(* What decides whether a copy is up to date.                              *)
LEMMA CopiesKept ==
  ASSUME UNCHANGED <<lh, home, logdata>>, NEW i, BufData(lh[i])' = BufData(lh[i])
  PROVE  (InSlot(i) => InSlot(i)') /\ (AtHome(i) => AtHome(i)')
  BY DEF InSlot, AtHome

LEMMA ReadKeeps ==
  ASSUME TypeOK, NEW b \in Blocks, bread(b), NEW x \in Blocks
  PROVE  BufData(x)' = BufData(x)
<1>1. /\ cache \in [Blocks -> Vals \cup {NotCached}] /\ home' = home
      /\ cache[b] = NotCached /\ cache' = [cache EXCEPT ![b] = home[b]]
  BY DEF TypeOK, bread, diskVars
<1>2. QED
  BY <1>1 DEF BufData

LEMMA RecycleKeeps ==
  ASSUME TypeOK, NEW b \in Blocks, Recycle(b), NEW x \in Blocks, x = b => BufData(b) = home[b]
  PROVE  BufData(x)' = BufData(x)
<1>1. /\ cache \in [Blocks -> Vals \cup {NotCached}] /\ home' = home
      /\ cache' = [cache EXCEPT ![b] = NotCached]
  BY DEF TypeOK, Recycle, diskVars
<1>2. QED
  BY <1>1 DEF BufData

(* A step that leaves the commit where it was and the copies good.         *)
LEMMA CopiedFrame ==
  ASSUME TypeOK, Headers, Copied, UNCHANGED <<lh, boot, btail>>,
         \A q \in Procs : (pc'[q] = pc[q] /\ tail'[q] = tail[q]) \/ ~InCommit(q)',
         \A i \in 1 .. Len(lh) : (InSlot(i) => InSlot(i)') /\ (AtHome(i) => AtHome(i)')
  PROVE  Copied'
<1>1. /\ lh \in Seq(Blocks) /\ tail \in [Procs -> Nat] /\ btail \in Nat
  BY DEF TypeOK
<1>l. Len(lh) \in Nat
  BY <1>1, SMTT(30)
<1>2. \A q \in Procs : pc[q] \in {"write_log", "install"} => 1 .. tail[q] \subseteq 1 .. Len(lh)
  <2> SUFFICES ASSUME NEW q \in Procs, pc[q] \in {"write_log", "install"}
               PROVE  1 .. tail[q] \subseteq 1 .. Len(lh)
    OBVIOUS
  <2>1. tail[q] \in Nat
    BY <1>1
  <2>2. tail[q] < Len(lh)
    BY DEF Headers
  <2>3. QED
    BY <1>l, <2>1, <2>2, SMTT(30)
<1>3. boot = "install" => 1 .. btail \subseteq 1 .. Len(lh)
  <2>1. boot = "install" => btail < Len(lh)
    BY DEF Headers
  <2>2. QED
    BY <1>1, <1>l, <2>1, SMTT(30)
<1>4. QED
  BY <1>2, <1>3 DEF InCommit, Copied

(* A step after which neither a commit nor recovery is copying.            *)
LEMMA CopiedIdle ==
  ASSUME \A q \in Procs : pc'[q] \notin {"write_log", "write_head", "install", "clear"},
         boot' \notin {"install", "clear"}
  PROVE  Copied'
BY DEF Copied

LEMMA CopiedByWriteLog ==
  ASSUME IInv, NEW p \in Procs, write_log(p)
  PROVE  Copied'
<1> DEFINE k == tail[p] + 1
           b == lh[k]
<1>1. /\ lh \in Seq(Blocks) /\ tail \in [Procs -> Nat] /\ pc \in [Procs -> PCs]
      /\ logdata \in [LogSlots -> Vals] /\ cache \in [Blocks -> Vals \cup {NotCached}]
      /\ LogBlocks \in Nat
  BY ConstantsAssumption DEF IInv, TypeOK
<1>2. /\ UNCHANGED <<lh, home, boot>> /\ boot = "up" /\ pc[p] = "write_log"
      /\ cache' = [cache EXCEPT ![b] = BufData(b)]
      /\ logdata' = [logdata EXCEPT ![k] = BufData(b)]
      /\ tail' = [tail EXCEPT ![p] = k]
      /\ pc' = [pc EXCEPT ![p] = IF k = Len(lh) THEN "write_head" ELSE pc[p]]
  BY DEF write_log, logVars, bootVars
<1>3. Alone /\ Headers /\ Copied
  BY DEF IInv
<1>4. tail[p] \in Nat /\ k \in 1 .. Len(lh) /\ k \in LogSlots /\ b \in Blocks
  BY <1>1, <1>2, <1>3, SMTT(30) DEF Headers, LogSlots
<1>5. \A q \in Procs \ {p} : ~InCommit(q)
  BY <1>2, <1>3 DEF Alone, InCommit
<1>6. \A q \in Procs \ {p} : ~InCommit(q)'
  BY <1>1, <1>2, <1>5 DEF InCommit
<1>7. \A i \in 1 .. tail[p] : logdata[i] = BufData(lh[i])
  BY <1>2, <1>3 DEF Copied, InSlot
<1>8. \A i \in 1 .. k : InSlot(i)'
  <2> SUFFICES ASSUME NEW i \in 1 .. k PROVE InSlot(i)'
    OBVIOUS
  <2>1. i \in 1 .. Len(lh) /\ i \in LogSlots /\ (i = k \/ (i # k /\ i \in 1 .. tail[p]))
    BY <1>1, <1>4, SMTT(30) DEF LogSlots
  <2>2. lh[i] \in Blocks
    BY <1>1, <2>1, SMTT(30)
  <2>3. logdata'[i] = BufData(lh[i])
    <3>1. CASE i = k
      BY <1>1, <1>2, <1>4, <3>1
    <3>2. CASE i # k
      BY <1>1, <1>2, <1>4, <1>7, <2>1, <3>2
    <3>3. QED
      BY <3>1, <3>2
  <2>4. BufData(lh[i])' = BufData(lh[i])
    BY <1>1, <1>2, <1>4, <2>2 DEF BufData
  <2>5. QED
    BY <2>3, <2>4 DEF InSlot
<1>9. /\ tail'[p] = k /\ pc'[p] \in {"write_log", "write_head"}
      /\ pc'[p] = "write_head" => k = Len(lh')
  BY <1>1, <1>2
<1>10. QED
  BY <1>2, <1>6, <1>8, <1>9 DEF Copied, InCommit

LEMMA CopiedByWriteHead ==
  ASSUME IInv, NEW p \in Procs, write_head(p)
  PROVE  Copied'
<1>1. tail \in [Procs -> Nat] /\ pc \in [Procs -> PCs]
  BY DEF IInv, TypeOK
<1>2. /\ UNCHANGED <<lh, cache, home, logdata, boot>> /\ boot = "up" /\ pc[p] = "write_head"
      /\ pc' = [pc EXCEPT ![p] = "install"] /\ tail' = [tail EXCEPT ![p] = 0]
  BY DEF write_head, logVars, bootVars
<1>3. Alone /\ Copied
  BY DEF IInv
<1>4. \A i \in 1 .. Len(lh) : InSlot(i)
  BY <1>2, <1>3 DEF Copied
<1>5. \A i \in 1 .. Len(lh) : InSlot(i)'
  BY <1>2, <1>4 DEF InSlot, BufData
<1>6. \A q \in Procs \ {p} : ~InCommit(q)
  BY <1>2, <1>3 DEF Alone, InCommit
<1>7. \A q \in Procs \ {p} : ~InCommit(q)'
  BY <1>1, <1>2, <1>6 DEF InCommit
<1>8. pc'[p] = "install" /\ tail'[p] = 0
  BY <1>1, <1>2
<1>9. QED
  BY <1>2, <1>5, <1>7, <1>8, SMTT(30) DEF Copied, InCommit

LEMMA CopiedByInstall ==
  ASSUME IInv, NEW p \in Procs, install_trans(p)
  PROVE  Copied'
<1> DEFINE k == tail[p] + 1
           b == lh[k]
<1>1. /\ lh \in Seq(Blocks) /\ tail \in [Procs -> Nat] /\ pc \in [Procs -> PCs]
      /\ logdata \in [LogSlots -> Vals] /\ cache \in [Blocks -> Vals \cup {NotCached}]
      /\ home \in [Blocks -> Vals] /\ LogBlocks \in Nat /\ NotCached \notin Vals
  BY ConstantsAssumption DEF IInv, TypeOK
<1>2. /\ UNCHANGED <<lh, logdata, boot>> /\ boot = "up" /\ pc[p] = "install"
      /\ cache' = [cache EXCEPT ![b] = logdata[k]]
      /\ home' = [home EXCEPT ![b] = logdata[k]]
      /\ tail' = [tail EXCEPT ![p] = k]
      /\ pc' = [pc EXCEPT ![p] = IF k = Len(lh) THEN "clear" ELSE pc[p]]
  BY DEF install_trans, logVars, bootVars
<1>3. Alone /\ Headers /\ Copied
  BY DEF IInv
<1>4. /\ tail[p] \in Nat /\ k \in 1 .. Len(lh) /\ b \in Blocks /\ logdata[k] \in Vals
  BY <1>1, <1>2, <1>3, SMTT(30) DEF Headers, LogSlots
<1>5. \A q \in Procs \ {p} : ~InCommit(q)
  BY <1>2, <1>3 DEF Alone, InCommit
<1>6. \A q \in Procs \ {p} : ~InCommit(q)'
  BY <1>1, <1>2, <1>5 DEF InCommit
<1>7. /\ \A i \in 1 .. Len(lh) : InSlot(i)
      /\ \A i \in 1 .. tail[p] : AtHome(i)
  BY <1>2, <1>3 DEF Copied
<1>8. \A i \in 1 .. Len(lh) : lh[i] \in Blocks /\ (lh[i] = b => i = k)
  BY <1>1, <1>3, <1>4, SMTT(30) DEF Headers, Injective
<1>9. ASSUME NEW i \in 1 .. Len(lh), i # k
      PROVE  home'[lh[i]] = home[lh[i]] /\ cache'[lh[i]] = cache[lh[i]]
  BY <1>1, <1>2, <1>4, <1>8, <1>9
<1>10. home'[b] = logdata[k] /\ cache'[b] = logdata[k]
  BY <1>1, <1>2, <1>4
<1>11. \A i \in 1 .. Len(lh) : InSlot(i)'
  <2> SUFFICES ASSUME NEW i \in 1 .. Len(lh) PROVE InSlot(i)'
    OBVIOUS
  <2>1. CASE i = k
    BY <1>1, <1>2, <1>4, <1>10, <2>1 DEF InSlot, BufData
  <2>2. CASE i # k
    BY <1>2, <1>7, <1>9, <2>2 DEF InSlot, BufData
  <2>3. QED
    BY <2>1, <2>2
<1>12. \A i \in 1 .. k : AtHome(i)'
  <2> SUFFICES ASSUME NEW i \in 1 .. k PROVE AtHome(i)'
    OBVIOUS
  <2>1. CASE i = k
    BY <1>2, <1>10, <2>1 DEF AtHome
  <2>2. CASE i # k
    <3>1. i \in 1 .. tail[p] /\ i \in 1 .. Len(lh)
      BY <1>4, <2>2, SMTT(30)
    <3>2. QED
      BY <1>2, <1>7, <1>9, <2>2, <3>1 DEF AtHome
  <2>3. QED
    BY <2>1, <2>2
<1>13. /\ tail'[p] = k /\ pc'[p] \in {"install", "clear"}
       /\ pc'[p] = "clear" => k = Len(lh')
  BY <1>1, <1>2
<1>14. QED
  BY <1>2, <1>6, <1>11, <1>12, <1>13 DEF Copied, InCommit

LEMMA CopiedByRecovery ==
  ASSUME IInv, recover_install
  PROVE  Copied'
<1> DEFINE k == btail + 1
           b == lh[k]
<1>1. /\ lh \in Seq(Blocks) /\ btail \in Nat /\ home \in [Blocks -> Vals]
  BY DEF IInv, TypeOK
<1>2. /\ UNCHANGED <<pc, lh, logdata>> /\ boot = "install" /\ btail' = k
      /\ home' = [home EXCEPT ![b] = logdata[k]]
      /\ boot' = IF k = Len(lh) THEN "clear" ELSE "install"
  BY DEF recover_install, opVars, logVars
<1>3. Headers /\ Copied /\ BootFirst
  BY DEF IInv
<1>4. k \in 1 .. Len(lh) /\ b \in Blocks
  BY <1>1, <1>2, <1>3, SMTT(30) DEF Headers
<1>5. \A q \in Procs : pc'[q] = "idle"
  BY <1>2, <1>3 DEF BootFirst
<1>6. \A i \in 1 .. btail : AtHome(i)
  BY <1>2, <1>3 DEF Copied
<1>7. \A i \in 1 .. Len(lh) : lh[i] \in Blocks /\ (lh[i] = b => i = k)
  BY <1>1, <1>3, <1>4, SMTT(30) DEF Headers, Injective
<1>8. \A i \in 1 .. k : AtHome(i)'
  <2> SUFFICES ASSUME NEW i \in 1 .. k PROVE AtHome(i)'
    OBVIOUS
  <2>1. CASE i = k
    BY <1>1, <1>2, <1>4, <2>1 DEF AtHome
  <2>2. CASE i # k
    <3>1. i \in 1 .. btail /\ i \in 1 .. Len(lh)
      BY <1>1, <1>4, <2>2, SMTT(30)
    <3>2. home'[lh[i]] = home[lh[i]]
      BY <1>1, <1>2, <1>7, <2>2, <3>1
    <3>3. QED
      BY <1>2, <1>6, <3>1, <3>2 DEF AtHome
  <2>3. QED
    BY <2>1, <2>2
<1>9. QED
  BY <1>2, <1>5, <1>8 DEF Copied

LEMMA CopiedByRead ==
  ASSUME IInv, NEW b \in Blocks, bread(b)
  PROVE  Copied'
<1>1. TypeOK /\ Headers /\ Copied /\ lh \in Seq(Blocks)
  BY DEF IInv, TypeOK
<1>2. UNCHANGED <<pc, tail, lh, home, logdata, boot, btail>>
  BY DEF bread, opVars, logVars, diskVars, bootVars
<1>3. \A x \in Blocks : BufData(x)' = BufData(x)
  BY <1>1, ReadKeeps
<1>4. \A i \in 1 .. Len(lh) : (InSlot(i) => InSlot(i)') /\ (AtHome(i) => AtHome(i)')
  <2> SUFFICES ASSUME NEW i \in 1 .. Len(lh)
               PROVE  (InSlot(i) => InSlot(i)') /\ (AtHome(i) => AtHome(i)')
    OBVIOUS
  <2>1. lh[i] \in Blocks
    BY <1>1, SMTT(30)
  <2>2. BufData(lh[i])' = BufData(lh[i])
    BY <1>2, <1>3, <2>1 DEF BufData
  <2>3. QED
    BY <1>2, <2>2, CopiesKept
<1>5. QED
  BY <1>1, <1>2, <1>4, CopiedFrame

LEMMA CopiedByRecycle ==
  ASSUME IInv, NEW b \in Blocks, Recycle(b)
  PROVE  Copied'
<1>1. TypeOK /\ Headers /\ Copied /\ lh \in Seq(Blocks)
  BY DEF IInv, TypeOK
<1>2. UNCHANGED <<pc, tail, lh, home, logdata, boot, btail>> /\ boot = "up" /\ pins[b] = 0
  BY DEF Recycle, opVars, logVars, diskVars, bootVars
<1>3. \A i \in 1 .. Len(lh) : ~Installed(i) => lh[i] # b
  BY <1>2, UnpinnedIsInstalled
<1>4. \A i \in 1 .. Len(lh) : Installed(i) => InSlot(i) /\ AtHome(i)
  <2> SUFFICES ASSUME NEW i \in 1 .. Len(lh), Installed(i) PROVE InSlot(i) /\ AtHome(i)
    OBVIOUS
  <2>1. PICK p \in Procs : pc[p] = "clear" \/ (pc[p] = "install" /\ i <= tail[p])
    BY DEF Installed
  <2>2. tail[p] \in Nat
    BY <1>1 DEF TypeOK
  <2>3. QED
    BY <1>1, <2>1, <2>2, SMTT(30) DEF Copied
<1>5. \A i \in 1 .. Len(lh) : (InSlot(i) => InSlot(i)') /\ (AtHome(i) => AtHome(i)')
  <2> SUFFICES ASSUME NEW i \in 1 .. Len(lh)
               PROVE  (InSlot(i) => InSlot(i)') /\ (AtHome(i) => AtHome(i)')
    OBVIOUS
  <2>1. lh[i] \in Blocks
    BY <1>1, SMTT(30)
  <2>2. lh[i] = b => BufData(b) = home[b]
    BY <1>3, <1>4 DEF InSlot, AtHome
  <2>3. \A x \in Blocks : (x = b => BufData(b) = home[b]) => BufData(x)' = BufData(x)
    BY <1>1, RecycleKeeps
  <2>4. BufData(lh[i])' = BufData(lh[i])
    BY <1>2, <2>1, <2>2, <2>3 DEF BufData
  <2>5. QED
    BY <1>2, <2>4, CopiesKept
<1>6. QED
  BY <1>1, <1>2, <1>5, CopiedFrame

(* Every step keeps the copies up to date.                                 *)
LEMMA CopiedStep == IInv /\ [Next]_vars => Copied'
<1> SUFFICES ASSUME IInv, [Next]_vars PROVE Copied'
  OBVIOUS
<1>a. TypeOK /\ Alone /\ BootFirst /\ Headers /\ Copied
  BY DEF IInv
<1>b. pc \in [Procs -> PCs] /\ tail \in [Procs -> Nat]
  BY <1>a DEF TypeOK
<1>c. ASSUME NEW p \in Procs, InCommit(p) PROVE \A q \in Procs \ {p} : ~InCommit(q)
  BY <1>a, <1>c DEF Alone
<1>d. ASSUME NEW p \in Procs, InOp(p) PROVE \A q \in Procs : ~InCommit(q)
  BY <1>a, <1>d DEF Alone
<1>1. ASSUME NEW p \in Procs, begin_op(p) PROVE Copied'
  <2>1. \A q \in Procs : (pc'[q] = pc[q] /\ tail'[q] = tail[q]) \/ ~InCommit(q)'
    BY <1>1, <1>b DEF begin_op, InCommit
  <2>2. UNCHANGED <<lh, boot, btail, home, logdata, cache>>
    BY <1>1 DEF begin_op, diskVars, bootVars
  <2>3. \A i \in 1 .. Len(lh) : (InSlot(i) => InSlot(i)') /\ (AtHome(i) => AtHome(i)')
    BY <2>2 DEF InSlot, AtHome, BufData
  <2>4. QED
    BY <1>a, <2>1, <2>2, <2>3, CopiedFrame
<1>2. ASSUME NEW p \in Procs, log_write(p) PROVE Copied'
  <2>1. pc[p] = "logging" /\ pc' = [pc EXCEPT ![p] = "op"] /\ boot' = "up"
    BY <1>2 DEF log_write, bootVars
  <2>2. QED
    BY <1>b, <1>d, <2>1, CopiedIdle DEF InOp, InCommit
<1>3. ASSUME NEW p \in Procs, end_op(p) PROVE Copied'
  <2>1. /\ pc[p] = "op" /\ tail' = [tail EXCEPT ![p] = 0] /\ boot' = "up"
        /\ \/ pc' = [pc EXCEPT ![p] = IF lh = << >> THEN "committed" ELSE "write_log"]
           \/ pc' = Wakeup(p, "idle")
    BY <1>3 DEF end_op, bootVars
  <2>2. /\ pc'[p] \in {"committed", "write_log", "idle"} /\ tail'[p] = 0
        /\ \A q \in Procs \ {p} : pc'[q] = pc[q] \/ pc'[q] = "woken"
    BY <1>b, <2>1 DEF Wakeup
  <2>3. \A q \in Procs \ {p} : ~InCommit(q)
    BY <1>d, <2>1 DEF InOp
  <2>4. \A q \in Procs \ {p} : pc'[q] \notin {"write_log", "write_head", "install", "clear"}
    BY <2>2, <2>3 DEF InCommit
  <2>5. QED
    BY <2>1, <2>2, <2>4, SMTT(30) DEF Copied
<1>4. ASSUME NEW p \in Procs, write_log(p) PROVE Copied'
  BY <1>4, CopiedByWriteLog
<1>5. ASSUME NEW p \in Procs, write_head(p) PROVE Copied'
  BY <1>5, CopiedByWriteHead
<1>6. ASSUME NEW p \in Procs, install_trans(p) PROVE Copied'
  BY <1>6, CopiedByInstall
<1>7. ASSUME NEW p \in Procs, clear_head(p) PROVE Copied'
  <2>1. pc[p] = "clear" /\ pc' = [pc EXCEPT ![p] = "committed"] /\ boot' = "up"
    BY <1>7 DEF clear_head, bootVars
  <2>2. QED
    BY <1>b, <1>c, <2>1, CopiedIdle DEF InCommit
<1>8. ASSUME NEW p \in Procs, end_commit(p) PROVE Copied'
  <2>1. pc[p] = "committed" /\ pc' = Wakeup(p, "idle") /\ boot' = "up"
    BY <1>8 DEF end_commit, bootVars
  <2>2. QED
    BY <1>b, <1>c, <2>1, CopiedIdle DEF InCommit, Wakeup
<1>9. ASSUME NEW p \in Procs, NEW b \in Blocks, NEW v \in Vals, Modify(p, b, v) PROVE Copied'
  <2>1. pc[p] = "op" /\ pc' = [pc EXCEPT ![p] = "logging"] /\ boot' = "up"
    BY <1>9 DEF Modify, bootVars
  <2>2. QED
    BY <1>b, <1>d, <2>1, CopiedIdle DEF InOp, InCommit
<1>10. ASSUME NEW b \in Blocks, bread(b) PROVE Copied'
  BY <1>10, CopiedByRead
<1>11. ASSUME NEW b \in Blocks, Recycle(b) PROVE Copied'
  BY <1>11, CopiedByRecycle
<1>12. CASE read_head
  <2>1. /\ boot = "read_head" /\ pc' = pc /\ lh' = hdr /\ btail' = 0
        /\ boot' = "clear" => hdr = << >>
    BY <1>12 DEF read_head, opVars
  <2>2. \A q \in Procs : pc'[q] = "idle"
    BY <1>a, <2>1 DEF BootFirst
  <2>3. QED
    BY <2>1, <2>2, SMTT(30) DEF Copied
<1>13. CASE recover_install
  BY <1>13, CopiedByRecovery
<1>14. CASE recover_clear
  <2>1. boot = "clear" /\ pc' = pc /\ boot' = "up"
    BY <1>14 DEF recover_clear, opVars
  <2>2. QED
    BY <1>a, <2>1, CopiedIdle DEF BootFirst
<1>15. CASE Crash
  BY <1>15, CopiedIdle DEF Crash
<1>16. CASE UNCHANGED vars
  <2>1. UNCHANGED <<pc, tail, lh, boot, btail, home, logdata, cache>>
    BY <1>16 DEF vars, opVars, logVars, diskVars, bootVars
  <2>2. \A i \in 1 .. Len(lh) : (InSlot(i) => InSlot(i)') /\ (AtHome(i) => AtHome(i)')
    BY <2>1 DEF InSlot, AtHome, BufData
  <2>3. QED
    BY <1>a, <2>1, <2>2, CopiedFrame
<1> QED
  BY <1>1, <1>2, <1>3, <1>4, <1>5, <1>6, <1>7, <1>8, <1>9, <1>10, <1>11, <1>12,
     <1>13, <1>14, <1>15, <1>16 DEF Next, CommitStep, Recover

-----------------------------------------------------------------------------
(* The inductive invariant holds initially and is kept by every step.      *)
LEMMA InitIInv == Init => IInv
<1> SUFFICES ASSUME Init PROVE IInv
  OBVIOUS
<1> USE ConstantsAssumption DEF Init
<1>1. TypeOK
  BY SMTT(30) DEF TypeOK, PCs
<1>2. Alone /\ BootFirst /\ Holding
  BY SMTT(30) DEF Alone, BootFirst, Holding, InCommit
<1>3. Counted
  <2>1. Active = {}
    BY DEF Active, InOp
  <2> QED
    BY <2>1, FS_EmptySet DEF Counted
<1>4. Headers
  BY SMTT(30) DEF Headers, Injective
<1>5. Buffers
  BY SMTT(30) DEF Buffers, CleanHome, HeldCached, LoggedCached, BootClean, PinnedUntilInstalled, BufData
<1>6. Copied
  BY DEF Copied
<1> QED
  BY <1>1, <1>2, <1>3, <1>4, <1>5, <1>6 DEF IInv

(* The invariant on which the theorems below rest.                         *)
THEOREM Invariance == Spec => []IInv
<1>1. IInv /\ [Next]_vars => IInv'
  BY TypeStep, AloneStep, CountedStep, BootStep, HoldingStep, HeadersStep, BuffersStep,
     CopiedStep DEF IInv
<1> QED
  BY InitIInv, <1>1, PTL DEF Spec

(* The log's state always has its type; in particular the loops of         *)
(* write_log() and install_trans() never leave the log area (log.c:73,     *)
(* 183).                                                                   *)
THEOREM TypeCorrect == Spec => []TypeOK
BY Invariance, PTL DEF IInv

(* commit() runs alone, with no call in progress (log.c:13-16, 153-157).   *)
THEOREM CommitAlone == Spec => []CommitIsExclusive
<1>1. IInv => CommitIsExclusive
  BY DEF IInv, CommitIsExclusive, Alone, Counted
<1> QED
  BY Invariance, <1>1, PTL

(* A modified buffer stays pinned until its update is home (log.c:231,79). *)
THEOREM PinsBalance == Spec => []PinnedUntilInstalled
<1>1. IInv => PinnedUntilInstalled
  BY DEF IInv, Buffers
<1> QED
  BY Invariance, <1>1, PTL
=============================================================================
