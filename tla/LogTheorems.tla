---------------------------- MODULE LogTheorems -----------------------------
(***************************************************************************)
(* Log implements AtomicDisk: group commit is atomic and durable.          *)
(***************************************************************************)
EXTENDS LogProofs

USE ZenonT(60), SMTT(30)

(* The refinement: Log implements AtomicDisk.                              *)

(* An empty header on disk leaves nothing to recover.                      *)
LEMMA RecoveredHome ==
  ASSUME TypeOK, hdr = << >>
  PROVE  Recovered = home
<1>1. Elems(hdr) = {}
  BY SMTT(30) DEF Elems
<1> QED
  BY <1>1 DEF Recovered, TypeOK

(* Recovery changes nothing once every block of the header is home.        *)
LEMMA RecoveredInstalled ==
  ASSUME TypeOK, \A i \in 1 .. Len(hdr) : home[hdr[i]] = logdata[i]
  PROVE  Recovered = home
<1>1. ASSUME NEW b \in Blocks PROVE Recovered[b] = home[b]
  <2>1. CASE b \in Elems(hdr)
    <3>1. \E i \in 1 .. Len(hdr) : hdr[i] = b
      BY <2>1 DEF Elems
    <3>2. PICK j \in 1 .. Len(hdr) : j = CHOOSE i \in 1 .. Len(hdr) : hdr[i] = b
      BY <3>1
    <3>3. hdr[j] = b
      BY <3>1, <3>2
    <3> QED
      BY <2>1, <3>2, <3>3 DEF Recovered
  <2>2. CASE b \notin Elems(hdr)
    BY <2>2 DEF Recovered
  <2> QED
    BY <2>1, <2>2
<1>2. Recovered = [b \in Blocks |-> Recovered[b]] /\ home = [b \in Blocks |-> home[b]]
  BY SMTT(30) DEF Recovered, TypeOK
<1> QED
  BY <1>1, <1>2

(* The same of the next state ...                                          *)
LEMMA PrimedRecoveredHome ==
  ASSUME TypeOK', hdr' = << >>
  PROVE  Recovered' = home'
<1>1. Elems(hdr') = {}
  BY SMTT(30) DEF Elems
<1> QED
  BY <1>1 DEF Recovered, TypeOK, Elems

(* ... and what recovery then does to a block of the header, and to any    *)
(* other block.                                                            *)
LEMMA PrimedRecoveredSlot ==
  ASSUME Injective(hdr')
  PROVE  /\ \A i \in 1 .. Len(hdr') : hdr'[i] \in Blocks => Recovered'[hdr'[i]] = logdata'[i]
         /\ \A b \in Blocks \ Elems(hdr') : Recovered'[b] = home'[b]
<1>1. ASSUME NEW i \in 1 .. Len(hdr'), hdr'[i] \in Blocks
      PROVE  Recovered'[hdr'[i]] = logdata'[i]
  <2>1. hdr'[i] \in Elems(hdr')
    BY DEF Elems
  <2>2. (CHOOSE j \in 1 .. Len(hdr') : hdr'[j] = hdr'[i]) = i
    BY DEF Injective
  <2> QED
    BY <1>1, <2>1, <2>2 DEF Recovered, Elems
<1>2. ASSUME NEW b \in Blocks \ Elems(hdr') PROVE Recovered'[b] = home'[b]
  BY DEF Recovered, Elems
<1> QED
  BY <1>1, <1>2

(* Only the header, the slots it names and the blocks it does not name     *)
(* matter to recovery.                                                     *)
LEMMA RecoveredSame ==
  ASSUME hdr' = hdr,
         \A i \in 1 .. Len(hdr) : logdata'[i] = logdata[i],
         \A b \in Blocks \ Elems(hdr) : home'[b] = home[b]
  PROVE  Recovered' = Recovered
BY SMTT(30) DEF Recovered, Elems

(* The running system sees its buffers; a booting one sees what recovery   *)
(* will leave.                                                             *)
LEMMA ViewFacts ==
  /\ boot = "up" => View = [b \in Blocks |-> BufData(b)]
  /\ boot # "up" => View = Recovered
BY DEF View, Recovered

(* mkfs leaves an empty log, so an initial state of the log is one of the  *)
(* atomic disk.                                                            *)
LEMMA RefineInit == Init => Abs!Init
<1> SUFFICES ASSUME Init PROVE Abs!Init
  OBVIOUS
<1>1. TypeOK
  BY InitIInv DEF IInv
<1>2. Recovered = home
  BY <1>1, RecoveredHome DEF Init
<1>3. View = home
  BY <1>1, ViewFacts DEF Init, BufData, TypeOK
<1>4. Active = {}
  BY DEF Init, Active, InOp
<1> QED
  BY <1>2, <1>3, <1>4 DEF Abs!Init, Init

(* A step that moves no call in or out, changes no buffer contents, no     *)
(* header and no disk block is a stutter of AtomicDisk.                    *)
LEMMA RefineStutter ==
  ASSUME UNCHANGED <<boot, home, logdata, hdr>>, boot = "up",
         \A b \in Blocks : BufData(b)' = BufData(b)
  PROVE  UNCHANGED <<Recovered, View>>
<1>1. Recovered' = Recovered
  BY SMTT(30) DEF Recovered, Elems
<1>2. View' = View
  BY ViewFacts, <1>1 DEF View
<1> QED
  BY <1>1, <1>2

(* Every step of the log is a step of AtomicDisk or a stutter.             *)
LEMMA RefineStep == IInv /\ IInv' /\ [Next]_vars => [Abs!Next]_(Abs!vars)
<1> SUFFICES ASSUME IInv, IInv', [Next]_vars PROVE [Abs!Next]_(Abs!vars)
  OBVIOUS
<1> USE ConstantsAssumption DEF opVars, logVars, diskVars, bootVars
<1> DEFINE Stutter == UNCHANGED <<Recovered, View, Active>>
<1>0. Stutter => [Abs!Next]_(Abs!vars)
  BY DEF Abs!vars
<1>t. TypeOK /\ TypeOK'
  BY DEF IInv
<1>1. ASSUME NEW p \in Procs, begin_op(p) PROVE [Abs!Next]_(Abs!vars)
  <2>1. UNCHANGED <<Recovered, View>>
    BY <1>1, RefineStutter DEF begin_op, BufData
  <2>2. CASE committing = 1 \/ LogIsFull
    <3>1. Active' = Active
      BY <1>1, <1>t, <2>2 DEF begin_op, Active, InOp, TypeOK
    <3> QED
      BY <1>0, <2>1, <3>1
  <2>3. CASE ~(committing = 1 \/ LogIsFull)
    <3>1. p \notin Active /\ Active' = Active \cup {p}
      BY <1>1, <1>t, <2>3, SMTT(30) DEF begin_op, Active, InOp, TypeOK
    <3> QED
      BY <2>1, <3>1 DEF Abs!Next, Abs!Begin
  <2> QED
    BY <2>2, <2>3
<1>2. ASSUME NEW p \in Procs, log_write(p) PROVE [Abs!Next]_(Abs!vars)
  <2>1. UNCHANGED <<Recovered, View>>
    BY <1>2, RefineStutter DEF log_write, BufData
  <2>2. Active' = Active
    BY <1>2, <1>t DEF log_write, Active, InOp, TypeOK
  <2> QED
    BY <1>0, <2>1, <2>2
<1>3. ASSUME NEW p \in Procs, end_op(p) PROVE [Abs!Next]_(Abs!vars)
  <2>1. UNCHANGED <<Recovered, View>>
    BY <1>3, RefineStutter DEF end_op, BufData
  <2>2. Active' = Active \ {p} /\ p \in Active
    <3>1. CASE outstanding' = 0
      BY <1>3, <1>t, <3>1, SMTT(30) DEF end_op, Active, InOp, TypeOK
    <3>2. CASE outstanding' # 0
      BY <1>3, <1>t, <3>2, SMTT(30) DEF end_op, Active, InOp, Wakeup, TypeOK
    <3> QED
      BY <3>1, <3>2
  <2> QED
    BY <2>1, <2>2 DEF Abs!Next, Abs!End
<1>4. ASSUME NEW p \in Procs, write_log(p) PROVE [Abs!Next]_(Abs!vars)
  <2>1. Recovered = home /\ Recovered' = home
    <3>1. hdr = << >> /\ hdr' = << >> /\ home' = home
      BY <1>4 DEF write_log, IInv, Headers, Alone, InCommit
    <3>2. Recovered' = home'
      BY <1>t, <3>1, PrimedRecoveredHome
    <3> QED
      BY <1>t, <3>1, <3>2, RecoveredHome
  <2>2. \A b \in Blocks : BufData(b)' = BufData(b)
    BY <1>4, <1>t DEF write_log, BufData, TypeOK
  <2>3. View' = View
    BY <1>4, <2>2 DEF write_log, View
  <2>4. Active' = Active
    BY <1>4, <1>t DEF write_log, Active, InOp, TypeOK
  <2> QED
    BY <1>0, <2>1, <2>3, <2>4
<1>5. ASSUME NEW p \in Procs, write_head(p) PROVE [Abs!Next]_(Abs!vars)
  <2>1. /\ hdr' = lh /\ boot = "up" /\ UNCHANGED <<home, logdata, cache, boot, lh>>
        /\ pc[p] = "write_head"
    BY <1>5 DEF write_head
  <2>2. Active = {} /\ Active' = {}
    BY <1>5, <1>t, SMTT(30) DEF write_head, Active, InOp, IInv, Alone, InCommit, TypeOK
  <2>3. View' = View /\ View = [b \in Blocks |-> BufData(b)]
    BY <2>1 DEF View, BufData
  <2>4. \A b \in Blocks : Recovered'[b] = BufData(b)
    <3> SUFFICES ASSUME NEW b \in Blocks PROVE Recovered'[b] = BufData(b)
      OBVIOUS
    <3>1. /\ \A i \in 1 .. Len(hdr') : hdr'[i] \in Blocks => Recovered'[hdr'[i]] = logdata'[i]
          /\ \A x \in Blocks \ Elems(hdr') : Recovered'[x] = home'[x]
      <4>1. Injective(hdr')
        BY DEF IInv, Headers, Injective
      <4> QED
        BY <4>1, PrimedRecoveredSlot
    <3>2. CASE b \in Elems(lh)
      <4>1. PICK i \in 1 .. Len(lh) : lh[i] = b
        BY <3>2 DEF Elems
      <4>2. logdata[i] = BufData(b)
        BY <2>1, <4>1 DEF IInv, Copied, InSlot
      <4> QED
        BY <2>1, <3>1, <4>1, <4>2
    <3>3. CASE b \notin Elems(lh)
      <4>1. \A q \in Procs : held[q] # b
        BY <2>2 DEF Active, InOp, IInv, Holding
      <4>2. BufData(b) = home[b]
        BY <2>1, <3>3, <4>1 DEF IInv, Buffers, CleanHome
      <4> QED
        BY <2>1, <3>1, <3>3, <4>2
    <3> QED
      BY <3>2, <3>3
  <2>5. Recovered' = View
    BY <2>3, <2>4 DEF Recovered
  <2> QED
    BY <2>2, <2>3, <2>5 DEF Abs!Next, Abs!Commit
<1>6. ASSUME NEW p \in Procs, install_trans(p) PROVE [Abs!Next]_(Abs!vars)
  <2> DEFINE k == tail[p] + 1
             b == lh[k]
  <2>1. /\ boot = "up" /\ UNCHANGED <<lh, hdr, logdata, boot>>
        /\ cache' = [cache EXCEPT ![b] = logdata[k]]
        /\ home' = [home EXCEPT ![b] = logdata[k]]
        /\ pc[p] = "install"
    BY <1>6 DEF install_trans
  <2>a. hdr = lh /\ tail[p] < Len(lh) /\ Len(lh) <= LogBlocks - 1
    BY <2>1 DEF IInv, Headers
  <2>b. k \in 1 .. Len(lh) /\ k \in LogSlots
    <3>1. tail[p] \in Nat /\ Len(lh) \in Nat
      BY <1>t, SMTT(30) DEF TypeOK
    <3> QED
      BY <2>a, <3>1, SMTT(30) DEF LogSlots
  <2>c. b \in Blocks /\ logdata[k] \in Vals
    BY <1>t, <2>b, SMTT(30) DEF TypeOK
  <2>2. BufData(b) = logdata[k]
    BY <2>1, <2>b DEF IInv, Copied, InSlot
  <2>3. \A x \in Blocks : BufData(x)' = BufData(x)
    <3> SUFFICES ASSUME NEW x \in Blocks PROVE BufData(x)' = BufData(x)
      OBVIOUS
    <3>1. cache'[x] = IF x = b THEN logdata[k] ELSE cache[x]
      BY <1>t, <2>1 DEF TypeOK
    <3>2. home'[x] = IF x = b THEN logdata[k] ELSE home[x]
      BY <1>t, <2>1 DEF TypeOK
    <3>3. logdata[k] # NotCached
      BY <2>c
    <3> HIDE DEF k, b
    <3> QED
      BY <2>2, <3>1, <3>2, <3>3 DEF BufData
  <2>4. View' = View
    BY <2>1, <2>3 DEF View
  <2>5. b \in Elems(hdr)
    BY <2>a, <2>b DEF Elems
  <2>6. Recovered' = Recovered
    BY <1>t, <2>1, <2>5, RecoveredSame DEF TypeOK
  <2>7. Active' = Active
    BY <1>6, <1>t DEF install_trans, Active, InOp, TypeOK
  <2> QED
    BY <1>0, <2>4, <2>6, <2>7
<1>7. ASSUME NEW p \in Procs, clear_head(p) PROVE [Abs!Next]_(Abs!vars)
  <2>1. /\ boot = "up" /\ hdr = lh /\ hdr' = << >> /\ UNCHANGED <<cache, home, logdata, boot>>
        /\ \A i \in 1 .. Len(lh) : home[lh[i]] = logdata[i]
    BY <1>7 DEF clear_head, IInv, Headers, Copied, AtHome
  <2>2. View' = View
    BY <2>1 DEF View, BufData
  <2>3. Recovered' = home
    BY <1>t, <2>1, PrimedRecoveredHome
  <2>4. Recovered = home
    BY <1>t, <2>1, RecoveredInstalled
  <2>5. Active' = Active
    BY <1>7, <1>t DEF clear_head, Active, InOp, TypeOK
  <2> QED
    BY <1>0, <2>2, <2>3, <2>4, <2>5
<1>8. ASSUME NEW p \in Procs, end_commit(p) PROVE [Abs!Next]_(Abs!vars)
  <2>1. UNCHANGED <<Recovered, View>>
    BY <1>8, RefineStutter DEF end_commit, BufData
  <2>2. Active' = Active
    BY <1>8, <1>t DEF end_commit, Wakeup, Active, InOp, TypeOK
  <2> QED
    BY <1>0, <2>1, <2>2
<1>9. ASSUME NEW p \in Procs, NEW b \in Blocks, NEW v \in Vals, Modify(p, b, v)
      PROVE  [Abs!Next]_(Abs!vars)
  <2>1. Recovered' = Recovered
    BY <1>9, SMTT(30) DEF Modify, Recovered, Elems
  <2>2. View' = [View EXCEPT ![b] = v]
    BY <1>9, <1>t DEF Modify, View, BufData, TypeOK
  <2>3. p \in Active /\ Active' = Active
    BY <1>9, <1>t DEF Modify, Active, InOp, TypeOK
  <2> QED
    BY <2>1, <2>2, <2>3 DEF Abs!Next, Abs!Write
<1>10. ASSUME NEW b \in Blocks, bread(b) PROVE [Abs!Next]_(Abs!vars)
  <2>1. UNCHANGED <<Recovered, View>>
    BY <1>10, <1>t, RefineStutter DEF bread, BufData, TypeOK
  <2>2. Active' = Active
    BY <1>10 DEF bread, Active, InOp
  <2> QED
    BY <1>0, <2>1, <2>2
<1>11. ASSUME NEW b \in Blocks, Recycle(b) PROVE [Abs!Next]_(Abs!vars)
  <2>1. /\ boot = "up" /\ pins[b] = 0 /\ \A q \in Procs : held[q] # b
        /\ UNCHANGED <<home, logdata, hdr, boot>>
        /\ cache' = [cache EXCEPT ![b] = NotCached]
    BY <1>11 DEF Recycle
  <2>2. BufData(b) = home[b]
    <3>1. CASE b \in Elems(lh)
      <4>1. PICK i \in 1 .. Len(lh) : lh[i] = b
        BY <3>1 DEF Elems
      <4>2. Installed(i)
        BY <2>1, <4>1, UnpinnedIsInstalled
      <4> QED
        BY <4>1, <4>2, SMTT(30) DEF Installed, IInv, Copied, InSlot, AtHome
    <3>2. CASE b \notin Elems(lh)
      BY <2>1, <3>2 DEF IInv, Buffers, CleanHome
    <3> QED
      BY <3>1, <3>2
  <2>3. \A x \in Blocks : BufData(x)' = BufData(x)
    BY <1>t, <2>1, <2>2 DEF BufData, TypeOK
  <2>4. Active' = Active
    BY <1>11 DEF Recycle, Active, InOp
  <2> QED
    BY <1>0, <2>1, <2>3, <2>4, RefineStutter
<1>12. CASE read_head
  <2>1. Recovered' = Recovered /\ Active' = Active /\ boot # "up" /\ boot' # "up"
    BY <1>12, SMTT(30) DEF read_head, Recovered, Elems, Active, InOp
  <2> QED
    BY <1>0, <2>1 DEF View, Recovered
<1>13. CASE recover_install
  <2> DEFINE k == btail + 1
             b == lh[k]
  <2>1. /\ boot = "install" /\ boot' # "up" /\ UNCHANGED <<lh, hdr, logdata, pc>>
        /\ home' = [home EXCEPT ![b] = logdata[k]]
    BY <1>13 DEF recover_install
  <2>2. b \in Elems(hdr)
    <3>1. hdr = lh /\ btail < Len(lh)
      BY <2>1 DEF IInv, Headers
    <3>2. k \in 1 .. Len(lh)
      BY <1>t, <3>1, SMTT(30) DEF TypeOK
    <3> QED
      BY <3>1, <3>2 DEF Elems
  <2>3. Recovered' = Recovered
    BY <1>t, <2>1, <2>2, RecoveredSame DEF TypeOK
  <2>4. View' = Recovered' /\ View = Recovered
    BY <2>1 DEF View, Recovered
  <2>5. Active' = Active
    BY <2>1 DEF Active, InOp
  <2> QED
    BY <1>0, <2>3, <2>4, <2>5
<1>14. CASE recover_clear
  <2>1. /\ boot = "clear" /\ boot' = "up" /\ hdr = lh /\ hdr' = << >>
        /\ UNCHANGED <<cache, home, logdata, pc>>
        /\ \A i \in 1 .. Len(lh) : home[lh[i]] = logdata[i]
        /\ \A b \in Blocks : BufData(b) = home[b]
    BY <1>14 DEF recover_clear, IInv, Headers, Copied, AtHome, Buffers, BootClean
  <2>2. Recovered' = home
    BY <1>t, <2>1, PrimedRecoveredHome
  <2>3. Recovered = home
    <3>1. \A i \in 1 .. Len(hdr) : home[hdr[i]] = logdata[i]
      BY <2>1
    <3> QED
      BY <1>t, <3>1, RecoveredInstalled
  <2>4. View' = home /\ View = Recovered
    BY <1>t, <2>1, SMTT(30) DEF View, Recovered, BufData, TypeOK
  <2>5. Active' = Active
    BY <2>1 DEF Active, InOp
  <2> QED
    BY <1>0, <2>2, <2>3, <2>4, <2>5
<1>15. CASE Crash
  <2>1. boot' # "up" /\ hdr' = hdr /\ Active' = {}
    BY <1>15 DEF Crash, Active, InOp
  <2>2. \A b \in Blocks \ Elems(hdr) : home'[b] = home[b]
    <3>1. home' \in TornHome
      BY <1>15 DEF Crash
    <3>2. CASE home' = home
      BY <3>2
    <3>3. ASSUME NEW p \in Procs, NEW v \in Vals, pc[p] = "install",
                 home' = [home EXCEPT ![lh[tail[p] + 1]] = v]
          PROVE  \A b \in Blocks \ Elems(hdr) : home'[b] = home[b]
      <4>1. lh[tail[p] + 1] \in Elems(hdr)
        <5>1. hdr = lh /\ tail[p] + 1 \in 1 .. Len(lh)
          <6>1. hdr = lh /\ tail[p] < Len(lh)
            BY <3>3 DEF IInv, Headers
          <6>2. tail[p] \in Nat /\ Len(lh) \in Nat
            BY <1>t, SMTT(30) DEF TypeOK
          <6> QED
            BY <6>1, <6>2, SMTT(30)
        <5> QED
          BY <5>1 DEF Elems
      <4> QED
        BY <1>t, <3>3, <4>1 DEF TypeOK
    <3>4. ASSUME NEW v \in Vals, boot = "install",
                 home' = [home EXCEPT ![lh[btail + 1]] = v]
          PROVE  \A b \in Blocks \ Elems(hdr) : home'[b] = home[b]
      <4>1. lh[btail + 1] \in Elems(hdr)
        <5>1. hdr = lh /\ btail + 1 \in 1 .. Len(lh)
          BY <1>t, <3>4, SMTT(30) DEF IInv, Headers, TypeOK
        <5> QED
          BY <5>1 DEF Elems
      <4> QED
        BY <1>t, <3>4, <4>1 DEF TypeOK
    <3> QED
      BY <3>1, <3>2, <3>3, <3>4, SMTT(30) DEF TornHome
  <2>3. \A i \in 1 .. Len(hdr) : logdata'[i] = logdata[i]
    <3>1. logdata' = logdata \/ \E p \in Procs : pc[p] = "write_log"
      BY <1>15, SMTT(30) DEF Crash, TornLogdata
    <3>2. ASSUME NEW p \in Procs, pc[p] = "write_log" PROVE Len(hdr) = 0
      BY <3>2, SMTT(30) DEF IInv, BootFirst, Headers, Alone, InCommit
    <3> QED
      BY <3>1, <3>2, SMTT(30)
  <2>4. Recovered' = Recovered
    BY <2>1, <2>2, <2>3, RecoveredSame
  <2>5. View' = Recovered'
    BY <2>1 DEF View, Recovered
  <2> QED
    BY <2>1, <2>4, <2>5 DEF Abs!Next, Abs!Crash
<1>16. CASE UNCHANGED vars
  <2>1. Recovered' = Recovered /\ View' = View
    BY <1>16, SMTT(30) DEF vars, Recovered, View, Elems, BufData
  <2>2. Active' = Active
    BY <1>16 DEF vars, Active, InOp
  <2> QED
    BY <1>0, <2>1, <2>2
<1> QED
  BY <1>1, <1>2, <1>3, <1>4, <1>5, <1>6, <1>7, <1>8, <1>9, <1>10, <1>11, <1>12,
     <1>13, <1>14, <1>15, <1>16 DEF Next, CommitStep, Recover

(* The log makes group commit atomic across crashes (log.c:10-31, 99-101): *)
(* with any number of crashes, during commit and during recovery alike,    *)
(* the disk that recovery leaves is the one of the last completed commit,  *)
(* and a commit never splits a call.                                       *)
THEOREM Atomicity == Spec => AtomicCommit
<1>1. IInv /\ IInv' /\ [Next]_vars => [Abs!Next]_(Abs!vars)
  BY RefineStep
<1> QED
  BY Invariance, RefineInit, <1>1, PTL DEF Spec, AtomicCommit, Abs!Spec

(* The process that leaves commit() finds what it committed durable        *)
(* (log.c:144-145, 198-201).                                               *)
THEOREM Durability == Spec => []CommittedIsDurable
<1>1. ASSUME IInv, NEW p \in Procs, pc[p] \in {"install", "clear", "committed"}
      PROVE  Recovered = View
  <2> USE <1>1 DEF IInv
  <2>1. boot = "up" /\ View = [b \in Blocks |-> BufData(b)]
    BY ViewFacts DEF BootFirst
  <2>2. \A b \in Blocks : b \notin Elems(lh) => BufData(b) = home[b]
    <3>1. \A q \in Procs : held[q] = NoBlock
      BY DEF Alone, InCommit, InOp, Holding
    <3> QED
      BY <2>1, <3>1, ConstantsAssumption DEF Buffers, CleanHome
  <2>3. CASE pc[p] = "committed"
    <3>1. lh = << >> /\ hdr = << >> /\ Elems(lh) = {}
      BY <2>1, <2>3, SMTT(30) DEF Headers, Alone, InCommit, Elems
    <3>2. Recovered = home
      BY <3>1, RecoveredHome
    <3> QED
      BY <2>1, <2>2, <3>1, <3>2 DEF TypeOK
  <2>4. CASE pc[p] \in {"install", "clear"}
    <3>1. hdr = lh /\ \A i \in 1 .. Len(hdr) : logdata[i] = BufData(hdr[i])
      BY <2>4 DEF Headers, Copied, InSlot
    <3>2. \A b \in Blocks : Recovered[b] = BufData(b)
      BY <2>2, <3>1 DEF Recovered, Elems
    <3> QED
      BY <2>1, <3>2 DEF Recovered
  <2> QED
    BY <2>3, <2>4
<1>2. IInv => CommittedIsDurable
  BY <1>1 DEF CommittedIsDurable
<1> QED
  BY Invariance, <1>2, PTL


-----------------------------------------------------------------------------
(* Log space: begin_op()'s reservation keeps log_write() out of its panic, *)
(* for any log size.                                                       *)

(* The log slots begin_op() reserved that the calls in progress have not   *)
(* used: MAXOPBLOCKS for each call, less the blocks it has logged.         *)
Reserved ==
  {r \in Procs \X (1 .. MAXOPBLOCKS) :
     InOp(r[1]) /\ r[2] > Cardinality(wrote[r[1]])}

(* What the calls have logged, and that the log has room for the rest.     *)
WritesOf(p) ==
  /\ InOp(p) => Cardinality(wrote[p]) <= OpMax
  /\ pc[p] = "logging" => Cardinality(wrote[p] \cup {held[p]}) <= OpMax
  /\ ~InOp(p) => wrote[p] = {}
  /\ wrote[p] \subseteq Elems(lh)

Writes == \A p \in Procs : WritesOf(p)

Room ==
  boot = "up" /\ committing = 0 =>
    /\ Len(lh) + Cardinality(Reserved) <= LOGSIZE
    /\ outstanding = 1 => \/ Len(lh) + Cardinality(Reserved) <= MAXOPBLOCKS
                          \/ Len(lh) + Cardinality(Reserved) <= LOGSIZE - 1
    /\ outstanding = 0 => lh = << >>

SpaceInv == Writes /\ Room

-----------------------------------------------------------------------------
(* The sizes involved are natural numbers.                                 *)
LEMMA SpaceTypes ==
  ASSUME TypeOK
  PROVE  /\ IsFiniteSet(Reserved) /\ Cardinality(Reserved) \in Nat
         /\ \A p \in Procs : IsFiniteSet(wrote[p]) /\ Cardinality(wrote[p]) \in Nat
         /\ Len(lh) \in Nat
<1>1. IsFiniteSet(Procs \X (1 .. MAXOPBLOCKS))
  <2>1. IsFiniteSet(1 .. MAXOPBLOCKS)
    BY ConstantsAssumption, FS_Interval, SMTT(30)
  <2> QED
    BY <2>1, ConstantsAssumption, FS_Product
<1>2. Reserved \in SUBSET (Procs \X (1 .. MAXOPBLOCKS))
  BY DEF Reserved
<1>3. IsFiniteSet(Reserved) /\ Cardinality(Reserved) \in Nat
  BY <1>1, <1>2, FS_Subset, FS_CardinalityType
<1>4. ASSUME NEW p \in Procs
      PROVE  IsFiniteSet(wrote[p]) /\ Cardinality(wrote[p]) \in Nat
  BY ConstantsAssumption, FS_Subset, FS_CardinalityType DEF TypeOK
<1> QED
  BY <1>3, <1>4, SMTT(30) DEF TypeOK

(* begin_op()'s arithmetic covers what is reserved: a call in progress has *)
(* at most MAXOPBLOCKS slots left.                                         *)
LEMMA ReservedBound == IInv => Cardinality(Reserved) <= outstanding * MAXOPBLOCKS
<1> SUFFICES ASSUME IInv PROVE Cardinality(Reserved) <= outstanding * MAXOPBLOCKS
  OBVIOUS
<1>1. IsFiniteSet(Active) /\ Cardinality(Active) \in Nat
  BY ActiveFacts
<1>2. IsFiniteSet(1 .. MAXOPBLOCKS) /\ Cardinality(1 .. MAXOPBLOCKS) = MAXOPBLOCKS
  BY ConstantsAssumption, FS_Interval, SMTT(30)
<1>3. /\ IsFiniteSet(Active \X (1 .. MAXOPBLOCKS))
      /\ Cardinality(Active \X (1 .. MAXOPBLOCKS)) = outstanding * MAXOPBLOCKS
  BY <1>1, <1>2, FS_Product DEF IInv, Counted
<1>4. Reserved \in SUBSET (Active \X (1 .. MAXOPBLOCKS))
  BY DEF Reserved, Active
<1> QED
  BY <1>3, <1>4, FS_Subset

(* Every step keeps count of what the calls have logged.                   *)
LEMMA WritesStep == IInv /\ IInv' /\ Writes /\ [Next]_vars => Writes'
<1> SUFFICES ASSUME IInv, IInv', Writes, [Next]_vars PROVE Writes'
  OBVIOUS
<1>t. TypeOK /\ TypeOK'
  BY DEF IInv
<1> USE <1>t, ConstantsAssumption DEF TypeOK, opVars, logVars, diskVars, bootVars
<1>0. ASSUME \A p \in Procs : InOp(p)' => InOp(p) /\ (pc'[p] = "logging" => pc[p] = "logging"),
             \A p \in Procs : ~InOp(p)' => wrote'[p] = {},
             \A p \in Procs : InOp(p)' => wrote'[p] = wrote[p] /\ held'[p] = held[p],
             UNCHANGED lh
      PROVE  Writes'
  <2> SUFFICES ASSUME NEW p \in Procs PROVE WritesOf(p)'
    BY DEF Writes
  <2>1. Elems(lh)' = Elems(lh)
    BY <1>0, SMTT(30) DEF Elems
  <2>2. CASE ~InOp(p)'
    BY <1>0, <2>2 DEF WritesOf, InOp
  <2>3. CASE InOp(p)'
    BY <1>0, <2>1, <2>3 DEF Writes, WritesOf
  <2> QED
    BY <2>2, <2>3
<1>1. ASSUME NEW p \in Procs, begin_op(p) PROVE Writes'
  <2>1. UNCHANGED <<wrote, held, lh>> /\ wrote[p] = {} /\ Cardinality({}) = 0
    BY <1>1, FS_EmptySet DEF begin_op, Writes, WritesOf, InOp
  <2>2. /\ \A q \in Procs \ {p} : pc'[q] = pc[q]
        /\ pc'[p] \in {"op", "sleep"}
    BY <1>1 DEF begin_op
  <2>3. Elems(lh)' = Elems(lh)
    BY <2>1 DEF Elems
  <2>4. WritesOf(p)'
    BY <2>1, <2>2, SMTT(30) DEF WritesOf, InOp
  <2>5. \A q \in Procs \ {p} : WritesOf(q)'
    BY <2>1, <2>2, <2>3 DEF Writes, WritesOf, InOp
  <2> QED
    BY <2>4, <2>5 DEF Writes
<1>2. ASSUME NEW p \in Procs, log_write(p) PROVE Writes'
  <2> DEFINE b == held[p]
  <2>1. /\ wrote' = [wrote EXCEPT ![p] = wrote[p] \cup {b}]
        /\ held' = [held EXCEPT ![p] = NoBlock]
        /\ pc' = [pc EXCEPT ![p] = "op"] /\ pc[p] = "logging"
    BY <1>2 DEF log_write
  <2>2. Elems(lh) \cup {b} \subseteq Elems(lh')
    <3>1. CASE b \in Elems(lh)
      BY <1>2, <3>1 DEF log_write
    <3>2. CASE b \notin Elems(lh)
      <4>1. lh' = Append(lh, b)
        BY <1>2, <3>2 DEF log_write
      <4>2. b \in Blocks /\ lh \in Seq(Blocks)
        BY <2>1 DEF IInv, Holding
      <4> QED
        BY <4>1, <4>2, AppendElems, SMTT(30)
    <3> QED
      BY <3>1, <3>2
  <2>3. Cardinality(wrote'[p]) <= OpMax
    BY <2>1 DEF Writes, WritesOf
  <2>4. \A q \in Procs : wrote'[q] \subseteq Elems(lh')
    BY <2>1, <2>2 DEF Writes, WritesOf
  <2>5. \A q \in Procs \ {p} : wrote'[q] = wrote[q] /\ held'[q] = held[q] /\ pc'[q] = pc[q]
    BY <2>1
  <2> QED
    BY <2>1, <2>3, <2>4, <2>5 DEF Writes, WritesOf, InOp, Elems
<1>3. ASSUME NEW p \in Procs, end_op(p) PROVE Writes'
  <2>1. wrote' = [wrote EXCEPT ![p] = {}] /\ UNCHANGED <<held, lh>>
    BY <1>3 DEF end_op
  <2>2. pc'[p] \in {"committed", "write_log", "idle"}
    BY <1>3 DEF end_op, Wakeup
  <2>3. \A q \in Procs \ {p} : (InOp(q)' <=> InOp(q)) /\ (pc'[q] = "logging" <=> pc[q] = "logging")
    BY <1>3, SMTT(30) DEF end_op, Wakeup, InOp
  <2> QED
    BY <1>0, <2>1, <2>2, <2>3 DEF Writes, WritesOf, InOp
<1>4. ASSUME NEW p \in Procs, write_log(p) \/ write_head(p) \/ install_trans(p) PROVE Writes'
  <2>1. UNCHANGED <<wrote, held, lh>>
    BY <1>4 DEF write_log, write_head, install_trans
  <2>2. \A q \in Procs : (InOp(q)' <=> InOp(q)) /\ (pc'[q] = "logging" => pc[q] = "logging")
    BY <1>4, SMTT(30) DEF write_log, write_head, install_trans, InOp
  <2> QED
    BY <1>0, <2>1, <2>2 DEF Writes, WritesOf
<1>5. ASSUME NEW p \in Procs, clear_head(p) PROVE Writes'
  <2>1. \A q \in Procs : ~InOp(q) /\ ~InOp(q)'
    BY <1>5 DEF clear_head, IInv, Alone, InCommit, InOp
  <2>2. UNCHANGED wrote
    BY <1>5 DEF clear_head
  <2> QED
    BY <2>1, <2>2 DEF Writes, WritesOf, InOp
<1>6. ASSUME NEW p \in Procs, end_commit(p) PROVE Writes'
  <2>1. UNCHANGED <<wrote, held, lh>>
    BY <1>6 DEF end_commit
  <2>2. \A q \in Procs : (InOp(q)' <=> InOp(q)) /\ (pc'[q] = "logging" => pc[q] = "logging")
    BY <1>6 DEF end_commit, Wakeup, InOp
  <2> QED
    BY <1>0, <2>1, <2>2 DEF Writes, WritesOf
<1>7. ASSUME NEW p \in Procs, NEW b \in Blocks, NEW v \in Vals, Modify(p, b, v) PROVE Writes'
  <2>1. /\ UNCHANGED <<wrote, lh>> /\ held' = [held EXCEPT ![p] = b]
        /\ Cardinality(wrote[p] \cup {b}) <= OpMax
        /\ pc' = [pc EXCEPT ![p] = "logging"] /\ pc[p] = "op"
    BY <1>7 DEF Modify
  <2> QED
    <3>1. Elems(lh)' = Elems(lh)
      BY <2>1, SMTT(30) DEF Elems
    <3>2. WritesOf(p)'
      BY <2>1, <3>1 DEF Writes, WritesOf, InOp
    <3>3. \A q \in Procs \ {p} : WritesOf(q)'
      BY <2>1, <3>1 DEF Writes, WritesOf, InOp
    <3> QED
      BY <3>2, <3>3 DEF Writes
<1>8. CASE UNCHANGED <<pc, wrote, held, lh>>
  BY <1>0, <1>8 DEF Writes, WritesOf, InOp
<1>9. CASE read_head \/ recover_clear
  <2>1. \A q \in Procs : ~InOp(q) /\ ~InOp(q)'
    BY <1>9 DEF read_head, recover_clear, IInv, BootFirst, InOp
  <2>2. UNCHANGED wrote
    BY <1>9 DEF read_head, recover_clear
  <2> QED
    BY <2>1, <2>2 DEF Writes, WritesOf, InOp
<1>10. CASE Crash
  <2>1. \A q \in Procs : wrote'[q] = {} /\ pc'[q] = "idle"
    BY <1>10 DEF Crash
  <2> QED
    BY <2>1 DEF Writes, WritesOf, InOp
<1> QED
  BY <1>1, <1>2, <1>3, <1>4, <1>5, <1>6, <1>7, <1>8, <1>9, <1>10
  DEF Next, CommitStep, Recover, bread, Recycle, recover_install, vars

(* The number of reserved slots is a natural number.                       *)
LEMMA ReservedNat == TypeOK => Cardinality(Reserved) \in Nat
BY SpaceTypes

(* A slot is reserved for a call in progress that has not used it.         *)
LEMMA InReserved ==
  \A p \in Procs : \A k \in 1 .. MAXOPBLOCKS :
    <<p, k>> \in Reserved <=> InOp(p) /\ k > Cardinality(wrote[p])
BY DEF Reserved

(* A set that loses an element gets smaller.                               *)
LEMMA Smaller ==
  ASSUME NEW S, IsFiniteSet(S), NEW T \in SUBSET S, NEW x \in S, x \notin T
  PROVE  /\ Cardinality(T) \in Nat /\ Cardinality(S) \in Nat
         /\ Cardinality(T) <= Cardinality(S) - 1
<1>1. T \in SUBSET (S \ {x})
  OBVIOUS
<1>2. IsFiniteSet(S \ {x}) /\ Cardinality(S \ {x}) = Cardinality(S) - 1
  BY FS_RemoveElement
<1> QED
  BY <1>1, <1>2, FS_Subset, FS_CardinalityType, SMTT(30)

(* What the constants must satisfy: a call logs fewer blocks than          *)
(* begin_op() reserves for it, and the log has room for more than one call.*)
CallsFit == OpMax < MAXOPBLOCKS /\ MAXOPBLOCKS < LOGSIZE

(* Every step keeps the log roomy enough.                                  *)
LEMMA RoomStep ==
  CallsFit /\ IInv /\ IInv' /\ SpaceInv /\ Writes' /\ [Next]_vars => Room'
<1> SUFFICES ASSUME CallsFit, IInv, IInv', SpaceInv, Writes', [Next]_vars PROVE Room'
  OBVIOUS
<1> USE ConstantsAssumption DEF opVars, logVars, diskVars, bootVars
<1>t. TypeOK /\ TypeOK'
  BY DEF IInv
<1>n. /\ Cardinality(Reserved) \in Nat /\ IsFiniteSet(Reserved) /\ Len(lh) \in Nat
      /\ \A p \in Procs : Cardinality(wrote[p]) \in Nat /\ IsFiniteSet(wrote[p])
  BY <1>t, SpaceTypes
<1>b. (IInv => Cardinality(Reserved) <= outstanding * MAXOPBLOCKS)'
  BY ReservedBound, PTL
<1>d. (TypeOK => Cardinality(Reserved) \in Nat)'
  BY ReservedNat, PTL
<1>e. (\A p \in Procs : \A k \in 1 .. MAXOPBLOCKS :
         <<p, k>> \in Reserved <=> InOp(p) /\ k > Cardinality(wrote[p]))'
  BY InReserved, PTL
<1>c. /\ MAXOPBLOCKS \in Nat /\ LOGSIZE \in Nat /\ OpMax \in Nat
      /\ OpMax < MAXOPBLOCKS /\ MAXOPBLOCKS < LOGSIZE /\ outstanding \in Int
  BY <1>t DEF CallsFit, TypeOK
<1>0. ASSUME UNCHANGED <<lh, outstanding, committing, boot>>,
             Reserved' \in SUBSET Reserved
      PROVE  Room'
  <2>1. Cardinality(Reserved') <= Cardinality(Reserved) /\ Cardinality(Reserved') \in Nat
    BY <1>0, <1>n, FS_Subset, FS_CardinalityType
  <2> QED
    BY <1>0, <1>n, <1>c, <2>1, SMTT(30) DEF SpaceInv, Room
<1>1. ASSUME NEW p \in Procs, begin_op(p) PROVE Room'
  <2>1. CASE committing = 1 \/ LogIsFull
    <3>1. UNCHANGED <<lh, outstanding, committing, boot, wrote>>
      BY <1>1, <2>1 DEF begin_op
    <3>2. \A q \in Procs : InOp(q)' => InOp(q)
      BY <1>1, <1>t, <2>1 DEF begin_op, InOp, TypeOK
    <3>3. Reserved' \in SUBSET Reserved
      BY <3>1, <3>2 DEF Reserved
    <3> QED
      BY <1>0, <3>1, <3>3
  <2>2. CASE ~(committing = 1 \/ LogIsFull)
    <3>1. /\ outstanding' = outstanding + 1 /\ UNCHANGED <<lh, committing>>
          /\ Len(lh) + (outstanding + 1) * MAXOPBLOCKS <= LOGSIZE
          /\ boot = "up" /\ committing # 1
      <4>1. ~(Len(lh) + (outstanding + 1) * MAXOPBLOCKS > LOGSIZE)
        BY <2>2 DEF LogIsFull
      <4>2. (outstanding + 1) * MAXOPBLOCKS \in Int
        BY <1>c, SMTT(30)
      <4>3. Len(lh) + (outstanding + 1) * MAXOPBLOCKS <= LOGSIZE
        BY <4>1, <4>2, <1>c, <1>n, SMTT(30)
      <4> QED
        BY <1>1, <2>2, <4>3 DEF begin_op
    <3>2. Cardinality(Reserved)' <= (outstanding + 1) * MAXOPBLOCKS
      BY <1>b, <3>1
    <3>3. Cardinality(Reserved)' \in Nat
      BY <1>d, <1>t
    <3>4. (outstanding + 1) * MAXOPBLOCKS \in Int
      BY <1>c, SMTT(30)
    <3>5. Len(lh') + Cardinality(Reserved)' <= LOGSIZE
      BY <3>1, <3>2, <3>3, <3>4, <1>n, <1>c, SMTT(30)
    <3>6. outstanding' # 0
      BY <1>c, <3>1, ActiveFacts, SMTT(30) DEF IInv, Counted
    <3>7. ASSUME outstanding' = 1 PROVE Len(lh') + Cardinality(Reserved)' <= MAXOPBLOCKS
      <4>1. outstanding = 0
        BY <1>c, <3>1, <3>7, SMTT(30)
      <4>2. lh = << >>
        BY <1>1, <1>t, <2>2, <3>1, <4>1 DEF SpaceInv, Room, TypeOK
      <4>3. (outstanding + 1) * MAXOPBLOCKS = MAXOPBLOCKS
        BY <1>c, <4>1, SMTT(30)
      <4> QED
        BY <1>c, <3>1, <3>2, <3>3, <4>2, <4>3, SMTT(30)
    <3> QED
      BY <3>5, <3>6, <3>7 DEF Room
  <2> QED
    BY <2>1, <2>2
<1>2. ASSUME NEW p \in Procs, log_write(p) PROVE Room'
  <2> DEFINE b == held[p]
             W == wrote[p] \cup {b}
  <2>1. /\ wrote' = [wrote EXCEPT ![p] = W] /\ pc[p] = "logging"
        /\ pc' = [pc EXCEPT ![p] = "op"]
        /\ UNCHANGED <<outstanding, committing, boot>>
    BY <1>2 DEF log_write
  <2>2. \A q \in Procs : InOp(q)' <=> InOp(q)
    BY <1>t, <2>1 DEF InOp, TypeOK
  <2>3. /\ Cardinality(W) = IF b \in wrote[p] THEN Cardinality(wrote[p]) ELSE Cardinality(wrote[p]) + 1
        /\ Cardinality(W) <= OpMax
    BY <1>n, <2>1, FS_AddElement DEF SpaceInv, Writes, WritesOf
  <2>4. wrote'[p] = W /\ \A q \in Procs \ {p} : wrote'[q] = wrote[q]
    BY <1>t, <2>1 DEF TypeOK
  <2>5. Reserved' \in SUBSET Reserved
    <3> SUFFICES ASSUME NEW r \in Procs \X (1 .. MAXOPBLOCKS),
                        InOp(r[1])', r[2] > Cardinality(wrote'[r[1]])
                 PROVE  InOp(r[1]) /\ r[2] > Cardinality(wrote[r[1]])
      BY DEF Reserved
    <3>1. CASE r[1] = p
      <4>1. Cardinality(W) >= Cardinality(wrote[p]) /\ Cardinality(W) \in Nat /\ r[2] \in Nat
        BY <1>n, <2>3, SMTT(30)
      <4>2. r[2] > Cardinality(wrote[p])
        <5>1. r[2] > Cardinality(W)
          BY <2>4, <3>1
        <5> HIDE DEF W
        <5> QED
          BY <1>n, <4>1, <5>1, SMTT(30)
      <4> QED
        BY <2>2, <3>1, <4>2
    <3>2. CASE r[1] # p
      BY <2>2, <2>4, <3>2
    <3> QED
      BY <3>1, <3>2
  <2>6. CASE b \in Elems(lh)
    <3>1. UNCHANGED <<lh, committing, outstanding, boot>>
      BY <1>2, <2>1, <2>6 DEF log_write
    <3> QED
      BY <1>0, <2>5, <3>1
  <2>7. CASE b \notin Elems(lh)
    <3> DEFINE n == Cardinality(wrote[p])
    <3>1. lh' = Append(lh, b) /\ b \in Blocks
      <4>1. lh' = Append(lh, b)
        BY <1>2, <2>7 DEF log_write
      <4>2. held[p] # NoBlock /\ held[p] \in Blocks \cup {NoBlock}
        BY <1>t, <2>1 DEF IInv, Holding, TypeOK
      <4> QED
        BY <4>1, <4>2
    <3>2. Len(lh') = Len(lh) + 1
      BY <1>t, <3>1, SMTT(30) DEF TypeOK
    <3>3. b \notin wrote[p] /\ Cardinality(W) = n + 1 /\ n + 1 <= OpMax
      BY <2>3, <2>7 DEF SpaceInv, Writes, WritesOf
    <3>4. <<p, n + 1>> \in Reserved
      BY <1>c, <1>n, <2>1, <3>3, SMTT(30) DEF Reserved, InOp
    <3>5. <<p, n + 1>> \notin Reserved'
      <4>1. n + 1 \in 1 .. MAXOPBLOCKS
        BY <1>c, <1>n, <3>3, SMTT(30)
      <4>2. ~(n + 1 > Cardinality(wrote'[p]))
        BY <1>n, <2>4, <3>3, SMTT(30)
      <4> QED
        BY <1>e, <4>1, <4>2
    <3>6. Cardinality(Reserved') <= Cardinality(Reserved) - 1 /\ Cardinality(Reserved') \in Nat
      BY <1>n, <2>5, <3>4, <3>5, Smaller, SMTT(30)
    <3>7. outstanding # 0
      <4>1. p \in Active
        BY <2>1 DEF Active, InOp
      <4> QED
        BY <4>1, ActiveFacts, FS_EmptySet DEF IInv, Counted
    <3> QED
      <4>1. Len(lh') + Cardinality(Reserved') <= Len(lh) + Cardinality(Reserved)
        BY <1>n, <3>2, <3>6, SMTT(30)
      <4>2. Cardinality(Reserved') \in Nat /\ Len(lh') \in Nat
        BY <1>n, <3>2, <3>6, SMTT(30)
      <4> QED
        BY <1>c, <1>n, <2>1, <3>7, <4>1, <4>2, SMTT(30) DEF SpaceInv, Room
  <2> QED
    BY <2>6, <2>7
<1>3. ASSUME NEW p \in Procs, end_op(p) PROVE Room'
  <2>1. CASE outstanding' = 0
    <3>1. committing' = 1
      BY <1>3, <2>1 DEF end_op
    <3> QED
      BY <3>1, SMTT(30) DEF Room
  <2>2. CASE outstanding' # 0
    <3>1. /\ wrote' = [wrote EXCEPT ![p] = {}] /\ pc[p] = "op" /\ pc' = Wakeup(p, "idle")
          /\ outstanding' = outstanding - 1 /\ UNCHANGED <<lh, committing, boot>>
          /\ boot = "up" /\ committing = 0
      BY <1>3, <2>2 DEF end_op
    <3>2. /\ ~InOp(p)' /\ InOp(p)
          /\ \A q \in Procs \ {p} : (InOp(q)' => InOp(q)) /\ wrote'[q] = wrote[q]
      BY <1>t, <3>1 DEF InOp, Wakeup, TypeOK
    <3>3. Reserved' \in SUBSET Reserved
      BY <3>2 DEF Reserved
    <3>4. Cardinality(wrote[p]) < MAXOPBLOCKS
      <4>1. WritesOf(p)
        BY DEF SpaceInv, Writes
      <4>2. Cardinality(wrote[p]) <= OpMax
        BY <3>2, <4>1 DEF WritesOf
      <4> QED
        BY <1>c, <1>n, <4>2, SMTT(30)
    <3>5. <<p, MAXOPBLOCKS>> \in Reserved /\ <<p, MAXOPBLOCKS>> \notin Reserved'
      BY <1>c, <3>2, <3>4, SMTT(30) DEF Reserved
    <3>6. Cardinality(Reserved') <= Cardinality(Reserved) - 1 /\ Cardinality(Reserved') \in Nat
      BY <1>n, <3>3, <3>5, Smaller
    <3> QED
      BY <1>c, <1>n, <2>2, <3>1, <3>6, SMTT(30) DEF SpaceInv, Room
  <2> QED
    BY <2>1, <2>2
<1>4. ASSUME NEW p \in Procs, write_log(p) \/ write_head(p) \/ install_trans(p) \/ clear_head(p)
      PROVE  Room'
  <2>1. committing = 1 /\ committing' = committing
    BY <1>4 DEF write_log, write_head, install_trans, clear_head, IInv, Alone, InCommit
  <2> QED
    BY <2>1, SMTT(30) DEF Room
<1>5. ASSUME Active' = {}, lh' = << >> PROVE Room'
  <2>1. outstanding' = 0
    BY <1>5, FS_EmptySet DEF IInv, Counted
  <2>2. Cardinality(Reserved)' <= 0 /\ Cardinality(Reserved)' \in Nat
    BY <1>b, <1>c, <1>d, <1>t, <2>1, SMTT(30)
  <2> QED
    BY <1>5, <1>c, <2>1, <2>2, SMTT(30) DEF Room
<1>6. ASSUME NEW p \in Procs, end_commit(p) PROVE Room'
  <2>1. Active' = {} /\ lh' = << >>
    <3>1. lh' = << >>
      BY <1>6 DEF end_commit, IInv, Headers
    <3>2. \A q \in Procs : ~InOp(q)'
      BY <1>6, <1>t DEF end_commit, Wakeup, IInv, Alone, InCommit, InOp, TypeOK
    <3> QED
      BY <3>1, <3>2 DEF Active
  <2> QED
    BY <1>5, <2>1
<1>7. ASSUME NEW p \in Procs, NEW b \in Blocks, NEW v \in Vals, Modify(p, b, v) PROVE Room'
  <2>1. Reserved' = Reserved
    BY <1>7, <1>t DEF Modify, Reserved, InOp, TypeOK
  <2> QED
    <3>1. UNCHANGED <<lh, outstanding, committing, boot>>
      BY <1>7 DEF Modify
    <3> QED
      BY <1>0, <2>1, <3>1
<1>8. CASE UNCHANGED <<pc, wrote, lh, outstanding, committing, boot>>
  <2>1. Reserved' = Reserved
    BY <1>8 DEF Reserved, InOp
  <2> QED
    BY <1>0, <1>8, <2>1
<1>9. CASE read_head \/ recover_install \/ Crash
  <2>1. boot' # "up"
    BY <1>9 DEF read_head, recover_install, Crash
  <2> QED
    BY <2>1 DEF Room
<1>10. CASE recover_clear
  <2>1. Active' = {} /\ lh' = << >>
    BY <1>10 DEF recover_clear, IInv, BootFirst, Active, InOp
  <2> QED
    BY <1>5, <2>1
<1> QED
  BY <1>1, <1>2, <1>3, <1>4, <1>6, <1>7, <1>8, <1>9, <1>10
  DEF Next, CommitStep, Recover, bread, Recycle, vars

(* A call that stays below MAXOPBLOCKS never uses up its reservation.      *)
LEMMA LastSlot ==
  ASSUME CallsFit, TypeOK, Writes, NEW p \in Procs, InOp(p)
  PROVE  <<p, MAXOPBLOCKS>> \in Reserved
<1>1. Cardinality(wrote[p]) <= OpMax
  BY DEF Writes, WritesOf
<1>2. Cardinality(wrote[p]) \in Nat
  BY SpaceTypes
<1>3. MAXOPBLOCKS \in 1 .. MAXOPBLOCKS /\ MAXOPBLOCKS > Cardinality(wrote[p])
  BY <1>1, <1>2, ConstantsAssumption, SMTT(30) DEF CallsFit
<1> QED
  BY <1>3, InReserved

(* While every call stays below MAXOPBLOCKS blocks, begin_op()'s test of   *)
(* log.lh.n (log.c:133) keeps room in the log for all calls in progress.   *)
THEOREM Space ==
  ASSUME CallsFit
  PROVE  Spec => []SpaceInv
<1>1. Init => SpaceInv
  <2> SUFFICES ASSUME Init PROVE SpaceInv
    OBVIOUS
  <2>1. IInv /\ Active = {} /\ lh = << >>
    BY InitIInv DEF Init, Active, InOp
  <2>2. Writes
    BY DEF Init, Writes, WritesOf, InOp
  <2>3. Cardinality(Reserved) = 0
    <3>1. Reserved = {}
      BY DEF Init, Reserved, InOp
    <3> QED
      BY <3>1, FS_EmptySet
  <2>4. Room
    BY <2>1, <2>3, ConstantsAssumption, SMTT(30) DEF Room, Init
  <2> QED
    BY <2>2, <2>4 DEF SpaceInv
<1>2. IInv /\ IInv' /\ SpaceInv /\ [Next]_vars => SpaceInv'
  BY WritesStep, RoomStep DEF SpaceInv
<1> QED
  BY <1>1, <1>2, Invariance, PTL DEF Spec

(* log_write() and end_op() never panic (log.c:153-154, 220-223) as long   *)
(* as every call logs fewer than MAXOPBLOCKS blocks, for a log area of     *)
(* LOGSIZE blocks, the header included, which is what mkfs makes.          *)
THEOREM NoPanic ==
  ASSUME CallsFit, LOGSIZE <= LogBlocks
  PROVE  Spec => []NoLogPanic
<1>1. IInv /\ SpaceInv => NoLogPanic
  <2> SUFFICES ASSUME IInv, SpaceInv, NEW p \in Procs
               PROVE  /\ pc[p] = "logging" => LogHasRoom /\ outstanding >= 1
                      /\ pc[p] = "op" => committing = 0
    BY DEF NoLogPanic
  <2>1. InOp(p) => committing = 0 /\ boot = "up"
    BY DEF IInv, Alone, BootFirst, InOp, InCommit, TypeOK
  <2>2. ASSUME pc[p] = "logging" PROVE LogHasRoom /\ outstanding >= 1
    <3>n. /\ Cardinality(Reserved) \in Nat /\ IsFiniteSet(Reserved) /\ Len(lh) \in Nat
          /\ Cardinality(wrote[p]) \in Nat /\ IsFiniteSet(wrote[p])
          /\ MAXOPBLOCKS \in Nat /\ LOGSIZE \in Nat /\ LogBlocks \in Nat /\ OpMax \in Nat
      BY SpaceTypes, ConstantsAssumption DEF IInv
    <3>1. InOp(p) /\ p \in Active
      BY <2>2 DEF InOp, Active
    <3>2. outstanding >= 1
      BY <3>1, ActiveFacts, FS_EmptySet, SMTT(30) DEF IInv, Counted
    <3>3. <<p, MAXOPBLOCKS>> \in Reserved
      BY <3>1, LastSlot DEF IInv, SpaceInv
    <3>4. CASE outstanding = 1
      <4>1. Cardinality(Reserved) >= 1
        BY <3>3, <3>n, FS_EmptySet, SMTT(30)
      <4>2. Len(lh) <= LOGSIZE - 2
        BY <2>1, <3>1, <3>4, <3>n, <4>1, SMTT(30) DEF SpaceInv, Room, CallsFit
      <4> QED
        BY <3>2, <3>n, <4>2, SMTT(30) DEF LogHasRoom
    <3>5. CASE outstanding # 1
      <4>1. PICK q \in Active : q # p
        <5>1. Active # {p}
          BY <3>5, FS_Singleton DEF IInv, Counted
        <5> QED
          BY <3>1, <5>1
      <4>3. <<q, MAXOPBLOCKS>> \in Reserved
        BY <4>1, LastSlot DEF Active, IInv, SpaceInv
      <4>4. Cardinality(Reserved) >= 2
        <5>1. <<q, MAXOPBLOCKS>> \in Reserved \ {<<p, MAXOPBLOCKS>>}
          BY <4>1, <4>3
        <5>2. /\ IsFiniteSet(Reserved \ {<<p, MAXOPBLOCKS>>})
              /\ Cardinality(Reserved \ {<<p, MAXOPBLOCKS>>}) = Cardinality(Reserved) - 1
          BY <3>3, <3>n, FS_RemoveElement
        <5>3. Cardinality(Reserved \ {<<p, MAXOPBLOCKS>>}) # 0
          BY <5>1, <5>2, FS_EmptySet
        <5> QED
          BY <3>n, <5>2, <5>3, FS_CardinalityType, SMTT(30)
      <4>5. Len(lh) <= LOGSIZE - 2
        BY <2>1, <3>1, <3>n, <4>4, SMTT(30) DEF SpaceInv, Room
      <4> QED
        BY <3>2, <3>n, <4>5, SMTT(30) DEF LogHasRoom
    <3> QED
      BY <3>4, <3>5
  <2> QED
    BY <2>1, <2>2 DEF InOp
<1> QED
  BY <1>1, Space, Invariance, PTL

(* Nobody sleeps in begin_op() on a log that is idle: who waits for a      *)
(* commit or for space (log.c:131, 135) has a committer or a call in       *)
(* progress to wait for, and its end_op() will call wakeup(&log).          *)
THEOREM NoLostWakeup ==
  ASSUME CallsFit
  PROVE  Spec => []SleeperHasWaker
<1>1. Init => SleeperHasWaker
  BY DEF Init, SleeperHasWaker
<1>2. IInv /\ SpaceInv /\ SleeperHasWaker /\ [Next]_vars => SleeperHasWaker'
  <2> SUFFICES ASSUME IInv, SpaceInv, SleeperHasWaker, [Next]_vars, NEW q \in Procs,
                      pc'[q] = "sleep"
               PROVE  committing' = 1 \/ outstanding' > 0
    BY DEF SleeperHasWaker
  <2> USE DEF opVars, logVars, diskVars, bootVars
  <2>t. TypeOK /\ outstanding \in Nat /\ MAXOPBLOCKS \in Nat /\ LOGSIZE \in Nat
    BY ActiveFacts, ConstantsAssumption DEF IInv, Counted
  <2>0. ASSUME pc[q] = "sleep", UNCHANGED <<committing, outstanding>>
        PROVE  committing' = 1 \/ outstanding' > 0
    BY <2>0, <2>t DEF SleeperHasWaker, TypeOK
  <2>1. ASSUME NEW p \in Procs, begin_op(p) PROVE committing' = 1 \/ outstanding' > 0
    <3>1. CASE committing = 1 \/ LogIsFull
      <4>1. UNCHANGED <<committing, outstanding>> /\ boot = "up"
        BY <2>1, <3>1 DEF begin_op
      <4>2. CASE committing = 0 /\ outstanding = 0
        <5>1. Len(lh) = 0
          BY <4>1, <4>2, SMTT(30) DEF SpaceInv, Room
        <5>2. (outstanding + 1) * MAXOPBLOCKS = MAXOPBLOCKS
          BY <2>t, <4>2, SMTT(30)
        <5>3. MAXOPBLOCKS > LOGSIZE
          BY <2>t, <3>1, <4>2, <5>1, <5>2, SMTT(30) DEF LogIsFull
        <5> QED
          BY <2>t, <5>3, SMTT(30) DEF CallsFit
      <4> QED
        BY <2>t, <4>1, <4>2, SMTT(30) DEF TypeOK
    <3>2. CASE ~(committing = 1 \/ LogIsFull)
      <4>1. outstanding' = outstanding + 1
        BY <2>1, <3>2 DEF begin_op
      <4> QED
        BY <2>t, <4>1, SMTT(30)
    <3> QED
      BY <3>1, <3>2
  <2>2. ASSUME NEW p \in Procs, end_op(p) PROVE committing' = 1 \/ outstanding' > 0
    <3>1. CASE outstanding' = 0
      BY <2>2, <3>1 DEF end_op
    <3>2. CASE outstanding' # 0
      <4>1. pc' = Wakeup(p, "idle")
        BY <2>2, <3>2 DEF end_op
      <4> QED
        BY <4>1 DEF Wakeup
    <3> QED
      BY <3>1, <3>2
  <2>3. ASSUME NEW p \in Procs, end_commit(p) PROVE FALSE
    BY <2>3 DEF end_commit, Wakeup
  <2>4. ASSUME NEW p \in Procs, \/ log_write(p) \/ write_log(p) \/ write_head(p)
                                \/ install_trans(p) \/ clear_head(p)
                                \/ \E b \in Blocks, v \in Vals : Modify(p, b, v)
        PROVE  committing' = 1 \/ outstanding' > 0
    <3>1. UNCHANGED <<committing, outstanding>> /\ pc[q] = "sleep"
      BY <2>t, <2>4 DEF log_write, write_log, write_head, install_trans, clear_head,
                        Modify, TypeOK
    <3> QED
      BY <2>0, <2>t, <3>1
  <2>5. CASE UNCHANGED <<pc, committing, outstanding>>
    BY <2>0, <2>5, <2>t
  <2>6. CASE Crash
    BY <2>6 DEF Crash
  <2> QED
    BY <2>1, <2>2, <2>3, <2>4, <2>5, <2>6
    DEF Next, CommitStep, Recover, bread, Recycle, read_head, recover_install,
        recover_clear, vars
<1> QED
  BY <1>1, <1>2, Space, Invariance, PTL DEF Spec
=============================================================================
