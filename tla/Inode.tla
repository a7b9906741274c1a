-------------------------------- MODULE Inode --------------------------------
(***************************************************************************)
(* The locking of kernel/fs.c and kernel/sysfile.c: processes create,      *)
(* open, link and remove files at the same time.  A step is a stretch of   *)
(* code during which a process waits for no inode lock; itable.lock makes  *)
(* its sections atomic.  Transactions and disk blocks are left to Log and  *)
(* Fs.  A path is a sequence of names that starts at the root.             *)
(***************************************************************************)
EXTENDS Integers, Sequences, FiniteSets, FiniteSetsExt

CONSTANTS Procs, NoProc,
          Names,        \* the names of files, besides "." and ".."
          NINODES,
          Calls         \* the calls processes make: op, path and new path

ASSUME InodeAssumption ==
  /\ NINODES \in Nat /\ NINODES > 1 /\ NoProc \notin Procs /\ {".", ".."} \cap Names = {}
  /\ \A c \in Calls : c.path # <<>> /\ c.new # <<>>

Inums == 1 .. NINODES
ROOT == 1

VARIABLES dinode,       \* on disk: type and nlink
          dir,          \* the content of directories: names to inode numbers, or 0
          inode,        \* itable: ref, lock, valid, and the copy of type and nlink
          proc,         \* pc, the call, dp and ip, the rest of the path, and for iput()
                        \* its argument t and where it returns to
          lost,         \* (history) inodes entered in a directory that was removed
          late,         \* (history) inodes allocated before the iput() that freed them returned
          stray         \* (history) processes that looked up ".." in a removed directory

history == <<lost, late, stray>>
vars == <<dinode, dir, inode, proc, history>>

Pcs == {"idle", "walk", "op", "new", "exists", "made", "open", "victim", "nonempty",
        "dropped", "linked", "taken", "bad", "iput", "trunc", "freed", "deref", "panic"}
Types == {"none", "file", "dir"}
Zero == 0 .. NINODES

TypeOK ==
  /\ dinode \in [Inums -> [type : Types, nlink : Nat]]
  /\ dir \in [Inums -> [Names \cup {".."} -> Zero]]
  /\ inode \in [Inums -> [ref : Nat, lock : Procs \cup {NoProc}, valid : BOOLEAN,
                          type : Types, nlink : Nat]]
  /\ \A p \in Procs : /\ proc[p].pc \in Pcs /\ proc[p].ret \in Pcs
                      /\ {proc[p].dp, proc[p].ip, proc[p].t} \subseteq Zero
  /\ lost \subseteq Inums /\ late \subseteq Inums /\ stray \subseteq Procs

NoCall == [op |-> "none", path |-> <<>>, new |-> <<>>]
Idle == [pc |-> "idle", call |-> NoCall, dp |-> 0, ip |-> 0, todo |-> <<>>, t |-> 0,
         ret |-> "idle"]
NoDir == [n \in Names \cup {".."} |-> 0]

Allocated == {i \in Inums : dinode[i].type # "none"}
Copy(i) == [type |-> inode[i].type, nlink |-> inode[i].nlink]

-----------------------------------------------------------------------------
(* Each process makes one call; a process that has opened a file closes it.*)
At(p, pc) == proc[p].pc = pc
Op(p) == proc[p].call.op
Unlocked(i) == inode[i].lock = NoProc

(* nameiparent() for all calls but open; for the second path of link.      *)
Second(p) == Op(p) = "link" /\ proc[p].ip # 0
Parent(p) == Op(p) \in {"create", "mkdir", "unlink"} \/ Second(p)
Name(p) == IF Second(p) THEN proc[p].call.new[Len(proc[p].call.new)]
           ELSE proc[p].call.path[Len(proc[p].call.path)]

(* The inode after ilock(): read from disk if it was not valid.            *)
Loaded(i) == IF inode[i].valid THEN inode[i] ELSE [inode[i] EXCEPT !.valid = TRUE,
                !.type = dinode[i].type, !.nlink = dinode[i].nlink]
Locked(i, p) == [Loaded(i) EXCEPT !.lock = p]
Typeless(i) == ~inode[i].valid /\ dinode[i].type = "none"

(* The entry of itable after iget(): a new one is not valid.               *)
Got(r) == IF r.ref > 0 THEN [r EXCEPT !.ref = @ + 1] ELSE [r EXCEPT !.ref = 1, !.valid = FALSE]

(* Process p calls iput(t) and goes on at ret.                             *)
Iput(p, r, t, ret) == proc' = [proc EXCEPT ![p] = [r EXCEPT !.pc = "iput", !.t = t, !.ret = ret]]
Panic(p) == proc' = [proc EXCEPT ![p].pc = "panic"] /\ UNCHANGED <<dinode, dir, inode, history>>

(* namex(): iget() of the root.                                            *)
call(p, c) ==
  /\ At(p, "idle") /\ proc[p].call = NoCall
  /\ inode' = [inode EXCEPT ![ROOT] = Got(@)]
  /\ proc' = [proc EXCEPT ![p] = [Idle EXCEPT !.pc = "walk", !.call = c, !.dp = ROOT,
                                              !.todo = c.path]]
  /\ UNCHANGED <<dinode, dir, history>>

(* Where a call goes on when namex() returns 0.                            *)
NotFound(p) == IF Second(p) THEN "bad" ELSE "idle"

(* One iteration of namex(): ilock(ip), dirlookup(), iunlockput(ip).       *)
walk(p) ==
  LET r == proc[p]
      d == r.dp
      last == Parent(p) /\ Len(r.todo) = 1
      isdir == Loaded(d).type = "dir"
      n == IF isdir THEN dir[d][Head(r.todo)] ELSE 0
  IN /\ At(p, "walk") /\ r.todo # <<>> /\ Unlocked(d)
     /\ IF Typeless(d) THEN Panic(p)
        ELSE /\ IF isdir /\ last
                  THEN /\ inode' = [inode EXCEPT ![d] = Loaded(d)]
                       /\ proc' = [proc EXCEPT ![p].pc = "op"]
                ELSE IF n # 0
                  THEN /\ inode' = [inode EXCEPT ![d] = Loaded(d), ![n] = Got(@)]
                       /\ Iput(p, [r EXCEPT !.dp = n, !.todo = Tail(@)], d, "walk")
                ELSE /\ inode' = [inode EXCEPT ![d] = Loaded(d)]
                     /\ Iput(p, r, d, NotFound(p))
             /\ stray' = IF ~last /\ Head(r.todo) = ".." /\ Loaded(d).nlink = 0
                           THEN stray \cup {p} ELSE stray
             /\ UNCHANGED <<dinode, dir, lost, late>>

(* namei() has found the inode of open, or the old one of link.            *)
walked(p) ==
  /\ At(p, "walk") /\ proc[p].todo = <<>>
  /\ proc' = [proc EXCEPT ![p] = [@ EXCEPT !.pc = "op", !.ip = proc[p].dp, !.dp = 0]]
  /\ UNCHANGED <<dinode, dir, inode, history>>

-----------------------------------------------------------------------------
(* iput(t).  The comment in the code says that acquiresleep() cannot wait  *)
(* when ip->ref is 1; it is called with itable.lock held, where a process  *)
(* must not sleep.                                                         *)

(* Mutant: the last reference is not told from the others.                 *)
IsLast_Mutant(t) == inode[t].valid /\ inode[t].nlink = 0
IsLast(t) == inode[t].ref = 1 /\ inode[t].valid /\ inode[t].nlink = 0

(* ip->ref--, and the return; the registers of a call that ends are dead.  *)
Deref(p) ==
  LET r == proc[p]
  IN /\ inode' = [inode EXCEPT ![r.t].ref = @ - 1]
     /\ proc' = [proc EXCEPT ![p] = IF r.ret = "idle" THEN [Idle EXCEPT !.call = r.call]
                                    ELSE [r EXCEPT !.pc = r.ret, !.t = 0]]

iput(p) ==
  LET t == proc[p].t
  IN /\ At(p, "iput")
     /\ IF ~IsLast(t) THEN Deref(p)
        ELSE IF Unlocked(t)
          THEN /\ proc' = [proc EXCEPT ![p].pc = "trunc"]
               /\ inode' = [inode EXCEPT ![t].lock = p]
        ELSE proc' = [proc EXCEPT ![p].pc = "panic"] /\ UNCHANGED inode
     /\ UNCHANGED <<dinode, dir, history>>

iput_trunc(p) ==
  LET t == proc[p].t
  IN /\ At(p, "trunc")
     /\ dir' = [dir EXCEPT ![t] = NoDir]
     /\ dinode' = [dinode EXCEPT ![t] = [type |-> "none", nlink |-> inode[t].nlink]]
     /\ inode' = [inode EXCEPT ![t].type = "none"]
     /\ proc' = [proc EXCEPT ![p].pc = "freed"]
     /\ UNCHANGED history

(* Mutant: the entry of itable stays valid.                                *)
Freed_Mutant(t) == [inode[t] EXCEPT !.lock = NoProc]
Freed(t) == [inode[t] EXCEPT !.valid = FALSE, !.lock = NoProc]

iput_freed(p) ==
  LET t == proc[p].t
  IN /\ At(p, "freed")
     /\ inode' = [inode EXCEPT ![t] = Freed(t)]
     /\ proc' = [proc EXCEPT ![p].pc = "deref"]
     /\ UNCHANGED <<dinode, dir, history>>

iput_deref(p) == At(p, "deref") /\ Deref(p) /\ UNCHANGED <<dinode, dir, history>>

-----------------------------------------------------------------------------
(* create(): with dp locked, the name is looked up.                        *)
Free == {i \in Inums : dinode[i].type = "none"}
NewType(p) == IF Op(p) = "mkdir" THEN "dir" ELSE "file"

create(p) ==
  LET r == proc[p]
      d == r.dp
      n == dir[d][Name(p)]
      j == Min(Free)
  IN /\ At(p, "op") /\ Op(p) \in {"create", "mkdir"} /\ Unlocked(d)
     /\ UNCHANGED <<dir, lost, stray>>
     /\ IF n # 0
          THEN /\ inode' = [inode EXCEPT ![n] = Got(@)]
               /\ Iput(p, [r EXCEPT !.ip = n, !.dp = 0], d, "exists")
               /\ UNCHANGED <<dinode, late>>
        ELSE IF Free # {}       \* ialloc()
          THEN /\ dinode' = [dinode EXCEPT ![j] = [type |-> NewType(p), nlink |-> 0]]
               /\ inode' = [inode EXCEPT ![d] = Locked(d, p), ![j] = Got(@)]
               /\ proc' = [proc EXCEPT ![p] = [@ EXCEPT !.pc = "new", !.ip = j]]
               /\ late' = IF inode[j].ref > 0 THEN late \cup {j} ELSE late \ {j}
        ELSE proc' = [proc EXCEPT ![p].pc = "panic"] /\ UNCHANGED <<dinode, inode, late>>

(* ilock() of the new inode, and the entries.                              *)
create_new(p) ==
  LET r == proc[p]
      up == IF Op(p) = "mkdir" THEN 1 ELSE 0
  IN /\ At(p, "new") /\ Unlocked(r.ip)
     /\ IF Typeless(r.ip) THEN Panic(p)
        ELSE /\ inode' = [inode EXCEPT ![r.ip] = [Locked(r.ip, p) EXCEPT !.nlink = 1],
                                       ![r.dp] = [@ EXCEPT !.nlink = @ + up, !.lock = NoProc]]
             /\ dinode' = [dinode EXCEPT ![r.ip] = [type |-> Loaded(r.ip).type, nlink |-> 1],
                                         ![r.dp].nlink = inode[r.dp].nlink + up]
             /\ dir' = [dir EXCEPT ![r.dp][Name(p)] = r.ip,
                                   ![r.ip][".."] = IF up = 1 THEN r.dp ELSE @]
             /\ lost' = IF inode[r.dp].nlink = 0 THEN lost \cup {r.ip} ELSE lost \ {r.ip}
             /\ Iput(p, [r EXCEPT !.dp = 0], r.dp, "made")
             /\ UNCHANGED <<late, stray>>

create_exists(p) ==
  LET r == proc[p]
  IN /\ At(p, "exists") /\ Unlocked(r.ip)
     /\ IF Typeless(r.ip) THEN Panic(p)
        ELSE /\ UNCHANGED <<dinode, dir, history>>
             /\ IF Op(p) = "create" /\ Loaded(r.ip).type = "file"
                  THEN /\ inode' = [inode EXCEPT ![r.ip] = Loaded(r.ip)]
                       /\ proc' = [proc EXCEPT ![p].pc = "open"]
                ELSE /\ inode' = [inode EXCEPT ![r.ip] = Loaded(r.ip)]
                     /\ Iput(p, r, r.ip, "idle")

(* sys_open() and sys_mkdir() unlock what create() returned.               *)
create_made(p) ==
  LET r == proc[p]
  IN /\ At(p, "made")
     /\ inode' = [inode EXCEPT ![r.ip].lock = NoProc]
     /\ IF Op(p) = "mkdir" THEN Iput(p, r, r.ip, "idle")
        ELSE proc' = [proc EXCEPT ![p].pc = "open"]
     /\ UNCHANGED <<dinode, dir, history>>

(* sys_open() without O_CREATE; later fileclose() or exit().               *)
open(p) ==
  LET i == proc[p].ip
  IN /\ At(p, "op") /\ Op(p) = "open" /\ Unlocked(i)
     /\ IF Typeless(i) THEN Panic(p)
        ELSE /\ inode' = [inode EXCEPT ![i] = Loaded(i)]
             /\ proc' = [proc EXCEPT ![p].pc = "open"]
             /\ UNCHANGED <<dinode, dir, history>>

close(p) ==
  /\ At(p, "open")
  /\ Iput(p, proc[p], proc[p].ip, "idle")
  /\ UNCHANGED <<dinode, dir, inode, history>>

-----------------------------------------------------------------------------
(* sys_unlink(): dp is locked, then ip.                                    *)
unlink(p) ==
  LET r == proc[p]
      n == dir[r.dp][Name(p)]
  IN /\ At(p, "op") /\ Op(p) = "unlink" /\ Unlocked(r.dp)
     /\ IF Name(p) \in {".", ".."} \/ n = 0 THEN Iput(p, r, r.dp, "idle") /\ UNCHANGED inode
        ELSE /\ inode' = [inode EXCEPT ![n] = Got(@), ![r.dp] = Locked(r.dp, p)]
             /\ proc' = [proc EXCEPT ![p] = [@ EXCEPT !.pc = "victim", !.ip = n]]
     /\ UNCHANGED <<dinode, dir, history>>

isdirempty(i) == \A n \in Names : dir[i][n] = 0

MayRemove(i) == Loaded(i).type = "dir" => isdirempty(i)

unlink_victim(p) ==
  LET r == proc[p]
      down == IF Loaded(r.ip).type = "dir" THEN 1 ELSE 0
  IN /\ At(p, "victim") /\ Unlocked(r.ip)
     /\ IF Typeless(r.ip) \/ Loaded(r.ip).nlink < 1 THEN Panic(p)
        ELSE IF ~MayRemove(r.ip)
          THEN /\ inode' = [inode EXCEPT ![r.ip] = Loaded(r.ip)]
               /\ Iput(p, r, r.ip, "nonempty")
               /\ UNCHANGED <<dinode, dir, history>>
        ELSE /\ dir' = [dir EXCEPT ![r.dp][Name(p)] = 0]
             /\ inode' = [inode EXCEPT ![r.ip] = Locked(r.ip, p),
                            ![r.dp] = [@ EXCEPT !.nlink = @ - down, !.lock = NoProc]]
             /\ dinode' = [dinode EXCEPT ![r.dp].nlink = inode[r.dp].nlink - down]
             /\ Iput(p, [r EXCEPT !.dp = 0], r.dp, "dropped")
             /\ UNCHANGED history

unlink_nonempty(p) ==
  LET r == proc[p]
  IN /\ At(p, "nonempty")
     /\ inode' = [inode EXCEPT ![r.dp].lock = NoProc]
     /\ Iput(p, r, r.dp, "idle")
     /\ UNCHANGED <<dinode, dir, history>>

unlink_dropped(p) ==
  LET i == proc[p].ip
  IN /\ At(p, "dropped")
     /\ inode' = [inode EXCEPT ![i] = [@ EXCEPT !.nlink = @ - 1, !.lock = NoProc]]
     /\ dinode' = [dinode EXCEPT ![i] = [Copy(i) EXCEPT !.nlink = @ - 1]]
     /\ Iput(p, proc[p], i, "idle")
     /\ UNCHANGED <<dir, history>>

-----------------------------------------------------------------------------
(* Mutant: ip stays locked.                                                *)
LinkLock_Mutant(p) == p
LinkLock(p) == NoProc

(* sys_link(): ip->nlink++ first, then iunlock(ip) and nameiparent(new).   *)
link(p) ==
  LET r == proc[p]
      i == r.ip
  IN /\ At(p, "op") /\ Op(p) = "link" /\ r.dp = 0 /\ Unlocked(i)
     /\ IF Typeless(i) THEN Panic(p)
        ELSE IF Loaded(i).type = "dir"
          THEN /\ inode' = [inode EXCEPT ![i] = Loaded(i)]
               /\ Iput(p, r, i, "idle")
               /\ UNCHANGED <<dinode, dir, history>>
        ELSE /\ inode' = [inode EXCEPT ![i] = [Loaded(i) EXCEPT !.nlink = @ + 1,
                                                                        !.lock = LinkLock(p)],
                                       ![ROOT] = Got(@)]
             /\ dinode' = [dinode EXCEPT ![i].nlink = Loaded(i).nlink + 1]
             /\ proc' = [proc EXCEPT ![p] = [@ EXCEPT !.pc = "walk", !.dp = ROOT,
                                                      !.todo = r.call.new]]
             /\ UNCHANGED <<dir, history>>

(* dirlink() in the parent of the new name, which must not be there.       *)
link_new(p) ==
  LET r == proc[p]
      old == dir[r.dp][Name(p)]
  IN /\ At(p, "op") /\ Op(p) = "link" /\ r.dp # 0 /\ Unlocked(r.dp)
     /\ IF old # 0
          THEN /\ inode' = [inode EXCEPT ![r.dp] = Locked(r.dp, p), ![old] = Got(@)]
               /\ Iput(p, r, old, "taken")
               /\ UNCHANGED <<dir, lost>>
        ELSE /\ dir' = [dir EXCEPT ![r.dp][Name(p)] = r.ip]
             /\ lost' = IF inode[r.dp].nlink = 0 THEN lost \cup {r.ip} ELSE lost
             /\ Iput(p, [r EXCEPT !.dp = 0], r.dp, "linked")
             /\ UNCHANGED inode
     /\ UNCHANGED <<dinode, late, stray>>

link_taken(p) ==
  LET r == proc[p]
  IN /\ At(p, "taken")
     /\ inode' = [inode EXCEPT ![r.dp].lock = NoProc]
     /\ Iput(p, [r EXCEPT !.dp = 0], r.dp, "bad")
     /\ UNCHANGED <<dinode, dir, history>>

link_done(p) ==
  /\ At(p, "linked")
  /\ Iput(p, proc[p], proc[p].ip, "idle")
  /\ UNCHANGED <<dinode, dir, inode, history>>

(* Mutant: the label bad does not take the link back.                      *)
Unlinked_Mutant(i) == Loaded(i).nlink
Unlinked(i) == Loaded(i).nlink - 1

link_bad(p) ==
  LET i == proc[p].ip
  IN /\ At(p, "bad") /\ Unlocked(i)
     /\ IF Typeless(i) THEN Panic(p)
        ELSE /\ inode' = [inode EXCEPT ![i] = [Loaded(i) EXCEPT !.nlink = Unlinked(i)]]
             /\ dinode' = [dinode EXCEPT ![i].nlink = Unlinked(i)]
             /\ Iput(p, proc[p], i, "idle")
             /\ UNCHANGED <<dir, history>>

-----------------------------------------------------------------------------
Step(p) ==
  \/ walk(p) \/ walked(p) \/ iput(p) \/ iput_trunc(p) \/ iput_freed(p) \/ iput_deref(p)
  \/ create(p) \/ create_new(p) \/ create_exists(p) \/ create_made(p)
  \/ open(p) \/ close(p)
  \/ unlink(p) \/ unlink_victim(p) \/ unlink_nonempty(p) \/ unlink_dropped(p)
  \/ link(p) \/ link_new(p) \/ link_taken(p) \/ link_done(p) \/ link_bad(p)

Done(p) == At(p, "idle") /\ proc[p].call # NoCall

(* Nothing is said of what other CPUs do after a panic.                    *)
Running == \A p \in Procs : ~At(p, "panic")

Next ==
  \/ Running /\ \E p \in Procs : Step(p) \/ \E c \in Calls : call(p, c)
  \/ (~Running \/ \A p \in Procs : Done(p)) /\ UNCHANGED vars

(* The tree: root, a directory d, and a file x in the root or in d, or a   *)
(* directory d in d.                                                       *)
Tree(where) ==
  LET entry(d, w, n) == IF where = w THEN [d EXCEPT ![n] = 3] ELSE d
  IN /\ dinode = [i \in Inums |->
           CASE i = 1 -> [type |-> "dir", nlink |-> 2]
             [] i = 2 -> [type |-> "dir", nlink |-> IF where = "d/d" THEN 2 ELSE 1]
             [] i = 3 -> [type |-> IF where = "d/d" THEN "dir" ELSE "file", nlink |-> 1]
             [] i > 3 -> [type |-> "none", nlink |-> 0]]
     /\ dir = [i \in Inums |->
           CASE i = 1 -> entry([NoDir EXCEPT !["d"] = 2, ![".."] = 1], "x", "x")
             [] i = 2 -> entry(entry([NoDir EXCEPT ![".."] = 1], "d/x", "x"), "d/d", "d")
             [] i = 3 -> [NoDir EXCEPT ![".."] = IF where = "d/d" THEN 2 ELSE 0]
             [] i > 3 -> NoDir]

Init ==
  /\ \E where \in {"x", "d/x", "d/d"} : Tree(where)
  /\ inode = [i \in Inums |-> [ref |-> 0, lock |-> NoProc, valid |-> FALSE, type |-> "none",
                               nlink |-> 0]]
  /\ proc = [p \in Procs |-> Idle]
  /\ lost = {} /\ late = {} /\ stray = {}

Spec == Init /\ [][Next]_vars

-----------------------------------------------------------------------------
(* No inode is used that is free on disk, no link count goes below zero,   *)
(* and iput() does not wait with itable.lock held ("this acquiresleep()    *)
(* won't block (or deadlock)", fs.c:341).  Excepted is a process that      *)
(* looked up ".." in a directory that was removed: it may name an inode    *)
(* that is free, on which ilock() panics.                                  *)
NoPanic == \A p \in Procs \ stray : ~At(p, "panic")

(* The types hold, and the copy of an inode nobody has locked is what the  *)
(* disk holds, also for an inode that was freed and allocated again while  *)
(* a process was still in iput() (fs.c:297-309).                           *)
CopyIsCurrent ==
  /\ TypeOK
  /\ \A i \in Inums : inode[i].valid /\ Unlocked(i) => Copy(i) = dinode[i]

Quiet == \A p \in Procs : proc[p].pc \in {"idle", "open"}

Entries(i) == {e \in Allocated \X (Names \cup {".."}) :
                 dir[e[1]][e[2]] = i /\ (e[2] = ".." => dinode[e[1]].nlink > 0)}

(* When no call is in progress, nlink counts the entries for the inode, no *)
(* entry names a free inode, and inodes without links or users are free.   *)
(* Excepted are an inode entered in a directory that was removed meanwhile *)
(* (create() and link() do not look at dp->nlink), and an inode that was   *)
(* allocated while iput() stood between releasesleep() and ip->ref--.      *)
LinksBalance ==
  Quiet =>
    /\ \A i \in Allocated \ lost : dinode[i].nlink = Cardinality(Entries(i))
    /\ \A i \in Allocated \ late : dinode[i].nlink = 0 => inode[i].ref > 0
    /\ \A i \in Inums \ Allocated : Entries(i) = {}

(* The inode whose lock the process needs for its next step, or 0.         *)
Wanted(p) ==
  CASE proc[p].pc \in {"new", "exists", "victim", "bad"} -> proc[p].ip
    [] At(p, "walk") /\ proc[p].todo # <<>> -> proc[p].dp
    [] At(p, "op") -> IF proc[p].dp # 0 THEN proc[p].dp ELSE proc[p].ip
    [] OTHER -> 0

(* No processes wait for each other's inode locks in a circle: a directory *)
(* is locked before its entry, a new inode is known to its creator only,   *)
(* and namex() holds no lock when it goes to "..".                         *)
NoCircularWait ==
  \A S \in SUBSET Procs \ {{}} :
    \E p \in S : Wanted(p) = 0 \/ inode[Wanted(p)].lock \notin S
=============================================================================
