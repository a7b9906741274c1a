------------------------------ MODULE Syscalls ------------------------------
(***************************************************************************)
(* Processes that run programs made of system calls over Sysfile.  A       *)
(* program is a sequence of calls; each call says which results its author *)
(* accepts.  A call is one step, except that write() ends one transaction  *)
(* per step, as filewrite() does.  Process 1 is init.                      *)
(***************************************************************************)
EXTENDS Sysfile, Mkfs

CONSTANT N              \* iterations of a program's loop (100 to 1000 in the code)

VARIABLES k,        \* the kernel state (Fs, Sysfile)
          proc,     \* state, parent, exit status and last result of a process
          prog,     \* the calls a process has still to make
          wrong     \* a call returned what its author did not expect

vars == <<k, proc, prog, wrong>>

init == 1

-----------------------------------------------------------------------------
(* Calls.  v is the set of results expected, want the data expected, check *)
(* the name of a test of the data (see Check).  The descriptor LAST is the *)
(* result of the process's previous call.                                  *)
LAST == 99
SELF == -1
ANY == -1 .. 99
OK == {0}
FAIL == {-1}

Base == [op |-> "", path |-> <<>>, new |-> <<>>, mode |-> {}, fd |-> 0, n |-> 0,
         data |-> <<>>, badaddr |-> FALSE, v |-> ANY, want |-> <<>>, check |-> "",
         child |-> <<>>, choices |-> {}, args |-> <<>>, addr |-> -1, top |-> FALSE,
         seq |-> 0]

open(path, mode, v) == [Base EXCEPT !.op = "open", !.path = path, !.mode = mode, !.v = v]
close(fd) == [Base EXCEPT !.op = "close", !.fd = fd]
read(fd, n, v) == [Base EXCEPT !.op = "read", !.fd = fd, !.n = n, !.v = v]
readwant(fd, n, want) ==
  [Base EXCEPT !.op = "read", !.fd = fd, !.n = n, !.v = {Len(want)}, !.want = want]
readall(fd, data) ==
  [Base EXCEPT !.op = "readall", !.fd = fd, !.n = 1, !.data = data, !.v = {Len(data)}]
write(fd, data, v) == [Base EXCEPT !.op = "write", !.fd = fd, !.data = data, !.v = v]
dup(fd, v) == [Base EXCEPT !.op = "dup", !.fd = fd, !.v = v]
fstat(fd, want) == [Base EXCEPT !.op = "fstat", !.fd = fd, !.v = OK, !.want = want]
link(old, new, v) == [Base EXCEPT !.op = "link", !.path = old, !.new = new, !.v = v]
unlink(path, v) == [Base EXCEPT !.op = "unlink", !.path = path, !.v = v]
mkdir(path, v) == [Base EXCEPT !.op = "mkdir", !.path = path, !.v = v]
chdir(path, v) == [Base EXCEPT !.op = "chdir", !.path = path, !.v = v]
pipe(v) == [Base EXCEPT !.op = "pipe", !.v = v]
fork(child) == [Base EXCEPT !.op = "fork", !.child = child, !.v = 1 .. 99]
tryfork(child) == [fork(child) EXCEPT !.v = ANY]
wait(v) == [Base EXCEPT !.op = "wait", !.v = v]
kill == [Base EXCEPT !.op = "kill", !.v = OK]
killpid(pid) == [kill EXCEPT !.n = pid]
killself == killpid(SELF)
spin == [Base EXCEPT !.op = "spin"]
run(path, args, program) ==
  [Base EXCEPT !.op = "exec", !.path = path, !.args = args, !.child = program, !.v = {}]
sbrk(n, v) == [Base EXCEPT !.op = "sbrk", !.n = n, !.v = v]
sbrkto(n, v) == [sbrk(n, v) EXCEPT !.top = TRUE]        \* sbrk(n - sbrk(0))
sbrkall == [Base EXCEPT !.op = "sbrkall"]               \* sbrk(PGSIZE) until it fails
access(addr) == [Base EXCEPT !.op = "access", !.addr = addr]
exit(status) == [Base EXCEPT !.op = "exit", !.n = status]
Bad(call) == [call EXCEPT !.badaddr = TRUE]
Using(call, addr) == [call EXCEPT !.addr = addr]        \* its argument points to addr
Top(call) == [call EXCEPT !.top = TRUE]                 \* addr counts down from sbrk(0)
Either(S) == [Base EXCEPT !.op = "either", !.choices = S]

(* n cells of data, all c; the calls of f(1), ..., f(n).                   *)
Fill(c, n) == [i \in 1 .. n |-> <<0, c>>]
Repeat(n, f(_)) == FoldLeft(LAMBDA s, i : s \o f(i), <<>>, [i \in 1 .. n |-> i])
BUFSZ == (MAXOPBLOCKS + 2) * BSIZE
CREATE == {"CREATE"}
RDONLY == {}
RDWR == {"RDWR"}
WRONLY == {"WRONLY"}
TRUNC == {"TRUNC"}

-----------------------------------------------------------------------------
(* The kernel as it starts /init, and what init.c does before it forks.    *)
Boot ==
  LET im == mkfs
  IN [dinode |-> im.dinode, blk |-> im.blk, bitmap |-> BBLOCK + 1 .. im.freeblock - 1,
      inode |-> [i \in Inums |-> [ref |-> IF i = ROOTINO THEN 1 ELSE 0,
                                  valid |-> FALSE] @@ NoInode],
      locked |-> {}, intrans |-> FALSE, logged |-> {}, fits |-> TRUE, panic |-> "",
      file |-> [f \in Files |-> NoFile],
      pipe |-> [q \in Pipes |-> [q |-> <<>>, readopen |-> FALSE, writeopen |-> FALSE]],
      ofile |-> [p \in Procs |-> [fd \in Fds |-> 0]],
      cwd |-> [p \in Procs |-> IF p = init THEN ROOTINO ELSE 0],
      free |-> NPAGES, vm |-> [p \in Procs |-> NoTable], sz |-> [p \in Procs |-> 0],
      done |-> [p \in Procs |-> 0], v |-> 0, buf |-> <<>>]

open_console(l) == sys_open(l, init, <<"console">>, {"RDWR"})
make_console(l) ==
  IF l.v >= 0 THEN l
  ELSE open_console(sys_mknod(l, init, <<"console">>, "dev", CONSOLE))

init_main ==
  sys_dup(sys_dup(make_console(open_console(
    sys_exec(userinit(Boot, init), init, <<"/", "init">>, <<1>>))), init, 0), init, 0)

Quiet(l, p) == [l EXCEPT !.v = 0, !.buf = <<>>,
                         !.done[p] = IF l.v = Again THEN @ ELSE 0]

-----------------------------------------------------------------------------
Fd(p) == IF Head(prog[p]).fd = LAST THEN proc[p].last ELSE Head(prog[p]).fd

(* A killed process exits on its way back to user space; filewrite() does  *)
(* not look at p->killed between two transactions, pipewrite() does.       *)
MidWrite(p) == k.done[p] > 0 /\ k.file[argfd(k, p, Fd(p))].type = "inode"
Running(p) == proc[p].state = "run" /\ prog[p] # <<>> /\ (proc[p].killed => MidWrite(p))
Addr(p) == IF Head(prog[p]).top THEN k.sz[p] - Head(prog[p]).addr ELSE Head(prog[p]).addr
BadAddr(p) == \/ Head(prog[p]).badaddr
              \/ Head(prog[p]).addr >= 0 /\ ~IsUser(k, p, Addr(p))
TakesPath == {"open", "link", "unlink", "mkdir", "chdir", "exec"}
Asks(p, op) == Running(p) /\ Head(prog[p]).op = op
Calls(p, op) == Asks(p, op) /\ (op \in TakesPath => ~BadAddr(p))

(* Tests of data that no single value expresses.                           *)
Check(name, buf) ==
  LET count(c) == Cardinality({n \in DOMAIN buf : buf[n][2] = c})
  IN CASE name = "" -> TRUE
       [] name = "sharedfd" -> count("c") = 20 /\ count("p") = 20
       [] name = "size1" -> buf[3] = 1
       [] name = "concreate" -> count("C0") = 1 /\ count("C1") = 1

Expected(c, v, buf) ==
  v \in c.v /\ (c.want # <<>> => buf = c.want) /\ Check(c.check, buf)

(* The call c of p ends with kernel state l, or ends one of its parts.     *)
Apply(p, l) ==
  LET c == Head(prog[p])
  IN /\ l.v # Blocked
     /\ k' = Quiet(l, p)
     /\ IF l.v = Again THEN UNCHANGED <<proc, prog, wrong>>
        ELSE /\ prog' = [prog EXCEPT ![p] = Tail(@)]
             /\ proc' = [proc EXCEPT ![p].last = l.v]
             /\ wrong' = (wrong \/ ~Expected(c, l.v, l.buf))

Call_open(p) == /\ Calls(p, "open")
                /\ Apply(p, sys_open(k, p, Head(prog[p]).path, Head(prog[p]).mode))
Call_close(p) == Calls(p, "close") /\ Apply(p, sys_close(k, p, Fd(p)))
Call_read(p) == /\ Calls(p, "read")
                /\ Apply(p, sys_read(k, p, Fd(p), Head(prog[p]).n, BadAddr(p)))
Call_write(p) == /\ Calls(p, "write")
                 /\ Apply(p, sys_write(k, p, Fd(p), Head(prog[p]).data, BadAddr(p)))
(* read() of 1, 2, 4, ... cells until the end of the file: what is read is *)
(* c.data, of which c.seq cells have been seen.                            *)
Call_readall(p) ==
  LET c == Head(prog[p])
      l == sys_read(k, p, Fd(p), c.n, BadAddr(p))
      next == [c EXCEPT !.n = Min({2 * c.n, BUFSZ}), !.seq = c.seq + l.v]
  IN /\ Calls(p, "readall")
     /\ IF l.v <= 0 THEN Apply(p, [l EXCEPT !.v = IF @ = 0 THEN c.seq ELSE @])
        ELSE /\ k' = Quiet(l, p)
             /\ prog' = [prog EXCEPT ![p] = <<next>> \o Tail(@)]
             /\ wrong' = (wrong \/ l.buf # SubSeq(c.data, c.seq + 1, next.seq))
             /\ UNCHANGED proc

Call_dup(p) == Calls(p, "dup") /\ Apply(p, sys_dup(k, p, Fd(p)))
Call_fstat(p) == Calls(p, "fstat") /\ Apply(p, sys_fstat(k, p, Fd(p), BadAddr(p)))
Call_link(p) == /\ Calls(p, "link")
                /\ Apply(p, sys_link(k, p, Head(prog[p]).path, Head(prog[p]).new))
Call_unlink(p) == Calls(p, "unlink") /\ Apply(p, sys_unlink(k, p, Head(prog[p]).path))
Call_mkdir(p) == Calls(p, "mkdir") /\ Apply(p, sys_mknod(k, p, Head(prog[p]).path, "dir", 0))
Call_chdir(p) == Calls(p, "chdir") /\ Apply(p, sys_chdir(k, p, Head(prog[p]).path))
Call_pipe(p) == Calls(p, "pipe") /\ Apply(p, sys_pipe(k, p, BadAddr(p)))

Call_sbrk(p) ==
  LET c == Head(prog[p])
  IN Calls(p, "sbrk") /\ Apply(p, sys_sbrk(k, p, IF c.top THEN c.n - k.sz[p] ELSE c.n))

Call_sbrkall(p) ==
  LET l == sys_sbrk(k, p, PGSIZE)
  IN /\ Calls(p, "sbrkall")
     /\ Apply(p, IF l.v >= 0 THEN Return(l, Again) ELSE l)

(* argstr() fails: the path is too long or not in user memory.             *)
Bad_path(p) == (\E op \in TakesPath : Asks(p, op)) /\ BadAddr(p) /\ Apply(p, Return(k, -1))

(* exec() replaces the program.                                            *)
Become(p, l) ==
  IF l.v < 0 THEN Apply(p, l)
  ELSE /\ k' = Quiet(l, p)
       /\ prog' = [prog EXCEPT ![p] = Head(@).child]
       /\ UNCHANGED <<proc, wrong>>

Call_exec(p) ==
  /\ Calls(p, "exec")
  /\ Become(p, sys_exec(k, p, Head(prog[p]).path, Head(prog[p]).args))

(* The program goes on in one of several ways.                             *)
Choose(p) ==
  /\ Calls(p, "either")
  /\ \E s \in Head(prog[p]).choices : prog' = [prog EXCEPT ![p] = s \o Tail(@)]
  /\ UNCHANGED <<k, proc, wrong>>

-----------------------------------------------------------------------------
(* Processes.  The pid is the slot.                                        *)
NoProc == [state |-> "unused", parent |-> 0, xstate |-> 0, killed |-> FALSE, last |-> 0,
           pid |-> 0]
Unused == {p \in Procs : proc[p].state = "unused"}

sys_fork(p) ==
  LET c == Head(prog[p])
      np == Smallest(Unused)
      l == fork_memory(k, p, np)
  IN /\ Calls(p, "fork")
     /\ IF Unused = {} THEN Apply(p, Return(k, -1))
        ELSE IF l.v < 0 THEN Apply(p, l)
        ELSE   /\ k' = Quiet(fork_files(l, p, np), p)
               /\ proc' = [proc EXCEPT ![p].last = np, ![p].pid = np,
                             ![np] = [NoProc EXCEPT !.state = "run", !.parent = p]]
               /\ prog' = [prog EXCEPT ![p] = Tail(@), ![np] = c.child]
               /\ wrong' = (wrong \/ np \notin c.v)

(* exit(), with reparent().                                                *)
Exit(p, status) ==
  /\ k' = Quiet(exit_files(k, p), p)
  /\ proc' = [q \in Procs |->
                IF q = p THEN [proc[q] EXCEPT !.state = "zombie", !.xstate = status]
                ELSE IF proc[q].parent = p THEN [proc[q] EXCEPT !.parent = init]
                ELSE proc[q]]
  /\ prog' = [prog EXCEPT ![p] = <<>>]
  /\ UNCHANGED wrong

sys_exit(p) == Calls(p, "exit") /\ Exit(p, Head(prog[p]).n)

(* A program that returns from its test; run() calls exit(0).              *)
Return_exit(p) ==
  /\ p # init /\ proc[p].state = "run" /\ ~proc[p].killed /\ prog[p] = <<>>
  /\ Exit(p, 0)

(* usertrap() on the way back to user space.                               *)
Killed_exit(p) ==
  /\ proc[p].state = "run" /\ proc[p].killed /\ ~MidWrite(p)
  /\ Exit(p, -1)

(* A load or store; usertrap() kills the process if there is no user page. *)
Access(p) ==
  /\ Calls(p, "access")
  /\ IF BadAddr(p) THEN Exit(p, -1) ELSE Apply(p, Return(k, 0))

(* The victim is the process p forked last, or p, or the one the call      *)
(* names; p has not waited for it yet.                                     *)
sys_kill(p) ==
  LET n == Head(prog[p]).n
      victim == CASE n = 0 -> proc[p].pid [] n = SELF -> p [] OTHER -> n
  IN /\ Calls(p, "kill")
     /\ proc' = [proc EXCEPT ![victim].killed = TRUE, ![p].last = 0]
     /\ prog' = [prog EXCEPT ![p] = Tail(@)]
     /\ UNCHANGED <<k, wrong>>

(* wait(): call c.v is the set of statuses the caller accepts.             *)
Reap(p, q) ==
  /\ proc[q].state = "zombie" /\ proc[q].parent = p
  /\ proc' = [proc EXCEPT ![q] = NoProc, ![p].last = q]
  /\ k' = Quiet(freeproc(k, q), q)

sys_wait(p) ==
  /\ Calls(p, "wait")
  /\ prog' = [prog EXCEPT ![p] = Tail(@)]
  /\ \/ \E q \in Procs : Reap(p, q) /\ wrong' = (wrong \/ proc[q].xstate \notin Head(prog[p]).v)
     \/ /\ \A q \in Procs : proc[q].state # "unused" => proc[q].parent # p
        /\ proc' = [proc EXCEPT ![p].last = -1] /\ UNCHANGED k
        /\ wrong' = (wrong \/ -1 \notin Head(prog[p]).v)

init_wait == (\E q \in Procs : Reap(init, q)) /\ UNCHANGED <<prog, wrong>>

Done == \A p \in Procs \ {init} : proc[p].state = "unused"

-----------------------------------------------------------------------------
SystemCall(p) ==
  \/ Call_open(p) \/ Call_close(p) \/ Call_read(p) \/ Call_write(p) \/ Call_dup(p)
  \/ Call_fstat(p) \/ Call_link(p) \/ Call_unlink(p) \/ Call_mkdir(p) \/ Call_chdir(p)
  \/ Call_pipe(p) \/ Call_exec(p) \/ Call_sbrk(p) \/ Call_sbrkall(p) \/ Call_readall(p)
  \/ Bad_path(p) \/ Access(p) \/ Choose(p)
  \/ sys_fork(p) \/ sys_exit(p) \/ Return_exit(p) \/ Killed_exit(p) \/ sys_kill(p)
  \/ sys_wait(p)

Next ==
  \/ \E p \in Procs : SystemCall(p)
  \/ init_wait
  \/ Done /\ UNCHANGED vars

(* Process 2 runs program s, started by init.                              *)
Start(s) ==
  /\ k = Quiet(fork_files(fork_memory(init_main, init, 2), init, 2), 2)
  /\ proc = [p \in Procs |->
               IF p = init THEN [NoProc EXCEPT !.state = "run"]
               ELSE IF p = 2 THEN [NoProc EXCEPT !.state = "run", !.parent = init]
               ELSE NoProc]
  /\ prog = [p \in Procs |-> IF p = 2 THEN s ELSE <<>>]
  /\ wrong = FALSE

-----------------------------------------------------------------------------
(* Every call returns what the author of the program expects, in every     *)
(* interleaving (the checks of usertests.c and grind.c).                   *)
AsExpected == ~wrong

(* No call panics: no lock is taken twice or released by another, iput()   *)
(* is always inside a transaction, nothing is freed twice, the tables do   *)
(* not overflow under these programs.                                      *)
NoPanic == k.panic = ""

(* Every transaction logs fewer than the MAXOPBLOCKS blocks begin_op()     *)
(* reserves for it (log.c:137, file.c:149-155), as module Log needs:       *)
(* log_write() panics when the log is full, also on a block that is in it. *)
TransactionsFit == k.fits

(* Between calls every inode is unlocked and every reference is            *)
(* accounted for: a struct file by its descriptors, an inode by the open   *)
(* files and current directories, a pipe end by its struct file.  No error *)
(* path of sysfile.c, pipe.c or namex() leaks or drops one.                *)
RefsBalance ==
  /\ k.locked = {} /\ ~k.intrans
  /\ \A f \in Files :
       k.file[f].ref = Cardinality({d \in Procs \X Fds : k.ofile[d[1]][d[2]] = f})
  /\ \A i \in Inums :
       k.inode[i].ref =
         Cardinality({f \in Files : k.file[f].type \in {"inode", "device"} /\ k.file[f].ip = i})
         + Cardinality({p \in Procs : k.cwd[p] = i})
  /\ \A q \in Pipes :
       LET ends(w) == {f \in Files : /\ k.file[f].type = "pipe" /\ k.file[f].pipe = q
                                     /\ k.file[f].writable = w}
       IN /\ k.pipe[q].readopen = (ends(FALSE) # {})
          /\ k.pipe[q].writeopen = (ends(TRUE) # {})

(* Every page is free or has one owner: a user page or page-table page of  *)
(* a process, a trapframe, a pipe (usertests.c fails with "lost some free  *)
(* pages" otherwise).  What is mapped is what p->sz says, so that freeing  *)
(* the process cannot panic; no failed fork(), exec() or sbrk() leaves     *)
(* anything behind.                                                        *)
PagesBalance ==
  LET user(p) == {va \in DOMAIN k.vm[p].map : k.vm[p].map[va] # "kernel"}
      owned(p) == IF proc[p].state = "unused" THEN 0
                  ELSE 1 + Cardinality(k.vm[p].dirs) + Cardinality(user(p))
      pipes == {q \in Pipes : k.pipe[q].readopen \/ k.pipe[q].writeopen}
  IN /\ NPAGES = k.free + Cardinality(pipes) + FoldSet(LAMBDA p, n : n + owned(p), 0, Procs)
     /\ \A p \in Procs : /\ user(p) = 0 .. Pages(k.sz[p]) - 1
                         /\ proc[p].state = "unused" => k.vm[p] = NoTable

Allocated == {i \in Inums : k.dinode[i].type # "none"}
Directories == {i \in Inums : k.dinode[i].type = "dir"}

(* On disk, nlink is the number of entries that name the inode ("." does   *)
(* not count, nor does the ".." of a removed directory), every entry names *)
(* an inode in use, and an inode without links is still referenced: what   *)
(* nobody can reach is freed (fs.h:35, fs.c:328-358).                      *)
LinksBalance ==
  LET cells(d) == {<<d, o, Cell(k, k.dinode[d], o)>> : o \in 0 .. k.dinode[d].size - 1}
      inum(e) == e[3][1]
      name(e) == e[3][2]
      counts(e) == /\ inum(e) # 0 /\ name(e) # "."
                   /\ name(e) = ".." => k.dinode[e[1]].nlink > 0
      entries == {e \in UNION {cells(d) : d \in Directories} : counts(e)}
  IN /\ \A i \in Allocated :
          /\ k.dinode[i].nlink = Cardinality({e \in entries : inum(e) = i})
          /\ k.dinode[i].nlink = 0 => k.inode[i].ref > 0
     /\ \A e \in entries : inum(e) \in Allocated

(* On disk, every block in use belongs to one inode, at one place, and the *)
(* bitmap marks exactly those blocks; a file has a block for every cell    *)
(* (so that readi() never allocates one), and the inode in memory is the   *)
(* one on disk (fs.c:64-103, 217-219, 377-437, 511-514).                   *)
BlocksBalance ==
  LET slots(ip) ==  \* the non-zero entries of addrs[] and of the indirect block
        LET ind == ip.addrs[NDIRECT]
        IN Cardinality({n \in 0 .. NDIRECT : ip.addrs[n] # 0})
           + IF ind = 0 THEN 0
             ELSE Cardinality({c \in 0 .. NINDIRECT - 1 : k.blk[ind][c][1] # 0})
      used(i) == Addrs(k, k.dinode[i])
  IN /\ k.bitmap = UNION {used(i) : i \in Allocated}
     /\ Cardinality(k.bitmap) = FoldSet(LAMBDA i, n : n + slots(k.dinode[i]), 0, Allocated)
     /\ \A i \in Allocated :
          LET blocks == (k.dinode[i].size + BSIZE - 1) \div BSIZE
          IN \A bn \in 0 .. blocks - 1 :
               IF bn < NDIRECT THEN k.dinode[i].addrs[bn] # 0
               ELSE k.blk[k.dinode[i].addrs[NDIRECT]][bn - NDIRECT][1] # 0
     /\ \A i \in Inums :
          k.inode[i].ref > 0 /\ k.inode[i].valid => OnDisk(k.inode[i]) = k.dinode[i]
=============================================================================
