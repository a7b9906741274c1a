------------------------------ MODULE Sysfile ------------------------------
(***************************************************************************)
(* kernel/file.c and kernel/sysfile.c over Fs: open files, descriptors and *)
(* the file system calls, with the parts of fork(), exit(), wait() and     *)
(* pipes that share files between processes.  A system call is an operator *)
(* from the kernel state k before it to the state after it.                *)
(***************************************************************************)
EXTENDS Fs, Vm

CONSTANTS NFILE, NOFILE, NDEV, PIPESIZE, NPIPES,
          PROGSZ,       \* the size of a program's segment
          MAXARG,
          Procs         \* the slots of proc[], numbered from 1

Files == 1 .. NFILE
Pipes == 1 .. NPIPES    \* names for the pages pipealloc() gets
Fds == 0 .. NOFILE - 1
CONSOLE == 1

(* Results of a step that does not end its call: it cannot run now, or it  *)
(* ends one transaction of several.                                        *)
Blocked == -2
Again == -3

Smallest(S) == CHOOSE x \in S : \A y \in S : x <= y

-----------------------------------------------------------------------------
(* file.c                                                                  *)
NoFile == [ref |-> 0, type |-> "none", readable |-> FALSE, writable |-> FALSE,
           pipe |-> 0, ip |-> 0, off |-> 0, major |-> 0]

filealloc(k) ==
  LET free == {f \in Files : k.file[f].ref = 0}
      f == Smallest(free)
  IN IF free = {} THEN Return(k, 0) ELSE [k EXCEPT !.file[f].ref = 1, !.v = f]

filedup(k, f) ==
  IF k.file[f].ref < 1 THEN Panic(k, "filedup")
  ELSE [k EXCEPT !.file[f].ref = @ + 1]

pipeclose(k, pi, writable) ==
  LET l == IF writable THEN [k EXCEPT !.pipe[pi].writeopen = FALSE]
           ELSE [k EXCEPT !.pipe[pi].readopen = FALSE]
  IN IF l.pipe[pi].writeopen \/ l.pipe[pi].readopen THEN l ELSE [l EXCEPT !.free = @ + 1]

fileclose(k, f) ==
  LET ff == k.file[f]
      l == [k EXCEPT !.file[f].ref = @ - 1]
      m == [l EXCEPT !.file[f] = [@ EXCEPT !.type = "none"]]
  IN IF ff.ref < 1 THEN Panic(k, "fileclose")
     ELSE IF ff.ref > 1 THEN l
     ELSE IF ff.type = "pipe" THEN pipeclose(m, ff.pipe, ff.writable)
     ELSE IF ff.type \in {"inode", "device"} THEN end_op(iput(begin_op(m), ff.ip))
     ELSE m

(* stati() of the open file, which is what st.size and st.nlink show.      *)
filestat(k, f, badaddr) ==
  LET ff == k.file[f]
      l == ilock(k, ff.ip)
      m == [iunlock(l, ff.ip) EXCEPT !.buf = <<l.inode[ff.ip].type, l.inode[ff.ip].nlink,
                                               l.inode[ff.ip].size>>]
  IN IF ff.type \notin {"inode", "device"} THEN Return(k, -1)
     ELSE Return(m, IF badaddr THEN -1 ELSE 0)

(* A pipe is the queue that module Pipe shows it to be.                    *)
piperead(k, pi, n, badaddr) ==
  LET q == k.pipe[pi].q
      m == Min({n, Len(q)})
  IN IF q = <<>> /\ k.pipe[pi].writeopen THEN Return(k, Blocked)
     ELSE IF m > 0 /\ badaddr THEN [k EXCEPT !.pipe[pi].q = Tail(@), !.v = 0]
     ELSE [k EXCEPT !.pipe[pi].q = SubSeq(@, m + 1, Len(@)), !.buf = SubSeq(q, 1, m),
                    !.v = m]

(* k.done[p] cells are in the pipe already.                                *)
pipewrite(k, p, pi, data, badaddr) ==
  LET i == k.done[p]
      q == k.pipe[pi].q
      m == Min({PIPESIZE - Len(q), Len(data) - i})
  IN IF i = Len(data) THEN Return(k, i)
     ELSE IF ~k.pipe[pi].readopen THEN Return(k, -1)
     ELSE IF m = 0 THEN Return(k, Blocked)
     ELSE IF badaddr THEN Return(k, i)
     ELSE [k EXCEPT !.pipe[pi].q = @ \o SubSeq(data, i + 1, i + m),
                    !.done[p] = i + m,
                    !.v = IF i + m = Len(data) THEN Len(data) ELSE Again]

fileread(k, f, n, badaddr) ==
  LET ff == k.file[f]
      r == readi(ilock(k, ff.ip), ff.ip, ff.off, n, badaddr)
  IN IF ~ff.readable THEN Return(k, -1)
     ELSE IF ff.type = "pipe" THEN piperead(k, ff.pipe, n, badaddr)
     ELSE IF ff.type = "device" THEN Return(k, IF ff.major = CONSOLE THEN Blocked ELSE -1)
     ELSE [iunlock(r, ff.ip) EXCEPT !.file[f].off = @ + Max({r.v, 0})]

(* Mutant: the limit does not leave room for blocks besides the data.      *)
writemax_Mutant == MAXOPBLOCKS * BSIZE
writemax == ((MAXOPBLOCKS - 1 - 1 - 2) \div 2) * BSIZE

(* k.v is what writei() returned for n1 of the cells of data.              *)
filewrite_written(k, p, f, data, n1) ==
  LET l == end_op(iunlock([k EXCEPT !.file[f].off = @ + Max({k.v, 0})], k.file[f].ip))
      i == k.done[p] + n1
  IN IF k.v # n1 THEN Return(l, -1)
     ELSE [l EXCEPT !.done[p] = i, !.v = IF i = Len(data) THEN i ELSE Again]

(* One transaction of filewrite(), for the data from k.done[p] on.         *)
filewrite(k, p, f, data, badaddr) ==
  LET ff == k.file[f]
      i == k.done[p]
      n1 == Min({Len(data) - i, writemax})
  IN IF ~ff.writable THEN Return(k, -1)
     ELSE IF ff.type = "pipe" THEN pipewrite(k, p, ff.pipe, data, badaddr)
     ELSE IF ff.type = "device"
       THEN Return(k, IF ff.major # CONSOLE THEN -1 ELSE IF badaddr THEN 0 ELSE Len(data))
     ELSE IF i = Len(data) THEN Return(k, Len(data))
     ELSE filewrite_written(writei(ilock(begin_op(k), ff.ip), ff.ip, ff.off,
                                   SubSeq(data, i + 1, i + n1), badaddr), p, f, data, n1)

-----------------------------------------------------------------------------
(* sysfile.c                                                               *)
argfd(k, p, fd) == IF fd \in Fds THEN k.ofile[p][fd] ELSE 0

fdalloc(k, p, f) ==
  LET free == {fd \in Fds : k.ofile[p][fd] = 0}
      fd == Smallest(free)
  IN IF free = {} THEN Return(k, -1) ELSE [k EXCEPT !.ofile[p][fd] = f, !.v = fd]

sys_dup(k, p, fd) ==
  LET f == argfd(k, p, fd)
      l == fdalloc(k, p, f)
  IN IF f = 0 THEN Return(k, -1) ELSE IF l.v < 0 THEN l ELSE filedup(l, f)

sys_read(k, p, fd, n, badaddr) ==
  LET f == argfd(k, p, fd)
  IN IF f = 0 THEN Return(k, -1) ELSE fileread(k, f, n, badaddr)

sys_write(k, p, fd, data, badaddr) ==
  LET f == argfd(k, p, fd)
  IN IF f = 0 THEN Return(k, -1) ELSE filewrite(k, p, f, data, badaddr)

sys_close(k, p, fd) ==
  LET f == argfd(k, p, fd)
  IN IF f = 0 THEN Return(k, -1)
     ELSE Return(fileclose([k EXCEPT !.ofile[p][fd] = 0], f), 0)

sys_fstat(k, p, fd, badaddr) ==
  LET f == argfd(k, p, fd)
  IN IF f = 0 THEN Return(k, -1) ELSE filestat(k, f, badaddr)

(* Mutant: a failing link() leaves the link count raised.                  *)
sys_link_bad_Mutant(k, i) == Return(end_op(iput(k, i)), -1)

(* The label bad of sys_link().                                            *)
sys_link_bad(k, i) ==
  LET l == iupdate([ilock(k, i) EXCEPT !.inode[i].nlink = @ - 1], i)
  IN Return(end_op(iunlockput(l, i)), -1)

(* A system call is cut where it branches: the argument k of the next part *)
(* is the state that decides, with the result of the last call in k.v.     *)
link_done(k, d, i) ==
  IF k.v < 0 THEN sys_link_bad(iunlockput(k, d), i)
  ELSE Return(end_op(iput(iunlockput(k, d), i)), 0)

link_parent(k, name, i) ==
  IF k.v = 0 THEN sys_link_bad(k, i)
  ELSE link_done(dirlink(ilock(k, k.v), k.v, name, i), k.v, i)

link_old(k, i, p, new) ==
  LET l == iupdate([k EXCEPT !.inode[i].nlink = @ + 1], i)
  IN IF k.inode[i].type = "dir" THEN Return(end_op(iunlockput(k, i)), -1)
     ELSE link_parent(nameiparent(iunlock(l, i), p, new), LastElement(new), i)

sys_link(k, p, old, new) ==
  LET l == namei(begin_op(k), p, old)
  IN IF l.v = 0 THEN Return(end_op(l), -1) ELSE link_old(ilock(l, l.v), l.v, p, new)

(* The entry of i in directory d has been cleared.                         *)
unlink_cleared(k, d, i) ==
  LET l == IF k.inode[i].type = "dir"
           THEN iupdate([k EXCEPT !.inode[d].nlink = @ - 1], d) ELSE k
      m == [iunlockput(l, d) EXCEPT !.inode[i].nlink = @ - 1]
  IN IF k.v # 1 THEN Panic(k, "unlink: writei")
     ELSE Return(end_op(iunlockput(iupdate(m, i), i)), 0)

unlink_victim(k, d, i, off) ==
  IF k.inode[i].nlink < 1 THEN Panic(k, "unlink: nlink < 1")
  ELSE IF k.inode[i].type = "dir" /\ ~isdirempty(k, i)
    THEN Return(end_op(iunlockput(iunlockput(k, i), d)), -1)
  ELSE unlink_cleared(writei(k, d, off, <<Zero>>, FALSE), d, i)

unlink_entry(k, d, name) ==
  LET l == dirlookup(k, d, name)
  IN IF name \in {".", ".."} THEN Return(end_op(iunlockput(k, d)), -1)
     ELSE IF l.v = 0 THEN Return(end_op(iunlockput(l, d)), -1)
     ELSE unlink_victim(ilock(l, l.v), d, l.v, Offset(k, d, name))

unlink_parent(k, name) ==
  IF k.v = 0 THEN Return(end_op(k), -1) ELSE unlink_entry(ilock(k, k.v), k.v, name)

sys_unlink(k, p, path) ==
  unlink_parent(nameiparent(begin_op(k), p, path), LastElement(path))

create_exists(k, i, type) ==
  IF type = "file" /\ k.inode[i].type \in {"file", "dev"} THEN Return(k, i)
  ELSE Return(iunlockput(k, i), 0)

Must(k, why) == IF k.v < 0 THEN Panic(k, why) ELSE k

create_dots(k, d, i) ==
  LET l == iupdate([k EXCEPT !.inode[d].nlink = @ + 1], d)
  IN Must(dirlink(Must(dirlink(l, i, ".", i), "create dots"), i, "..", d), "create dots")

create_new(k, d, i, name, type, major) ==
  LET l == iupdate([ilock(k, i) EXCEPT !.inode[i].major = major, !.inode[i].nlink = 1], i)
      dots == dirlink(IF type = "dir" THEN create_dots(l, d, i) ELSE l, d, name, i)
  IN Return(iunlockput(Must(dots, "create: dirlink"), d), i)

create_entry(k, d, name, type, major) ==
  IF k.v # 0 THEN create_exists(ilock(iunlockput(k, d), k.v), k.v, type)
  ELSE LET new == ialloc(k, type) IN create_new(new, d, new.v, name, type, major)

create_parent(k, name, type, major) ==
  IF k.v = 0 THEN k
  ELSE create_entry(dirlookup(ilock(k, k.v), k.v, name), k.v, name, type, major)

(* k.v is the inode, locked, or 0.                                         *)
create(k, p, path, type, major) ==
  create_parent(nameiparent(k, p, path), LastElement(path), type, major)

(* Mutant: the struct file is not given back.                              *)
sys_open_full_Mutant(k, f, i) == Return(end_op(iunlockput(k, i)), -1)

(* sys_open() without a struct file or a descriptor for inode i.           *)
sys_open_full(k, f, i) ==
  Return(end_op(iunlockput(IF f # 0 THEN fileclose(k, f) ELSE k, i)), -1)

open_inode(k, p, omode) ==
  LET i == k.v
      ip == k.inode[i]
      b == filealloc(k)
      f == b.v
      c == fdalloc(b, p, f)
      e == [c EXCEPT !.file[f] =
              [@ EXCEPT !.type = IF ip.type = "dev" THEN "device" ELSE "inode",
                        !.major = IF ip.type = "dev" THEN ip.major ELSE @,
                        !.off = IF ip.type = "dev" THEN @ ELSE 0,
                        !.ip = i,
                        !.readable = "WRONLY" \notin omode,
                        !.writable = omode \cap {"WRONLY", "RDWR"} # {}]]
      g == IF "TRUNC" \in omode /\ ip.type = "file" THEN itrunc(e, i) ELSE e
  IN IF i = 0 THEN Return(end_op(k), -1)
     ELSE IF "CREATE" \notin omode /\ ip.type = "dir" /\ omode # {}
       THEN Return(end_op(iunlockput(k, i)), -1)
     ELSE IF ip.type = "dev" /\ ip.major \notin 0 .. NDEV - 1
       THEN Return(end_op(iunlockput(k, i)), -1)
     ELSE IF f = 0 \/ c.v < 0 THEN sys_open_full(b, f, i)
     ELSE Return(end_op(iunlock(g, i)), c.v)

open_named(k) == IF k.v = 0 THEN k ELSE ilock(k, k.v)

sys_open(k, p, path, omode) ==
  open_inode(IF "CREATE" \in omode THEN create(begin_op(k), p, path, "file", 0)
             ELSE open_named(namei(begin_op(k), p, path)), p, omode)

mknod_created(k) ==
  IF k.v = 0 THEN Return(end_op(k), -1) ELSE Return(end_op(iunlockput(k, k.v)), 0)

(* sys_mkdir() for type "dir", sys_mknod() for type "dev".                 *)
sys_mknod(k, p, path, type, major) ==
  mknod_created(create(begin_op(k), p, path, type, major))

(* Mutant: the old directory is released after the transaction.            *)
sys_chdir_Mutant(k, p, path) ==
  LET a == namei(begin_op(k), p, path)
      b == ilock(a, a.v)
      c == iput(end_op(iunlock(b, a.v)), k.cwd[p])
  IN IF a.v = 0 THEN Return(end_op(a), -1)
     ELSE IF b.inode[a.v].type # "dir" THEN Return(end_op(iunlockput(b, a.v)), -1)
     ELSE Return([c EXCEPT !.cwd[p] = a.v], 0)

sys_chdir(k, p, path) ==
  LET a == namei(begin_op(k), p, path)
      b == ilock(a, a.v)
      c == end_op(iput(iunlock(b, a.v), k.cwd[p]))
  IN IF a.v = 0 THEN Return(end_op(a), -1)
     ELSE IF b.inode[a.v].type # "dir" THEN Return(end_op(iunlockput(b, a.v)), -1)
     ELSE Return([c EXCEPT !.cwd[p] = a.v], 0)

(* pipealloc(): -1 if there is no page (or NPIPES pipes exist) or no file. *)
pipealloc(k) ==
  LET a == filealloc(k)
      b == filealloc(a)
      free == {q \in Pipes : ~k.pipe[q].readopen /\ ~k.pipe[q].writeopen}
      pi == Smallest(free)
      end(readable) == [NoFile EXCEPT !.ref = 1, !.type = "pipe", !.pipe = pi,
                                      !.readable = readable, !.writable = ~readable]
      bad(l, f) == IF f = 0 THEN l ELSE fileclose(l, f)
  IN IF a.v = 0 \/ b.v = 0 \/ free = {} \/ k.free = 0
       THEN Return(bad(bad(IF a.v = 0 THEN a ELSE b, a.v), IF a.v = 0 THEN 0 ELSE b.v), -1)
     ELSE [b EXCEPT !.pipe[pi] = [q |-> <<>>, readopen |-> TRUE, writeopen |-> TRUE],
                    !.file[a.v] = end(TRUE), !.file[b.v] = end(FALSE),
                    !.free = @ - 1, !.buf = <<a.v, b.v>>, !.v = 0]

(* pipealloc() has left its two files in k.buf.  On success k.buf becomes  *)
(* the pair of descriptors.                                                *)
pipe_fds(k, p, rf, wf, badaddr) ==
  LET b == fdalloc(k, p, rf)
      c == IF b.v < 0 THEN b ELSE fdalloc(b, p, wf)
      undone == [c EXCEPT !.ofile[p] = [fd \in Fds |-> IF fd \in {b.v, c.v} THEN 0 ELSE @[fd]]]
  IN IF c.v < 0 \/ badaddr THEN Return(fileclose(fileclose(undone, rf), wf), -1)
     ELSE [c EXCEPT !.buf = <<b.v, c.v>>, !.v = 0]

pipe_alloced(k, p, badaddr) ==
  IF k.v < 0 THEN k ELSE pipe_fds(k, p, k.buf[1], k.buf[2], badaddr)

sys_pipe(k, p, badaddr) == pipe_alloced(pipealloc(k), p, badaddr)

(* exec(): the file is read in one transaction and must begin with ELF;    *)
(* each cell that follows is a program header (Vm).                        *)
ELF == "elf"

exec_file(k, i, p, argsz) ==
  LET ip == k.inode[i]
      phs == [o \in 1 .. ip.size - 1 |-> Cell(k, ip, o)[2]]
      l == end_op(iunlockput(k, i))
  IN IF ip.size = 0 \/ Cell(k, ip, 0)[2] # ELF THEN Return(l, -1)
     ELSE exec_memory(l, p, phs, PROGSZ, argsz)

exec(k, p, path, argsz) ==
  LET l == namei(begin_op(k), p, path)
  IN IF l.v = 0 THEN Return(end_op(l), -1) ELSE exec_file(ilock(l, l.v), l.v, p, argsz)

(* sys_exec(): args are the sizes of the arguments, 0 for a bad pointer;   *)
(* each is held in a page while exec() runs.  The zero that ends argv[] is *)
(* one of its MAXARG entries, so that exec() never finds argc >= MAXARG.   *)
sys_exec(k, p, path, args) ==
  LET n == Len(args)
      argsz == FoldLeft(LAMBDA s, a : s + a, 0, args)
  IN IF n >= MAXARG \/ (\E i \in 1 .. n : args[i] \notin 1 .. PGSIZE) \/ k.free < n THEN Return(k, -1)
     ELSE [exec([k EXCEPT !.free = @ - n], p, path, argsz) EXCEPT !.free = @ + n]

-----------------------------------------------------------------------------
(* What fork() and exit() do with files and directories.                   *)
fork_files(k, p, np) ==
  LET dup(l, fd) == IF k.ofile[p][fd] = 0 THEN l ELSE filedup(l, k.ofile[p][fd])
  IN [idup(FoldSet(LAMBDA fd, l : dup(l, fd), k, Fds), k.cwd[p]) EXCEPT
        !.ofile[np] = k.ofile[p], !.cwd[np] = k.cwd[p]]

exit_files(k, p) ==
  LET close(l, fd) == IF k.ofile[p][fd] = 0 THEN l ELSE fileclose(l, k.ofile[p][fd])
      closed == FoldLeft(close, k, [n \in 1 .. NOFILE |-> n - 1])
  IN [end_op(iput(begin_op(closed), k.cwd[p])) EXCEPT
        !.ofile[p] = [fd \in Fds |-> 0], !.cwd[p] = 0]
=============================================================================
