----------------------------- MODULE Usertests -----------------------------
(***************************************************************************)
(* The file system tests of user/usertests.c as programs over Syscalls.    *)
(* The calls and the results a test insists on are its own; loops are cut  *)
(* to N iterations and sizes are scaled to BSIZE and MAXFILE.  Descriptors *)
(* 0 to 2 are the console, so the first open() of a test returns 3.        *)
(***************************************************************************)
EXTENDS Syscalls

Letters == <<"a", "b", "c", "d", "e", "f", "g", "h", "i", "j", "k", "l">>
Succeeds == 0 .. NOFILE

-----------------------------------------------------------------------------
copyin ==
  Repeat(N, LAMBDA i :
    <<open(<<"copyin1">>, CREATE \cup WRONLY, {3}),
      Bad(write(3, Fill("x", 2 * BSIZE), FAIL)), close(3), unlink(<<"copyin1">>, ANY),
      Bad(write(1, Fill("x", 2 * BSIZE), {-1, 0})),
      pipe(OK), Bad(write(4, Fill("x", 2 * BSIZE), {-1, 0})), close(3), close(4)>>)

copyout ==
  Repeat(N, LAMBDA i :
    <<open(<<"README">>, RDONLY, {3}), Bad(read(3, 2 * BSIZE, {-1, 0})), close(3),
      pipe(OK), write(4, Fill("x", 1), {1}), Bad(read(3, 2 * BSIZE, {-1, 0})),
      close(3), close(4)>>)

truncate1 ==
  LET t == <<"truncfile">>
  IN <<unlink(t, ANY), open(t, CREATE \cup WRONLY \cup TRUNC, {3}),
       write(3, Fill("a", 4), ANY), close(3),
       open(t, RDONLY, {3}), read(3, 32, {4}),
       open(t, WRONLY \cup TRUNC, {4}), open(t, RDONLY, {5}), read(5, 32, {0}),
       read(3, 32, {0}), write(4, Fill("a", 6), ANY), read(5, 32, {6}), read(3, 32, {2}),
       unlink(t, ANY), close(4), close(3), close(5)>>

truncate2 ==
  LET t == <<"truncfile">>
  IN <<unlink(t, ANY), open(t, CREATE \cup TRUNC \cup WRONLY, {3}),
       write(3, Fill("a", 4), ANY), open(t, TRUNC \cup WRONLY, {4}),
       write(3, Fill("x", 1), FAIL), unlink(t, ANY), close(3), close(4)>>

truncate3 ==
  LET t == <<"truncfile">>
      child == Repeat(N, LAMBDA i :
        <<open(t, WRONLY, {3}), write(3, Fill("1", 10), {10}), close(3),
          open(t, RDONLY, ANY), read(3, 32, ANY), close(3)>>)
  IN <<open(t, CREATE \cup TRUNC \cup WRONLY, ANY), close(LAST), fork(child)>>
     \o Repeat(N, LAMBDA i : <<open(t, CREATE \cup WRONLY \cup TRUNC, {3}),
                               write(3, Fill("x", 3), {3}), close(3)>>)
     \o <<wait(OK), unlink(t, ANY)>>

iputtest ==
  LET d == <<"iputdir">>
  IN <<mkdir(d, OK), chdir(d, OK), unlink(<<"..", "iputdir">>, OK), chdir(<<"/">>, OK)>>

exitiputtest ==
  LET d == <<"iputdir">>
  IN <<fork(<<mkdir(d, OK), chdir(d, OK), unlink(<<"..", "iputdir">>, OK), exit(0)>>),
       wait(OK)>>

openiputtest ==
  <<mkdir(<<"oidir">>, OK), fork(<<open(<<"oidir">>, RDWR, FAIL), exit(0)>>),
    unlink(<<"oidir">>, OK), wait(OK)>>

opentest ==
  <<open(<<"echo">>, RDONLY, Succeeds), close(3), open(<<"doesnotexist">>, RDONLY, FAIL)>>

writetest ==
  <<open(<<"small">>, CREATE \cup RDWR, {3})>>
  \o Repeat(N, LAMBDA i : <<write(3, Fill("a", 10), {10}), write(3, Fill("b", 10), {10})>>)
  \o <<close(3), open(<<"small">>, RDONLY, {3}),
       readwant(3, 20 * N, FlattenSeq([i \in 1 .. 2 * N |->
                                         Fill(IF i % 2 = 1 THEN "a" ELSE "b", 10)])),
       close(3), unlink(<<"small">>, OK)>>

writebig ==
  <<open(<<"big">>, CREATE \cup RDWR, {3})>>
  \o Repeat(MAXFILE, LAMBDA i : <<write(3, Fill(Letters[i], BSIZE), {BSIZE})>>)
  \o <<close(3), open(<<"big">>, RDONLY, {3})>>
  \o Repeat(MAXFILE, LAMBDA i : <<readwant(3, BSIZE, Fill(Letters[i], BSIZE))>>)
  \o <<read(3, BSIZE, {0}), close(3), unlink(<<"big">>, OK)>>

createtest ==
  Repeat(N, LAMBDA i : <<open(<<"a" \o Letters[i]>>, CREATE \cup RDWR, ANY), close(LAST)>>)
  \o Repeat(N, LAMBDA i : <<unlink(<<"a" \o Letters[i]>>, ANY)>>)

dirtest ==
  <<mkdir(<<"dir0">>, OK), chdir(<<"dir0">>, OK), chdir(<<"..">>, OK), unlink(<<"dir0">>, OK)>>

-----------------------------------------------------------------------------
(* A write is more than twice the pipe, and every cell is a new one: the   *)
(* parent checks the order and the total.                                  *)
pipe1 ==
  LET SZ == 2 * PIPESIZE + 1
      seq == [i \in 1 .. N * SZ |-> <<i, "x">>]
  IN <<pipe(OK), fork(<<close(3)>> \o Repeat(N, LAMBDA i :
                        <<write(4, SubSeq(seq, (i - 1) * SZ + 1, i * SZ), {SZ})>>)),
       close(4), readall(3, seq), close(3), wait(OK)>>

killstatus == Repeat(N, LAMBDA i : <<fork(<<spin>>), kill, wait(FAIL)>>)

exitwait == Repeat(N, LAMBDA i : <<fork(<<exit(i)>>), wait({i})>>)

reparent == Repeat(N, LAMBDA i : <<fork(<<fork(<<>>), exit(0)>>), wait(OK)>>)

twochildren == Repeat(N, LAMBDA i : <<fork(<<exit(0)>>), fork(<<exit(0)>>), wait(OK), wait(OK)>>)

forkfork ==
  LET child == Repeat(N, LAMBDA j : <<fork(<<exit(0)>>), wait(OK)>>)
  IN <<fork(child), fork(child), wait(OK), wait(OK)>>

(* One iteration: the child forks twice, and its copy makes the second     *)
(* fork as well; they all become init's children.                          *)
reparent2 ==
  <<fork(<<tryfork(<<tryfork(<<>>), exit(0)>>), tryfork(<<>>), exit(0)>>), wait(OK)>>

-----------------------------------------------------------------------------
(* The last read() sees 2 * 10 cells of each process (Check).              *)
sharedfd ==
  LET f == <<"sharedfd">>
      writes(c) == Repeat(2, LAMBDA i : <<write(3, Fill(c, 10), {10})>>)
  IN <<unlink(f, ANY), open(f, CREATE \cup RDWR, {3}), fork(writes("c"))>>
     \o writes("p")
     \o <<wait(OK), close(3), open(f, RDONLY, {3}),
          [read(3, BUFSZ, {40}) EXCEPT !.check = "sharedfd"], close(3), unlink(f, ANY)>>

(* Two children instead of four.                                           *)
fourfiles ==
  LET f(i) == <<"f" \o Letters[i]>>
      child(i) == <<open(f(i), CREATE \cup RDWR, {3})>>
                  \o Repeat(N, LAMBDA j : <<write(3, Fill(Letters[i], 5), {5})>>)
  IN Repeat(2, LAMBDA i : <<unlink(f(i), ANY), fork(child(i))>>)
     \o <<wait(OK), wait(OK)>>
     \o Repeat(2, LAMBDA i : <<open(f(i), RDONLY, {3}),
                               readwant(3, BUFSZ, Fill(Letters[i], 5 * N)), close(3),
                               unlink(f(i), ANY)>>)

(* Files 0 to 3; file 1 is removed.  The clean-up at the end of the test   *)
(* computes other names ('p' + i), and removes only p0 and q1.             *)
createdelete ==
  LET f(pi, i) == <<pi \o <<"0", "1", "2">>[i + 1]>>
      make(pi, i) == <<open(f(pi, i), CREATE \cup RDWR, {3}), close(3)>>
      child(pi) == make(pi, 0) \o make(pi, 1) \o make(pi, 2) \o <<unlink(f(pi, 1), OK)>>
      look(pi) == <<open(f(pi, 0), RDONLY, {3}), close(3), open(f(pi, 1), RDONLY, FAIL),
                    open(f(pi, 2), RDONLY, {3}), close(3)>>
  IN <<fork(child("p")), fork(child("q")), wait(OK), wait(OK)>> \o look("p") \o look("q")
     \o <<unlink(f("p", 0), ANY), unlink(f("p", 0), ANY),
          unlink(f("q", 1), ANY), unlink(f("q", 1), ANY)>>

unlinkread ==
  LET f == <<"unlinkread">>
  IN <<open(f, CREATE \cup RDWR, {3}), write(3, Fill("h", 5), ANY), close(3),
       open(f, RDWR, {3}), unlink(f, OK),
       open(f, CREATE \cup RDWR, {4}), write(4, Fill("y", 3), ANY), close(4),
       readwant(3, BUFSZ, Fill("h", 5)), write(3, Fill("h", 10), {10}), close(3), unlink(f, ANY)>>

linktest ==
  LET f == <<"lf1">>
      g == <<"lf2">>
  IN <<unlink(f, ANY), unlink(g, ANY), open(f, CREATE \cup RDWR, {3}),
       write(3, Fill("h", 5), {5}), close(3), link(f, g, OK), unlink(f, ANY),
       open(f, RDONLY, FAIL), open(g, RDONLY, {3}), read(3, BUFSZ, {5}), close(3),
       link(g, g, FAIL), unlink(g, ANY), link(g, f, FAIL), link(<<".">>, f, FAIL)>>

(* The iterations i = 0 (both create) and i = 1 (both link) of its loop,   *)
(* the listing of the directory, and the removal of C0 and C1.             *)
concreate ==
  LET f(i) == <<<<"C0", "C1">>[i]>>
      make(i) == <<open(f(i), CREATE \cup RDWR, Succeeds), close(LAST)>>
      opens(i) == Repeat(N, LAMBDA j : <<open(f(i), RDONLY, ANY), close(LAST)>>)
      unlinks(i) == Repeat(N, LAMBDA j : <<unlink(f(i), ANY)>>)
  IN <<unlink(f(1), ANY), fork(make(1) \o <<exit(0)>>)>> \o make(1) \o <<wait(OK)>>
     \o <<unlink(f(2), ANY), fork(<<link(f(1), f(2), ANY), exit(0)>>), link(f(1), f(2), ANY),
          wait(OK), open(<<".">>, RDONLY, {3}),
          [read(3, BUFSZ, ANY) EXCEPT !.check = "concreate"], close(3)>>
     \o <<fork(opens(1))>> \o unlinks(1) \o <<wait(ANY), fork(unlinks(2))>> \o opens(2)
     \o <<wait(ANY)>>

(* Its pseudo-random choices are arbitrary here.                           *)
linkunlink ==
  LET x == <<"x">>
      step == Either({<<open(x, CREATE \cup RDWR, ANY), close(LAST)>>,
                      <<link(<<"cat">>, x, ANY)>>, <<unlink(x, ANY)>>})
      steps == Repeat(N, LAMBDA i : <<step>>)
  IN <<unlink(x, ANY), fork(steps)>> \o steps \o <<wait(ANY)>>

-----------------------------------------------------------------------------
(* Enough links for the root directory to use its indirect block.          *)
bigdir ==
  LET name(i) == <<"x" \o <<"0", "1", "2", "3">>[(i - 1) \div 12 + 1]
                      \o Letters[((i - 1) % 12) + 1]>>
      n == NDIRECT * BSIZE
  IN <<unlink(<<"bd">>, ANY), open(<<"bd">>, CREATE, {3}), close(3)>>
     \o Repeat(n, LAMBDA i : <<link(<<"bd">>, name(i), OK)>>)
     \o <<unlink(<<"bd">>, ANY)>>
     \o Repeat(n, LAMBDA i : <<unlink(name(i), OK)>>)

subdir ==
  LET dd == <<"dd">>
      P(a) == <<"dd", a>>
      Q(a, b) == <<"dd", a, b>>
  IN <<unlink(<<"ff">>, ANY), mkdir(dd, OK), open(P("ff"), CREATE \cup RDWR, {3}),
       write(3, Fill("f", 2), ANY), close(3), unlink(dd, FAIL), mkdir(<<"/", "dd", "dd">>, OK),
       open(Q("dd", "ff"), CREATE \cup RDWR, {3}), write(3, Fill("F", 2), ANY), close(3),
       open(<<"dd", "dd", "..", "ff">>, RDONLY, {3}), readwant(3, BUFSZ, Fill("f", 2)), close(3),
       link(Q("dd", "ff"), Q("dd", "ffff"), OK), unlink(Q("dd", "ff"), OK),
       open(Q("dd", "ff"), RDONLY, FAIL),
       chdir(dd, OK), chdir(<<"dd", "..", "..", "dd">>, OK),
       chdir(<<"dd", "..", "..", "..", "dd">>, OK), chdir(<<".", "..">>, OK),
       open(Q("dd", "ffff"), RDONLY, {3}), read(3, BUFSZ, {2}), close(3),
       open(Q("dd", "ff"), RDONLY, FAIL), open(Q("ff", "ff"), CREATE \cup RDWR, FAIL),
       open(Q("xx", "ff"), CREATE \cup RDWR, FAIL), open(dd, CREATE, FAIL),
       open(dd, RDWR, FAIL), open(dd, WRONLY, FAIL),
       link(Q("ff", "ff"), Q("dd", "xx"), FAIL), link(Q("xx", "ff"), Q("dd", "xx"), FAIL),
       link(P("ff"), Q("dd", "ffff"), FAIL),
       mkdir(Q("ff", "ff"), FAIL), mkdir(Q("xx", "ff"), FAIL), mkdir(Q("dd", "ffff"), FAIL),
       unlink(Q("xx", "ff"), FAIL), unlink(Q("ff", "ff"), FAIL),
       chdir(P("ff"), FAIL), chdir(P("xx"), FAIL),
       unlink(Q("dd", "ffff"), OK), unlink(P("ff"), OK), unlink(dd, FAIL),
       unlink(P("dd"), OK), unlink(dd, OK)>>

(* Sizes around one transaction of filewrite().                            *)
bigwrite ==
  LET f == <<"bigwrite">>
      write2(sz) == <<open(f, CREATE \cup RDWR, {3}), write(3, Fill("x", sz), {sz}),
                      write(3, Fill("x", sz), {sz}), close(3), unlink(f, ANY)>>
  IN <<unlink(f, ANY)>> \o write2(BSIZE - 1) \o write2(3 * BSIZE - 1) \o write2(4 * BSIZE + 1)

(* Two children; the first opens and writes once, the second twice.        *)
manywrites ==
  LET child(ci) ==
        LET f == <<"b" \o Letters[ci]>>
        IN <<unlink(f, ANY)>>
           \o Repeat(ci, LAMBDA i : <<open(f, CREATE \cup RDWR, {3}),
                                      write(3, Fill("x", BUFSZ), {BUFSZ}), close(3)>>)
           \o <<unlink(f, ANY), unlink(f, ANY), exit(0)>>
  IN <<fork(child(1)), fork(child(2)), wait(OK), wait(OK)>>

bigfile ==
  LET f == <<"bigfile.dat">>
  IN <<unlink(f, ANY), open(f, CREATE \cup RDWR, {3})>>
     \o Repeat(4, LAMBDA i : <<write(3, Fill(Letters[i], 6), {6})>>)
     \o <<close(3), open(f, RDONLY, {3})>>
     \o Repeat(8, LAMBDA i : <<readwant(3, 3, Fill(Letters[(i + 1) \div 2], 3))>>)
     \o <<read(3, 3, {0}), close(3), unlink(f, ANY)>>

fourteen ==
  LET a == "12345678901234"
      b == Long
  IN <<mkdir(<<a>>, OK), mkdir(<<a, b>>, OK), open(<<b, b, b>>, CREATE, {3}), close(3),
       open(<<a, a, a>>, RDONLY, {3}), close(3), mkdir(<<a, a>>, FAIL), mkdir(<<b, a>>, FAIL),
       unlink(<<b, a>>, ANY), unlink(<<a, a>>, ANY), unlink(<<a, a, a>>, ANY),
       unlink(<<b, b, b>>, ANY), unlink(<<a, b>>, ANY), unlink(<<a>>, ANY)>>

rmdot ==
  LET d == <<"dots">>
  IN <<mkdir(d, OK), chdir(d, OK), unlink(<<".">>, FAIL), unlink(<<"..">>, FAIL),
       chdir(<<"/">>, OK), unlink(<<"dots", ".">>, FAIL), unlink(<<"dots", "..">>, FAIL),
       unlink(d, OK)>>

dirfile ==
  LET d == <<"dirfile">>
      x == <<"dirfile", "xx">>
  IN <<open(d, CREATE, {3}), close(3), chdir(d, FAIL), open(x, RDONLY, FAIL),
       open(x, CREATE, FAIL), mkdir(x, FAIL), unlink(x, FAIL), link(<<"README">>, x, FAIL),
       unlink(d, OK), open(<<".">>, RDWR, FAIL), open(<<".">>, RDONLY, {3}),
       write(3, Fill("x", 1), {-1, 0}), close(3)>>

iref ==
  LET d == <<"irefd">>
  IN Repeat(NINODE + 1, LAMBDA i :
       <<mkdir(d, OK), chdir(d, OK), mkdir(<<>>, ANY), link(<<"README">>, <<>>, ANY),
         open(<<>>, CREATE, ANY), close(LAST), open(<<"xx">>, CREATE, {3}), close(3), unlink(<<"xx">>, ANY)>>)
     \o Repeat(NINODE + 1, LAMBDA i : <<chdir(<<"..">>, ANY), unlink(d, ANY)>>)
     \o <<chdir(<<"/">>, ANY)>>

pgbug == <<Bad(pipe(FAIL))>>

badwrite ==
  LET f == <<"junk">>
  IN <<unlink(f, ANY)>>
     \o Repeat(N, LAMBDA i : <<open(f, CREATE \cup WRONLY, {3}), Bad(write(3, Fill("x", 1), ANY)),
                               close(3), unlink(f, ANY)>>)
     \o <<open(f, CREATE \cup WRONLY, {3}), write(3, Fill("x", 1), {1}), close(3), unlink(f, ANY)>>

-----------------------------------------------------------------------------
(* fork() works until proc[] is full: all slots but those of init and the  *)
(* test.  user/forktest.c is the same program.                             *)
forktest ==
  LET n == Cardinality(Procs) - 2
  IN Repeat(n, LAMBDA i : <<fork(<<exit(0)>>)>>) \o <<[tryfork(<<>>) EXCEPT !.v = FAIL]>>
     \o Repeat(n, LAMBDA i : <<wait(OK)>>) \o <<wait(FAIL)>>

(* The child runs echo with its output in a file.                          *)
exectest ==
  LET f == <<"echo-ok">>
      echo == <<write(1, Fill("O", 2), {2}), write(1, Fill("n", 1), {1}), exit(0)>>
  IN <<unlink(f, ANY), fork(<<close(1), open(f, CREATE \cup WRONLY, {1}),
                              run(<<"echo">>, <<1>>, echo)>>),
       wait(OK), open(f, RDONLY, {3}), readwant(3, 2, Fill("O", 2)), unlink(f, ANY), exit(0)>>

(* user/stressfs.c: each process forks the next; one fork, N writes and N  *)
(* reads instead of 4 and 20.                                              *)
stressfs ==
  LET work(i) ==
        LET f == <<"stressfs" \o <<"0", "1">>[i]>>
        IN <<open(f, CREATE \cup RDWR, ANY)>>
           \o Repeat(N, LAMBDA j : <<write(3, Fill("a", BSIZE), ANY)>>)
           \o <<close(3), open(f, RDONLY, ANY)>>
           \o Repeat(N, LAMBDA j : <<read(3, BSIZE, ANY)>>) \o <<close(3), wait(ANY), exit(0)>>
  IN <<tryfork(work(2))>> \o work(1)
=============================================================================
