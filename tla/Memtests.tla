------------------------------ MODULE Memtests ------------------------------
(***************************************************************************)
(* The tests of user/usertests.c that are about memory.  IMG is the size   *)
(* of the test's own image: program, guard page and stack page.            *)
(***************************************************************************)
EXTENDS Syscalls

IMG == (Pages(PROGSZ) + 2) * PGSIZE
TOOMUCH == (NPAGES - 10) * PGSIZE       \* more than there is
BIG == 20 * PGSIZE                      \* most of what there is
KERNBASE == (NPAGES - 8) * PGSIZE       \* above any process, below MAXVA
MAXVA == (TRAMPOLINE + 1) * PGSIZE
echo == <<"echo">>

MAXVAplus == <<fork(<<access(MAXVA), exit(1)>>), wait(FAIL), fork(<<access(2 * MAXVA), exit(1)>>),
               wait(FAIL)>>

kernmem == <<fork(<<access(KERNBASE), exit(1)>>), wait(FAIL)>>

stacktest == <<fork(<<Top(access(PGSIZE + 1)), exit(1)>>), wait(FAIL)>>

copyinstr1 ==
  LET f == open(<<"x">>, CREATE \cup WRONLY, FAIL)
  IN <<Using(f, KERNBASE), Using(f, 2 * MAXVA)>>

(* The path b is too long.                                                 *)
copyinstr2 ==
  LET b == <<"b">>
      big == PGSIZE + 1
      failing(c) == [c EXCEPT !.v = FAIL]
  IN <<Bad(unlink(b, FAIL)), Bad(open(b, CREATE \cup WRONLY, FAIL)), Bad(link(b, b, FAIL)),
       Bad(failing(run(b, <<1>>, <<>>))),
       fork(<<failing(run(echo, <<big, big, big>>, <<>>)), exit(74)>>), wait({74})>>

rwsbrk ==
  LET f == <<"rwsbrk">>
  IN <<sbrk(2 * PGSIZE, {IMG}), sbrk(-2 * PGSIZE, {IMG + 2 * PGSIZE}),
       open(f, CREATE \cup WRONLY, {3}), Using(write(3, Fill("x", 1), FAIL), IMG + PGSIZE), close(3),
       unlink(f, OK), open(<<"README">>, RDONLY, {3}), Using(read(3, 1, FAIL), IMG + PGSIZE),
       close(3), exit(0)>>

sbrkbasic ==
  LET a == IMG + 5
  IN <<fork(<<sbrk(TOOMUCH, FAIL), exit(0)>>), wait(OK)>>
     \o Repeat(5, LAMBDA i : <<sbrk(1, {IMG + i - 1}), access(IMG + i - 1)>>)
     \o <<fork(<<sbrk(1, {a}), sbrk(1, {a + 1}), exit(0)>>), sbrk(1, {a}), sbrk(1, {a + 1}), wait(OK)>>

sbrkmuch ==
  <<sbrkto(BIG, {IMG}), access(IMG), access(BIG - 1), sbrk(-PGSIZE, {BIG}), sbrk(0, {BIG - PGSIZE}),
    sbrk(PGSIZE, {BIG - PGSIZE}), sbrk(0, {BIG}), sbrk(IMG - BIG, {BIG}), sbrk(0, {IMG})>>

(* Two children; the second cannot have as much as the first.              *)
sbrkfail ==
  LET much == 15 * PGSIZE
      child == <<sbrkto(much, ANY), write(4, Fill("x", 1), {1}), spin>>
  IN <<pipe(OK), fork(child), read(3, 1, {1}), fork(child), read(3, 1, {1}), sbrk(PGSIZE, {IMG}),
       killpid(3), wait(ANY), killpid(4), wait(ANY),
       fork(<<sbrk(TOOMUCH, ANY), Top(access(0)), exit(1)>>), wait(FAIL)>>

sbrkarg ==
  LET f == <<"sbrk">>
  IN <<sbrk(PGSIZE, {IMG}), open(f, CREATE \cup WRONLY, {3}), unlink(f, OK),
       Using(write(3, Fill("x", PGSIZE), {PGSIZE}), IMG), close(3), sbrk(PGSIZE, {IMG + PGSIZE}),
       Using(pipe(OK), IMG + PGSIZE)>>

validatetest ==
  Repeat(5, LAMBDA i : <<Using(link(<<"nosuchfile">>, <<"x">>, FAIL), (i - 1) * PGSIZE)>>)

bigargtest ==
  LET ok == <<"bigarg-ok">>
      args == [i \in 1 .. PGSIZE + 1 |-> 1]
  IN <<unlink(ok, ANY), fork(<<[run(echo, args, <<>>) EXCEPT !.v = FAIL], open(ok, CREATE, ANY),
                               close(LAST), exit(0)>>),
       wait(OK), open(ok, RDONLY, {3}), close(3)>>

(* The break at 0, inside the first page, and inside a page.               *)
sbrkbugs ==
  <<fork(<<sbrkto(0, {IMG}), access(0), exit(0)>>), wait(ANY),
    fork(<<sbrkto(1, {IMG}), exit(0)>>), wait(ANY),
    fork(<<sbrkto(10 * PGSIZE + 2, {IMG}), sbrk(-1, {10 * PGSIZE + 2}), exit(0)>>), wait(ANY)>>

sbrklast ==
  LET f == <<"x">>
      at(c) == Top(Using(c, 1))
  IN <<sbrk(PGSIZE, {IMG}), sbrk(1, {IMG + PGSIZE}), sbrk(-2, {IMG + PGSIZE + 1}),
       at(open(f, RDWR \cup CREATE, {3})), at(write(3, Fill("x", 1), {1})), close(3),
       at(open(f, RDWR, {3})), at(readwant(3, 1, Fill("x", 1)))>>

(* A negative argument, below -p->sz.                                      *)
sbrk8000 == <<sbrk(4 - WORD \div 2, {IMG}), sbrk(0, {IMG}), Top(access(1))>>

badarg == Repeat(N, LAMBDA i : <<[run(echo, <<0>>, <<>>) EXCEPT !.v = FAIL]>>)

(* All of memory, but avail pages; the code tries avail = 0 to 14.         *)
Leaving(avail) == <<sbrkall>> \o Repeat(avail, LAMBDA i : <<sbrk(-PGSIZE, ANY)>>)
Avail == 0 .. 14

execout ==
  <<fork(<<Either({Leaving(a) : a \in Avail}), close(1), [run(echo, <<1, 1>>, <<>>) EXCEPT !.v = ANY],
           exit(0)>>), wait(ANY)>>

(* Programs of this model: fork() and pipe() without memory.               *)
forkout ==
  <<fork(<<Either({Leaving(a) : a \in Avail}), tryfork(<<exit(0)>>), wait(ANY), pipe(ANY), pipe(ANY)>>),
    wait(OK)>>

(* Two processes share what is left of memory.                             *)
sbrkrace ==
  LET grow == <<sbrk(14 * PGSIZE, ANY), tryfork(<<sbrk(-PGSIZE, ANY), exit(0)>>), sbrk(3 * PGSIZE, ANY), exit(0)>>
  IN <<fork(grow), fork(grow), wait(OK), wait(OK)>>

preempt ==
  <<fork(<<spin>>), fork(<<spin>>), pipe(OK),
    fork(<<close(3), write(4, Fill("x", 1), {1}), close(4), spin>>), close(4), read(3, 2, {1}),
    close(3), killpid(3), killpid(4), killpid(5), wait(ANY), wait(ANY), wait(ANY)>>
=============================================================================
