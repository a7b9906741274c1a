------------------------------- MODULE Grind -------------------------------
(***************************************************************************)
(* user/grind.c as programs over Syscalls: processes that make calls at    *)
(* random on the same few names.  rand() is an arbitrary choice.           *)
(***************************************************************************)
EXTENDS Syscalls

(* The variable fd of go(): descriptor 3 once cases 5 and 6 have opened it.*)
fd == 3

touch(path) == <<open(path, CREATE \cup RDWR, ANY), close(LAST)>>
reopen(path) == <<close(fd), open(path, CREATE \cup RDWR, ANY)>>

(* Cases 1 to 12: the same names by different paths.                       *)
PathCases ==
  {touch(<<"grindir", "..", "a">>),
   touch(<<"grindir", "..", "grindir", "..", "b">>),
   <<unlink(<<"grindir", "..", "a">>, ANY)>>,
   <<chdir(<<"grindir">>, OK), unlink(<<"..", "b">>, ANY), chdir(<<"/">>, ANY)>>,
   reopen(<<"/", "grindir", "..", "a">>) \o <<write(fd, Fill("x", BSIZE), ANY)>>,
   reopen(<<"/", ".", "grindir", ".", "..", "b">>) \o <<read(fd, BSIZE, ANY)>>,
   <<mkdir(<<"grindir", "..", "a">>, ANY)>> \o touch(<<"a", "..", "a", ".", "a">>)
     \o <<unlink(<<"a", "a">>, ANY)>>,
   <<mkdir(<<"/", "..", "b">>, ANY)>> \o touch(<<"grindir", "..", "b", "b">>)
     \o <<unlink(<<"b", "b">>, ANY)>>,
   <<unlink(<<"b">>, ANY), link(<<"..", "grindir", ".", "..", "a">>, <<"..", "b">>, ANY)>>,
   <<unlink(<<"..", "grindir", "..", "a">>, ANY),
     link(<<"..", ".", "b">>, <<"/", "grindir", "..", "a">>, ANY)>>}

(* Cases 20 and 21: a file in a removed directory, and a small file.       *)
CreateCases ==
  {<<fork(<<unlink(<<"a">>, ANY), mkdir(<<"a">>, ANY), chdir(<<"a">>, ANY),
            unlink(<<"..", "a">>, ANY), open(<<"x">>, CREATE \cup RDWR, ANY),
            unlink(<<"x">>, ANY), exit(0)>>), wait(ANY)>>,
   <<unlink(<<"c">>, ANY), open(<<"c">>, CREATE \cup RDWR, {3}), write(3, Fill("x", 1), {1}),
     [fstat(3, <<>>) EXCEPT !.check = "size1"], close(3), unlink(<<"c">>, ANY)>>}

(* Cases 13 to 19: processes, memory and pipes.  Case 16 alone, with the   *)
(* break at break0, changes nothing.                                       *)
break0 == (Pages(PROGSZ) + 2) * PGSIZE
ProcessCases ==
  {<<fork(<<exit(0)>>), wait(ANY)>>,
   <<fork(<<tryfork(<<tryfork(<<>>), exit(0)>>), tryfork(<<>>), exit(0)>>), wait(ANY)>>,
   <<fork(touch(<<"a">>)), chdir(<<"..", "grindir", "..">>, OK), kill, wait(ANY)>>,
   <<sbrk(PGSIZE + PGSIZE \div 2, ANY), sbrkto(break0, ANY)>>,
   <<fork(<<killself, exit(0)>>), wait(ANY)>>,
   LET io == <<write(4, Fill("x", 1), {1}), read(3, 1, {1}), exit(0)>>
   IN <<pipe(OK), fork(<<tryfork(<<tryfork(io)>> \o io), tryfork(io)>> \o io),
        close(3), close(4), wait(ANY)>>}

(* Case 22: echo hi | cat.  echo's and cat's writes are of one cell.       *)
Pipeline ==
  LET echo == <<write(1, Fill("h", 1), {1}), write(1, Fill("i", 1), {1}),
                write(1, Fill("n", 1), {1}), exit(0)>>
      copy(c) == <<readwant(0, 1, Fill(c, 1)), write(1, Fill(c, 1), {1})>>
      cat == copy("h") \o copy("i") \o copy("n") \o <<read(0, 1, {0}), exit(0)>>
  IN <<pipe(OK), pipe(OK),
       fork(<<close(5), close(6), close(3), close(1), dup(4, {1}), close(4),
              run(<<"grindir", "..", "echo">>, <<1>>, echo), exit(2)>>),
       fork(<<close(4), close(5), close(0), dup(3, {0}), close(3), close(1), dup(6, {1}),
              close(6), run(<<"/", "cat">>, <<1>>, cat), exit(6)>>),
       close(3), close(4), close(6),
       readwant(5, 1, Fill("h", 1)), readwant(5, 1, Fill("i", 1)), readwant(5, 1, Fill("n", 1)),
       close(5), wait(OK), wait(OK)>>

go(cases) ==
  <<mkdir(<<"grindir">>, ANY), chdir(<<"grindir">>, OK), chdir(<<"/">>, ANY), Either(cases)>>

(* iter(): two processes, of one choice each.                              *)
grind ==
  <<unlink(<<"a">>, ANY), unlink(<<"b">>, ANY)>>
  \o <<fork(go(PathCases \cup CreateCases)), fork(go(PathCases \cup CreateCases)), wait(ANY), wait(ANY)>>

grind_procs == go(ProcessCases)
grind_pipeline == <<mkdir(<<"grindir">>, ANY)>> \o Pipeline
=============================================================================
