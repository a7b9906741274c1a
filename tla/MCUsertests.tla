---------------------------- MODULE MCUsertests ----------------------------
EXTENDS Usertests, Memtests, Grind

CONSTANT Tests          \* the names of the programs to run

(* An executable with these program headers.                               *)
Elf(phs) == Fill(ELF, 1) \o [i \in DOMAIN phs |-> <<0, phs[i]>>]

MCPrograms == <<<<"README", Fill("r", 3)>>, <<"cat", Elf(<<"load">>)>>, <<"echo", Elf(<<"load">>)>>,
                <<"init", Elf(<<"load">>)>>>>

(* Programs of this model that use up descriptors, files and pipes, so     *)
(* that every error path of open(), dup(), pipe() and fork() is taken.     *)
fd_limit ==
  LET r == <<"README">>
  IN <<dup(0, {3}), dup(0, {4}), dup(0, {5}), open(r, RDONLY, {6}), dup(0, FAIL),
       open(r, RDONLY, FAIL), pipe(FAIL), close(6), pipe(FAIL), close(5), Bad(pipe(FAIL)),
       pipe(OK), [Bad(fstat(0, <<>>)) EXCEPT !.v = FAIL],
       [fstat(5, <<>>) EXCEPT !.v = FAIL]>>

file_limit ==
  LET r == <<"README">>
      opens == Repeat(4, LAMBDA i : <<open(r, RDONLY, {i + 2})>>)
      closes == Repeat(4, LAMBDA i : <<close(i + 2)>>)
  IN opens \o <<fork(closes \o opens
       \o <<fork(closes \o <<pipe(FAIL), open(r, RDONLY, {3}), open(r, RDONLY, FAIL), pipe(FAIL)>>),
            wait(OK)>>), wait(OK)>>

pipe_limit ==
  <<pipe(OK), pipe(OK), fork(<<close(3), close(4), close(5), close(6), pipe(FAIL)>>), wait(OK)>>

(* Every error path of exec(): the headers, the segments, the arguments,   *)
(* and memory that ends during or after the second of two segments.        *)
exec_limit ==
  LET f == <<"f">>
      make(data) == <<open(f, CREATE \cup WRONLY \cup TRUNC, {3}), write(3, data, {Len(data)}), close(3)>>
      fails(path, args) == <<[run(path, args, <<>>) EXCEPT !.v = FAIL]>>
      refused(data) == make(data) \o fails(f, <<1>>)
  IN refused(Fill("x", 2)) \o refused(Elf(<<"badph">>)) \o refused(Elf(<<"load", "badph">>))
     \o refused(Elf(<<"badseg">>)) \o refused(Elf(<<"note", "load", "badseg">>))
     \o fails(<<"echo">>, <<1, 1, 1, 1>>) \o fails(<<"none">>, <<1>>) \o make(Elf(<<"load", "load">>))
     \o <<fork(<<Either({Leaving(a) : a \in Avail}), [run(f, <<1>>, <<>>) EXCEPT !.v = ANY],
                 exit(0)>>), wait(ANY), run(f, <<1>>, <<exit(0)>>)>>

Program ==
  [copyin |-> copyin, copyout |-> copyout, truncate1 |-> truncate1, truncate2 |-> truncate2,
   truncate3 |-> truncate3, iputtest |-> iputtest, exitiputtest |-> exitiputtest,
   openiputtest |-> openiputtest, opentest |-> opentest, writetest |-> writetest,
   writebig |-> writebig, createtest |-> createtest, dirtest |-> dirtest, pipe1 |-> pipe1,
   killstatus |-> killstatus, exitwait |-> exitwait, reparent |-> reparent,
   twochildren |-> twochildren, forkfork |-> forkfork, reparent2 |-> reparent2,
   sharedfd |-> sharedfd, fourfiles |-> fourfiles, createdelete |-> createdelete,
   unlinkread |-> unlinkread, linktest |-> linktest, concreate |-> concreate,
   linkunlink |-> linkunlink, bigdir |-> bigdir, subdir |-> subdir, bigwrite |-> bigwrite,
   manywrites |-> manywrites, bigfile |-> bigfile, fourteen |-> fourteen, rmdot |-> rmdot,
   dirfile |-> dirfile, iref |-> iref, pgbug |-> pgbug, badwrite |-> badwrite,
   forktest |-> forktest, exectest |-> exectest, stressfs |-> stressfs,
   grind |-> grind, grind_procs |-> grind_procs, grind_pipeline |-> grind_pipeline,
   fd_limit |-> fd_limit, file_limit |-> file_limit, pipe_limit |-> pipe_limit,
   exec_limit |-> exec_limit,
   MAXVAplus |-> MAXVAplus, kernmem |-> kernmem, stacktest |-> stacktest, copyinstr1 |-> copyinstr1,
   copyinstr2 |-> copyinstr2, rwsbrk |-> rwsbrk, sbrkbasic |-> sbrkbasic, sbrkmuch |-> sbrkmuch,
   sbrkfail |-> sbrkfail, sbrkarg |-> sbrkarg, validatetest |-> validatetest, bigargtest |-> bigargtest,
   sbrkbugs |-> sbrkbugs, sbrklast |-> sbrklast, sbrk8000 |-> sbrk8000, badarg |-> badarg,
   execout |-> execout, forkout |-> forkout, sbrkrace |-> sbrkrace, preempt |-> preempt]

Init == \E t \in Tests : Start(Program[t])
MCTests == DOMAIN Program
Spec == Init /\ [][Next]_vars
=============================================================================
