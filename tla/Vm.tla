--------------------------------- MODULE Vm ---------------------------------
(***************************************************************************)
(* kernel/vm.c over kernel/kalloc.c, with what proc.c does to user memory. *)
(* m is the memory of one page table: the number of free pages in the      *)
(* kernel, the page-table pages of the table (the root is <<>>, the page   *)
(* below entry i is <<i>>, and so on), the leaves map from page numbers to *)
(* permissions, and the value v of the function.  Addresses are in units,  *)
(* of which PGSIZE make a page.                                            *)
(***************************************************************************)
EXTENDS Integers, Sequences, FiniteSets, SequencesExt, Functions, TLC

CONSTANTS PGSIZE,
          NPTE,         \* entries of a page-table page (512 in the code)
          NPAGES,       \* pages kinit() frees
          WORD          \* 2^32: growproc() computes sz + n in a uint

ASSUME VmAssumption ==
  /\ {PGSIZE, NPTE, NPAGES} \subseteq Nat \ {0}
  /\ WORD \in Nat /\ WORD > NPAGES * PGSIZE
  /\ NPTE * NPTE * NPTE > NPAGES + 2

TRAMPOLINE == NPTE * NPTE * NPTE - 1    \* page numbers
TRAPFRAME == TRAMPOLINE - 1

Pages(sz) == (sz + PGSIZE - 1) \div PGSIZE      \* PGROUNDUP(sz) / PGSIZE
Table2(va) == <<va \div (NPTE * NPTE)>>
Table1(va) == <<va \div (NPTE * NPTE), (va \div NPTE) % NPTE>>

Returning(m, v) == [m EXCEPT !.v = v]
VmPanic(m, why) == [m EXCEPT !.panic = IF @ = "" THEN why ELSE @, !.v = -1]

(* walk() with alloc: the page-table pages on the way are allocated.       *)
walkalloc(m, va) ==
  LET down(s, t) == IF s.v < 0 \/ t \in s.dirs THEN s
                    ELSE IF s.free = 0 THEN Returning(s, -1)
                    ELSE [s EXCEPT !.free = @ - 1, !.dirs = @ \cup {t}]
  IN down(down(Returning(m, 0), Table2(va)), Table1(va))

mappages(m, va, perm) ==
  LET w == walkalloc(m, va)
  IN IF w.v < 0 THEN w
     ELSE IF va \in DOMAIN m.map THEN VmPanic(w, "mappages: remap")
     ELSE [w EXCEPT !.map = (va :> perm) @@ @]

uvmunmap(m, va, npages, do_free) ==
  LET range == va .. va + npages - 1
  IN IF ~ range \subseteq DOMAIN m.map THEN VmPanic(m, "uvmunmap: not mapped")
     ELSE [m EXCEPT !.map = Restrict(@, DOMAIN @ \ range),
                    !.free = IF do_free THEN @ + npages ELSE @]

(* The body of the loops of uvmalloc() and uvmcopy(): a page, mapped at a. *)
(* On failure v is -1 and m.at the page that could not be mapped.          *)
(* Mutant: the page is not given back when mappages() fails.               *)
FillPage_Mutant(m, a, perm) ==
  LET t == mappages([m EXCEPT !.free = @ - 1], a, perm)
  IN IF m.free = 0 THEN [m EXCEPT !.v = -1, !.at = a]
     ELSE [t EXCEPT !.at = a]

FillPage(m, a, perm) ==
  LET t == mappages([m EXCEPT !.free = @ - 1], a, perm)
  IN IF m.free = 0 THEN [m EXCEPT !.v = -1, !.at = a]
     ELSE IF t.v < 0 THEN [t EXCEPT !.free = @ + 1, !.at = a]
     ELSE t

RECURSIVE FillPages(_, _, _, _)
FillPages(m, a, b, perms) ==
  LET s == FillPage(m, a, perms[a])
  IN IF a >= b THEN Returning(m, 0)
     ELSE IF s.v < 0 THEN s
     ELSE FillPages(s, a + 1, b, perms)

uvmcreate(m) ==
  IF m.free = 0 THEN Returning(m, -1)
  ELSE [m EXCEPT !.free = @ - 1, !.dirs = {<<>>}, !.map = <<>>, !.v = 0]

uvmdealloc(m, oldsz, newsz) ==
  IF newsz >= oldsz THEN Returning(m, oldsz)
  ELSE Returning(uvmunmap(m, Pages(newsz), Pages(oldsz) - Pages(newsz), TRUE), newsz)

(* A function is cut after a loop or a call that can fail: the argument m  *)
(* of the next part is what it left, with its result in m.v.               *)
uvmalloc_filled(m, a, newsz) ==
  IF m.v < 0 THEN Returning(uvmdealloc(m, m.at * PGSIZE, a * PGSIZE), 0)
  ELSE Returning(m, newsz)

(* Returns 0 on error.                                                     *)
uvmalloc(m, oldsz, newsz) ==
  LET a == Pages(oldsz)
  IN IF newsz < oldsz THEN Returning(m, oldsz)
     ELSE uvmalloc_filled(FillPages(m, a, Pages(newsz),
                                    [va \in a .. Pages(newsz) - 1 |-> "user"]), a, newsz)

freewalk(m) ==
  IF DOMAIN m.map # {} THEN VmPanic(m, "freewalk: leaf")
  ELSE [m EXCEPT !.free = @ + Cardinality(m.dirs), !.dirs = {}]

uvmfree(m, sz) == freewalk(IF sz > 0 THEN uvmunmap(m, 0, Pages(sz), TRUE) ELSE m)

uvmcopy_filled(m) == IF m.v < 0 THEN Returning(uvmunmap(m, 0, m.at, TRUE), -1) ELSE m

(* old is the map of the parent's table.                                   *)
uvmcopy(old, m, sz) ==
  IF ~ 0 .. Pages(sz) - 1 \subseteq DOMAIN old THEN VmPanic(m, "uvmcopy: page not present")
  ELSE uvmcopy_filled(FillPages(m, 0, Pages(sz), old))

uvmclear(m, va) == [m EXCEPT !.map[va] = "guard"]

-----------------------------------------------------------------------------
(* proc.c                                                                  *)
proc_pagetable(m) ==
  LET a == uvmcreate(m)
      b == mappages(a, TRAMPOLINE, "kernel")
      c == mappages(b, TRAPFRAME, "kernel")
  IN IF a.v < 0 THEN a
     ELSE IF b.v < 0 THEN Returning(uvmfree(b, 0), -1)
     ELSE IF c.v < 0 THEN Returning(uvmfree(uvmunmap(c, TRAMPOLINE, 1, FALSE), 0), -1)
     ELSE c

proc_freepagetable(m, sz) ==
  uvmfree(uvmunmap(uvmunmap(m, TRAMPOLINE, 1, FALSE), TRAPFRAME, 1, FALSE), sz)

NoTable == [dirs |-> {}, map |-> <<>>]

(* The memory of process p in the kernel state k, and its new memory.      *)
Memory(k, p) == [free |-> k.free, dirs |-> k.vm[p].dirs, map |-> k.vm[p].map, at |-> 0,
                 v |-> 0, panic |-> k.panic]
Install(k, p, m, sz) ==
  [k EXCEPT !.free = m.free, !.panic = m.panic, !.sz[p] = sz, !.v = m.v,
            !.vm[p] = [dirs |-> m.dirs, map |-> m.map]]

(* The part of freeproc() that is about memory: the trapframe as well.     *)
freeproc(k, p) ==
  LET m == proc_freepagetable([Memory(k, p) EXCEPT !.free = @ + 1], k.sz[p])
  IN Install(k, p, m, 0)

(* allocproc(): the trapframe and the page table; -1 without memory.       *)
allocproc(k, np) ==
  LET m == proc_pagetable([Memory(k, np) EXCEPT !.free = @ - 1])
  IN IF k.free = 0 THEN [k EXCEPT !.v = -1]
     ELSE Install(k, np, [m EXCEPT !.free = IF m.v < 0 THEN @ + 1 ELSE @], 0)

fork_copied(k, m, p, np) ==
  IF m.v < 0 THEN [freeproc(Install(k, np, m, 0), np) EXCEPT !.v = -1]
  ELSE Install(k, np, m, k.sz[p])

fork_alloced(k, p, np) ==
  IF k.v < 0 THEN k
  ELSE fork_copied(k, uvmcopy(k.vm[p].map, Memory(k, np), k.sz[p]), p, np)

(* fork() up to np->sz = p->sz.                                            *)
fork_memory(k, p, np) == fork_alloced(allocproc(k, np), p, np)

grown(k, p, m) ==
  IF m.v = 0 THEN [Install(k, p, m, k.sz[p]) EXCEPT !.v = -1]
  ELSE [Install(k, p, m, m.v) EXCEPT !.v = 0]

growproc(k, p, n) ==
  LET sz == k.sz[p]
      m == Memory(k, p)
      down == uvmdealloc(m, sz, (sz + n) % WORD)
  IN IF n > 0 THEN grown(k, p, uvmalloc(m, sz, (sz + n) % WORD))
     ELSE IF n < 0 THEN [Install(k, p, down, down.v) EXCEPT !.v = 0]
     ELSE [k EXCEPT !.v = 0]

sys_sbrk(k, p, n) ==
  LET l == growproc(k, p, n)
  IN [l EXCEPT !.v = IF @ < 0 THEN -1 ELSE k.sz[p]]

(* userinit(): the memory of the first process, one page of initcode.      *)
userinit(k, p) ==
  LET a == allocproc(k, p)
  IN Install(a, p, mappages([Memory(a, p) EXCEPT !.free = @ - 1], 0, "user"), PGSIZE)

(* walkaddr() finds a user page: what copyin(), copyout() and the hardware *)
(* ask of an address.                                                      *)
IsUser(k, p, addr) ==
  LET va == addr \div PGSIZE
  IN va \in DOMAIN k.vm[p].map /\ k.vm[p].map[va] = "user"

(* The memory of exec(): a new table for the program headers phs, whose    *)
(* segments have size progsz, a guard page and a stack page, and arguments *)
(* of size args.  k is the state before, m the table so far.               *)
exec_fail(k, m) == [k EXCEPT !.free = m.free, !.panic = m.panic, !.v = -1]

exec_commit(k, p, m, sz) ==
  LET old == proc_freepagetable([Memory(k, p) EXCEPT !.free = m.free], k.sz[p])
  IN [Install(k, p, m, sz) EXCEPT !.free = old.free, !.panic = old.panic, !.v = 0]

exec_stack(k, p, m, sz, args) ==
  LET cleared == uvmclear(m, sz \div PGSIZE)
  IN IF m.v = 0 THEN exec_fail(k, proc_freepagetable(m, sz))
     ELSE IF args > PGSIZE THEN exec_fail(k, proc_freepagetable(cleared, sz + 2 * PGSIZE))
     ELSE exec_commit(k, p, cleared, m.v)

(* The loop over the program headers, up to PGROUNDUP(sz).  A header is    *)
(* "load"; "badph", which cannot be read or whose sizes make no sense;     *)
(* "badseg", which is not aligned or which loadseg() cannot read; or of a  *)
(* type that is skipped.  On error the table is freed with the sz so far.  *)
RECURSIVE exec_load(_, _, _, _)
exec_load(m, sz, phs, progsz) ==
  LET ph == Head(phs)
      a == uvmalloc(m, sz, Pages(sz) * PGSIZE + progsz)
      bad(t, s) == Returning(proc_freepagetable(t, s), -1)
  IN IF phs = <<>> THEN Returning(m, Pages(sz) * PGSIZE)
     ELSE IF ph = "badph" THEN bad(m, sz)
     ELSE IF ph \notin {"load", "badseg"} THEN exec_load(m, sz, Tail(phs), progsz)
     ELSE IF a.v = 0 THEN bad(a, sz)
     ELSE IF ph = "badseg" THEN bad(a, a.v)
     ELSE exec_load(a, a.v, Tail(phs), progsz)

exec_loaded(k, p, m, args) ==
  IF m.v < 0 THEN exec_fail(k, m)
  ELSE exec_stack(k, p, uvmalloc(m, m.v, m.v + 2 * PGSIZE), m.v, args)

exec_table(k, p, m, phs, progsz, args) ==
  IF m.v < 0 THEN exec_fail(k, m)
  ELSE exec_loaded(k, p, exec_load(m, 0, phs, progsz), args)

exec_memory(k, p, phs, progsz, args) ==
  exec_table(k, p, proc_pagetable(Memory(k, p)), phs, progsz, args)
=============================================================================
