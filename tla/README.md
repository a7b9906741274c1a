# Verification of the xv6 kernel (myXV6)

TLA+ models of the kernel under `src/kernel`, of the image `mkfs` builds and of the
programs of `usertests.c`; the TLC runs that check them on small instances; and
TLAPS proofs, for every size, about the redo log, the process table, the pipes, the
buffer cache, the disk driver and the console.
Definitions keep the names of the C functions they model; `PROJECT.json` maps each
to its lines.

## 1. The system

xv6 is a small Unix kernel for a RISC-V multiprocessor. This copy adds CPU time
(`cputime`, `wait2`), `priority`, `readytime` and `getprocs` to the original.

| part | source | what it does | modules |
|---|---|---|---|
| redo log | `log.c` | makes each file-system call atomic across crashes | `AtomicDisk`, `Log`, two proof modules |
| processes, scheduler | `proc.c` | fork, exit, wait, kill, sleep/wakeup, context switch | `Proc`, a proof module, `Rusage` |
| traps, clock | `trap.c`, `sysproc.c` | entry into the kernel, ticks, `sys_sleep` | `Proc`, `Clock`, `Rusage` |
| pipes | `pipe.c` | bounded byte queue between processes | `Fifo`, `Pipe`, a proof module |
| buffer cache, sleep locks | `bio.c`, `sleeplock.c` | one locked copy of each disk block | `BlockStore`, `Bio`, a proof module |
| disk driver | `virtio_disk.c` | descriptor rings shared with the device | `Requests`, `Virtio`, a proof module |
| inodes, directories, blocks | `fs.c` | the file system above the log | `Fs` (what), `Inode` (locking) |
| files, descriptors, file calls | `file.c`, `sysfile.c` | reference-counted open files | `Sysfile`, `Syscalls` |
| memory, exec | `kalloc.c`, `vm.c`, `exec.c` | pages and address spaces | `Vm`, `Sysfile` |
| console, UART | `console.c`, `uart.c` | line input, output ring | `Lines`, `Fifo`, `Tty`, a proof module |
| image builder | `mkfs.c` | the disk the kernel boots from | `Mkfs` |
| tests | `usertests.c`, `grind.c`, ... | what the authors expect of the calls | `Usertests`, `Memtests`, `Grind` |
| spinlocks | `spinlock.c` | mutual exclusion between CPUs | as lock holders in each module, `Clock` |

How they interact, and where the modules rely on each other:

- A file-system call runs between `begin_op()` and `end_op()`, changes buffers of
  the cache and hands them to `log_write()`; the last call to end commits them.
  `Log` assumes that a call logs at most `OpMax` blocks, fewer than `MAXOPBLOCKS`.
  `Syscalls` shows it of the calls (`TransactionsFit`).
- `bread()` and `bwrite()` use the driver. `Bio` lets the data move at some moment
  before `virtio_disk_rw()` returns, which is what `Requests` says and `Virtio`
  implements.
- The log and the file system use one copy of a block under its lock. That is
  `BlockStore`, which `Bio` implements; `Log` writes to `cache` on this ground.
- `Sysfile` uses a pipe as the queue that `Fifo` describes and `Pipe` implements.
- Everything that waits does so with `sleep(chan, lk)` and is woken with
  `wakeup(chan)`. The modules model that pair by what it guarantees: `sleep` takes
  `p->lock` before it gives `lk` up, so test and sleep are one step for whoever
  needs `lk`. `Proc` models how, for the wait channel.
- The calls of `Syscalls` are atomic. `Inode` looks at what happens between the
  locks inside them, and `Proc` at exit against wait.

## 2. Modules

### Log (with AtomicDisk)

State: the in-memory log (`committing`, `outstanding`, `lh`), the buffers
(`cache`, `pins`), the disk (`home`, `logdata`, `hdr`), one program counter per
process, and the progress of recovery (`boot`, `btail`). Each critical section of
`log.lock` is an action (`begin_op`, `log_write`, `end_op`, `end_commit`) and so
is each block write of `commit()` (`write_log`, `write_head`, `install_trans`,
`clear_head`) and of recovery (`read_head`, `recover_install`, `recover_clear`).
`Modify` is the part of a call between `bread()` and `log_write()`. `Crash` loses
the memory; the block being written may be left with any contents, except the
header, which fits in a sector. Buffers come and go with `bread` and `Recycle`
in a cache without a size limit. Panics are guards without an alternative, and
`NoLogPanic` says they never bite.

`AtomicDisk` is the specification: a durable state, a volatile view, and a commit
that makes the view durable when no call is in progress. `Log` maps `durable` to
`Recovered`, the disk recovery would leave now, and `view` to what `bread()`
returns.

### Proc

State: the fields of `struct proc`, `wait_lock`, the `p->lock`s that are held
between two actions, `c->proc` and the stack each CPU is on, a program counter and
loop variables per process. A critical section of one `p->lock` is one action;
scans of the process table (`reparent`, `wakeup`, the loop of `wait`) stop at each
slot, so other CPUs act between two slots. The context switch is four
steps: `scheduler` (lock, RUNNING, onto the stack), `sched_return` (the process
releases its lock), `sched` (off the stack), `scheduler_return` (the scheduler
releases the lock). `usertrap` models the end of every trap: exit if killed, else
yield. A timer may also preempt kernel code that holds no spinlock (`kerneltrap`).
User programs make any sequence of calls. Nobody kills init, whose exit is a
panic. Files and memory of a process belong to `Sysfile` and `Vm`.

### Clock and Rusage

`Clock` has `tickslock` and the `p->lock`s with every `acquire` a step of its own,
because `wakeup()`, `clockintr()` and `sys_sleep()` hold two locks at a time.
Sleepers and wakers on other channels are any process at any time.

`Rusage` is the cputime accounting: traps load and store `p->cputime` without a
lock, `allocproc()` resets it in the slots it passes, `wait2()` reports it. `ran`
counts the ticks a process was charged for, `report` remembers the last `wait2()`.

### Pipe (with Fifo)

The fields of `struct pipe`, with counters modulo `UINT`, and a program counter
per process; the loops go byte by byte under `pi->lock`. `kill`, and `copyin` and
`copyout` failures, may happen at any byte. `Fifo` is the abstract queue; `Pipe`
maps it to the bytes between `nread` and `nwrite`.

### Bio (with BlockStore)

`NBUF` buffers in an LRU list with reference counts and sleep locks. An access is
one use of a block, from `bread()` to `brelse()`; a process has one or two at a time
(`write_log()`, `bmap()` above `balloc()`), and how they belong together does not
matter to the cache. It goes through `bget`, `acquiresleep`, the read, its use of the
block, `bwrite` or `log_write`'s `bpin`, `releasesleep` and the rest of `brelse`, each
a step under `bcache.lock` or the spinlock of the sleep lock. The log writes pinned
blocks and unpins them. Any number of accesses may begin, so
`panic("bget: no buffers")` happens; it is a program counter of its own, and after it
nothing is said of the system. `PanicIsShortage` says that it happens only when
accesses in progress and pinned blocks account for all `NBUF` buffers.
`CacheIsStore` says that for every block this is a `BlockStore`: one value and one
user, whichever buffer holds it.

### Virtio (with Requests)

`NUM` descriptors, the avail and used rings with indices modulo `Wrap`, the
device, and the interrupt handler. `disk.vdisk_lock` makes each stretch of
`virtio_disk_rw()` between two sleeps one step. The device fetches chains in ring
order, serves them in any order and interrupts; the handler's acknowledgement and
each iteration of its loop are steps, because the device goes on meanwhile.
`alloc3_desc()` that fails gives back what it took. `Requests` is the promise: the
data of a request moves exactly once, between call and return.

### Inode

The locking of `fs.c` and `sysfile.c`: `iget`, `ilock`, `iput`, `namex`, `create`,
`open`, `link` and `unlink`, cut where a process can wait for an inode lock. Inodes
on disk (`dinode`), directories (`dir`) and the table in memory (`inode`) are
separate, so that a copy can be stale. Three history variables record what the code
does not prevent: `lost`, inodes entered in a directory that was removed
meanwhile; `late`, inodes allocated again while the `iput()` that freed them
stood between `releasesleep()` and `ip->ref--`; and `stray`, processes that looked up
`..` in a removed directory, whose parent may be gone as well. The last can panic in
`ilock()`. `NoPanic` speaks of the others, and a panic ends the behaviour.

### Fs, Sysfile, Vm, Mkfs: the kernel as functions

A kernel state is a record `k`; each C function is an operator from the state
before the call to the state after it, with its value in `k.v` and a panic as a
field. `Fs` has blocks, the bitmap, inodes with direct and indirect blocks,
directories and paths; the data of a file are cells of a block. `Sysfile` has
descriptors, open files, pipes, current directories and every call of `sysfile.c`,
with each error path. `Vm` has the number of free pages, and per process its
page-table pages and leaves; `kalloc()` fails when no page is left, and the failure
paths of `uvmalloc`, `uvmcopy`, `mappages`, `exec` and `fork` free what they free in the
code. The first cell of an executable is its ELF header and each further cell a program
header: loadable, unreadable, with a segment that cannot be loaded, or of a type that
is skipped. `exec_load` goes through them and fails before or after `uvmalloc()` as
the loop of `exec()` does. `sys_exec()` takes fewer than `MAXARG` arguments, so the
same test in `exec()` (`exec.c:80`) never succeeds and is left out. `Mkfs` builds the
image by the calls of `mkfs.c`.

### Syscalls, with Usertests, Memtests and Grind

Processes that run programs made of system calls, interleaved in every way. A
call is one step, except that `write()` ends one transaction per step, as
`filewrite()` does. A program is a sequence of calls, each with the results its
author accepts: the tests of `usertests.c`, `forktest.c`, `stressfs.c` and
`grind.c`, with loops cut to `N` iterations and sizes scaled to `BSIZE` and
`MAXFILE`. `grind.c` calls at random; there `rand()` is an arbitrary choice.
`pipe1` reads to the end of the pipe in one call of the model (`readall`), which
checks the order of all bytes and their number. Calls of `sleep()` in the tests only
make an interleaving likely and are left out, since every interleaving is explored.
`MCUsertests` adds programs that use up descriptors, files and pipes, and one
(`exec_limit`) that takes the error paths of `exec()`: bad headers and segments, too
many arguments, and memory that ends at any point of a program of two segments.

### Tty (with Lines and Fifo)

Readers and writers of the console, the interrupt handler, a CPU in `printf()`,
and a UART with a transmit FIFO. `cons.lock` and `uart_tx_lock` are variables;
`uartputc_sync()`, which takes neither, tests and writes the transmitter in two
steps. `consoleread`, `consoleintr` (erase, kill, end of file, echo, procdump) and
`uartputc`, `uartstart`, `uartintr` go character by character. `Lines` is the
promise to readers, `Fifo` the promise to writers. A `load` chooses, once per
behaviour, which roles take part.

`Lines` sees the characters between `cons.w` and `cons.e` as the line that is edited,
those between `cons.r` and `cons.w` as what can be read, and `Reading` as the
processes inside `read()`. `Fifo` sees the character on its way to the wire, in
`uartstart()`'s hand or in the transmitter, followed by `uart_tx_buf`; characters of
`uartputc_sync()` are not part of it.

## 3. Runs

| run | properties | states | shows |
|---|---|---|---|
| `log_crash` | `PinnedUntilInstalled`, `AtomicCommit` | 477k | commits are atomic and durable through two crashes, anywhere in commit and recovery |
| `log_live` | `CommitIsExclusive`, `NoLogPanic`, `SleeperIsWoken`, `RecoveryFinishes` | 50k | calls compete for a nearly full log; sleepers are woken, recoveries end |
| `proc_table` | `OneCpuPerStack`, `FreedIsOffCpu`, `SchedHoldsOnlyItsLock`, `NoSleepOnZombie`, `ParentCanWait` | 868k | no stack is shared or freed in use, no wakeup between exit and wait is lost, nobody is left without a parent |
| `proc_live` | `InitReaps` | 58k | init reaps every zombie it has or inherits |
| `pipe` | `SleepIsJustified`, `FreedIsUnused`, `PipeIsFifo`, `CloseEndsCalls` | 246k | a pipe is a FIFO, also when its counters wrap; nobody sleeps without reason; closing an end ends the calls at the other |
| `bio` | `RefcntsBalance`, `SleeperHasHolder`, `PanicIsShortage`, `CacheIsStore` | 95k | whatever is cached, recycled or pinned, a block has one value and one user, and buffers run out only when all are in use |
| `virtio` | `DescriptorsBalance`, `CompletionIsAnnounced`, `RequestsAreServed`, `RequestsEnd` | 27k | each request is served once, before it returns, and everyone gets on |
| `inode` | `NoPanic`, `CopyIsCurrent`, `LinksBalance`, `NoCircularWait` | 773k | no inode is used after it was freed, but through `..` of a removed directory, link counts agree with the entries, inode locks are never taken in a circle |
| `usertests` | `AsExpected`, `NoPanic`, `TransactionsFit`, `RefsBalance`, `LinksBalance`, `BlocksBalance`, `PagesBalance` | 82k | every call returns what its author expects in every interleaving of calls, and references, links, blocks and pages balance after each |
| `tty` | `NoOverrun`, `SleepIsJustified`, `InputIsLines`, `OutputIsFifo`, `OutputDrains` | 212k | lines are delivered as typed, output keeps its order and drains, the unlocked writes never overrun the UART |

Each property has a mutant in `PROJECT.json`: a definition changed the way a
plausible bug would, under which TLC finds the property violated.

### Bounds and why they are enough

- `log_crash`: two processes, two blocks, two values; two crashes so that recovery
  itself is interrupted. `log_live`: MAXOPBLOCKS 2 and LOGSIZE 4 admit two
  calls into an empty log and make the second one wait once a block is logged.
- `proc_table`: three slots give init, a child and a grandchild or a sibling, and
  `MaxPid` 4 lets a slot be used again; two CPUs are enough for every race on a
  stack, which involves the CPU that leaves and the one that takes over.
  `proc_live` has one CPU, where preemption provides the interleavings.
- `pipe`: two bytes with counters modulo 4, so that they wrap every other fill, and
  calls of three bytes, which block on the full pipe; two writers and a reader.
- `bio`: three blocks, two buffers, three accesses and one pinned block: buffers are
  recycled all the time, two accesses meet at one block while the third needs
  another, and the cache runs out, with and without the pin.
- `virtio`: seven descriptors are two chains and one left over, so that a third
  process makes `alloc3_desc()` fail half way; ring indices wrap after 7.
- `inode`: three processes, calls on `/x`, `/d`, `/d/x`, `/d/d`, `/d/..` and `/d/d/..`,
  six inodes. A deadlock or a stale copy needs a process in the directory, one in the
  entry, and one that removes or links it; the panic on `..` needs two directories
  removed while a third process is on its way through the inner one.
- `usertests`: blocks of four cells, eight direct blocks, and tables of 20 inodes,
  40 blocks, 8 inodes in memory, 10 files, 7 descriptors, 2 pipes, 6 processes and
  58 pages, and 4 entries of `argv[]`. Files, descriptors, pipes, processes and pages are used up by some
  program, so that each error path is taken; inodes and blocks, whose end is a panic
  in the code, suffice for the programs.
- `tty`: buffers of 2 characters with indices that wrap at 4; the four loads are the
  keys of line editing for one reader, two readers, two writers with `printf`, and a
  writer against procdump and `printf`. Two characters in the transmit buffer tell
  draining it from sending one character.

`MaxCrashes`, `MaxPid`, `MaxTicks`, `MaxPins`, `MaxCount` and `OpMax` are the
bounds in guards. `OpMax` and `MaxPins` are properties of the callers, the others
cut behaviours short. Symmetry is used in runs without liveness only.

Deadlock is checked except in `pipe`, where all ends may be closed, in `tty`, where
nobody need type or write, and in `clock_panic`, which looks for a panic.

### Fairness

- `Log`: the steps of a commit and of recovery are weakly fair, since the scheduler
  runs every process and the disk answers; `end_op` is strongly fair, since a call
  logs finitely many blocks.
- `Proc`: CPUs keep executing and timers keep interrupting (weak); a RUNNABLE
  process is picked by the round-robin scheduler, and kernel code that preemption
  and short critical sections of others delay goes on (strong); init calls
  `wait()` again and again.
- `Pipe`, `Virtio`: kernel code goes on, and a process gets a spinlock that is free
  again and again (strong); the device serves every request and interrupts are
  taken (weak). The strong fairness of lock acquisition is more than test-and-set
  guarantees; it says that contention is not eternal.
- `Tty`: weak only. `OutputDrains` says that the read index of a transmit buffer that
  is not empty moves on, and that a writer that found it full gets on. It excepts
  echoes and `printf()` that never end, which can keep the transmitter busy each time
  `uartstart()` looks.

### Runs that end in a counterexample

Each states what an assertion or a program of the repository says, and the code
does something else; `PROJECT.json` quotes the lines.

| run | property | what happens |
|---|---|---|
| `clock_panic` | `NoAcquirePanic` | `wakeup()` takes `tickslock` for `readytime`; `clockintr()` already holds it: the first tick after a `sleep()` call panics |
| `rusage_report` | `ReportIsExact` | a `fork()` erases the cputime of running processes |

### Other disagreements between the code and its comments

They have no run of their own. The models contain the behaviour, and the properties
above are stated so that they hold in spite of it.

- `wakeup()` takes `tickslock` inside `p->lock`, `clockintr()` takes `p->lock`
  inside `tickslock` (`proc.c:573`, `trap.c:170`): in `Clock` two CPUs wait for each
  other for ever.
- A `kill()` between `wait()`'s test of `p->killed` (`proc.c:424`) and its `sleep()`
  finds the victim RUNNING and does not wake it, though `kill()` says "Wake process
  from sleep()." (`proc.c:593`). The victim sleeps until a child exits.
- `kill(0)` finds an UNUSED slot, whose pid is 0 (`proc.c:590`), and the process
  made in it later is born killed, though the comment of `kill()` is "Kill the
  process with the given pid." (`proc.c:580`).
- `usertrap()` yields after every trap, though the comment says "give up the CPU
  if this is a timer interrupt." (`trap.c:79`): without braces only the increment
  of `cputime` depends on the test.
- A writer killed in the middle of `pipewrite()` leaves bytes behind without waking
  the readers (`pipe.c:84-87`). `SleepIsJustified` of `Pipe` names the exception.
- `create()` and `sys_link()` do not look at `dp->nlink`, so a file can be entered in
  a directory that was just removed (`sysfile.c:148`, `278`). `LinksBalance` of
  `Inode` excepts those (`lost`).
- An inode that is freed by `iput()` and allocated again before that `iput()` has
  done `ip->ref--` is not freed when its own last reference goes, because two
  references are counted then (`fs.c:334-356`). `LinksBalance` excepts those (`late`).
- `begin_op()` admits calls for LOGSIZE blocks, but the log has LOGSIZE - 1, because
  mkfs counts the header (`log.c:133`, `mkfs.c:25`). `TransactionsFit` and the
  proof of `NoLogPanic` show that calls that log fewer than MAXOPBLOCKS blocks do
  not meet the panic.
- `NBUF` is 30, `LOGSIZE` is 30 and `NPROC` is 64 (`param.h`): the pins of a full log
  alone can use up the cache, and so can processes that wait for the disk, each with
  a block of its own. Then `bget()` panics (`bio.c:88`). `PanicIsShortage` is the
  promise that is left: no reference is lost, so less than that is never enough.
- `sbrk(n)` with a negative `n` below `-p->sz` wraps in `growproc()` and succeeds
  without a change (`proc.c:266-269`).
- A process in a directory that was removed together with its parent panics in
  `ilock()` when it looks up `..` (`fs.c:311`): the entry still names the freed inode.
  `Inode` contains it, also for a path lookup that only passes through the directory
  while two others remove it and its parent; `NoPanic` excepts that process (`stray`).

## 4. Proofs

Every theorem holds for all values of the constants that satisfy the named
assumption of its module: any number of processes, blocks, slots, CPUs, any sizes.

| module | theorem | establishes |
|---|---|---|
| `LogProofs` | `Invariance` | `Spec => []IInv` |
| | `TypeCorrect`, `CommitAlone`, `PinsBalance` | `TypeOK`, `CommitIsExclusive`, `PinnedUntilInstalled` |
| `LogTheorems` | `Atomicity` | `Spec => AtomicCommit`: `Log` implements `AtomicDisk` |
| | `Durability` | `CommittedIsDurable` |
| | `Space`, `NoPanic` | `NoLogPanic`, if `OpMax < MAXOPBLOCKS < LOGSIZE` and `LOGSIZE <= LogBlocks` |
| | `NoLostWakeup` | `SleeperHasWaker`, if `OpMax < MAXOPBLOCKS < LOGSIZE` |
| `ProcProofs` | `Invariance`, `WaitInvariance` | `Spec => []IInv`, `Spec => []WInv` |
| | `StacksApart`, `FreedStack`, `SchedIsSafe` | `OneCpuPerStack`, `FreedIsOffCpu`, `SchedHoldsOnlyItsLock` |
| | `TypeCorrect`, `UniquePids` | `TypeOK`, `PidsDiffer` |
| | `NoLostWakeup`, `EveryoneHasParent` | `NoSleepOnZombie`, `ParentCanWait` |
| `SharedTheorems` | (lemmas) | circular buffers whose counters wrap |
| `PipeProofs` | `NoLostWakeup`, `FreedOnce`, `TypeCorrect` | `SleepIsJustified`, `FreedIsUnused`, `TypeOK` |
| | `Fifoness` | `Spec => PipeIsFifo`: `Pipe` implements `Fifo` |
| `BioProofs` | `References`, `Sleepers`, `Buffers` | `RefcntsBalance`, `SleeperHasHolder`, `PanicIsShortage` |
| | `Caching` | `Spec => CacheIsStore`: for every block `Bio` implements `BlockStore` |
| `VirtioProofs` | `Descriptors`, `Announced`, `Statuses` | `DescriptorsBalance`, `CompletionIsAnnounced`, `NoStatusPanic` |
| | `Refinement` | `Spec => RequestsAreServed`: `Virtio` implements `Requests` |
| `TtyProofs` | `Overrun`, `Sleepers` | `NoOverrun`, `SleepIsJustified` |
| | `InputRefinement` | `Spec => InputIsLines`: the input implements `Lines` |
| | `OutputRefinement` | `Spec => OutputIsFifo`: the output implements `Fifo` |

**Log.** `CommitIsExclusive` alone is not inductive: `outstanding` must count
the calls in progress (`Cardinality` of `Active`), a committer must be alone, and
while the system boots no process may be inside the log. On top of that the
header on disk is either empty or equal to `lh`, and equal to it exactly from the
commit point to `clear_head`; `lh` has no duplicates. The data part says where
the copies of a logged block agree: log slots already written by `write_log`
equal the cache, installed home blocks equal their log slots, and a buffer
neither held nor logged equals its home block. From these, `Recovered` stays the
same under every write except `write_head`, which is the commit step of
`AtomicDisk`, and a torn write hits a block that `Recovered` does not read. The
space proof is a counting argument: each admitted call owns `MAXOPBLOCKS` slots of
which it can use `OpMax`; the set `Reserved` of pairs (call, unused slot) together
with `lh` never exceeds `LOGSIZE`, so a call that still has a block to log finds
room, and when no call is in progress and nobody commits the log is empty, so
nobody can be asleep.

**Proc, stacks.** `OneCpuPerStack` says nothing of the slots between two CPUs, so
it is not inductive. `StackInv` says of each slot that is `c->proc` in which of
three situations it is (`OnCpu`): running with its lock free; just switched to,
with its lock held by `c`; or on its way out, with its lock held by `c` and its
state no longer RUNNING. A lock held between two actions is held by the CPU whose
`c->proc` the slot is, and a slot that is RUNNING or inside `sched()` has such a
CPU. That is why whoever finds `p->lock` free and the state RUNNABLE or ZOMBIE
may take or free the slot. `WaitLockInv` says that `wait_lock` is held exactly in the critical
sections of exit and wait (`Crit`), where the process keeps its CPU; only a zombie
has left its CPU there. `ChildInv` gives a process inside `fork()` its own USED
slot, `LiveInv` ties ZOMBIE to the end of `exit()`, `PidInv` keeps pids below
`nextpid`. Frame lemmas (`StackFrame`, `StackOff`, `StackLeave`) state once what a
step must leave alone.

**Proc, exit against wait.** `NoSleepOnZombie` is about states in which `wait_lock`
is free; the invariant has to say what holds during the scans. `WakeInv`: a zombie's
parent sleeps only if it is init, and only while the holder of `wait_lock` is at the
start of the `wakeup(initproc)` it owes it; the slots `wait()` has passed hold no
zombie child; a process that wakes its parent has the parent still before it in the
scan, or the parent is awake. `FamilyInv`: `reparent()` has given away the children in
the slots it has passed, parents are alive. `LoopInv`: scans start at slot 1.
`InitInv`: init is not killed and does not exit. Steps that touch none of this are
dealt with by one lemma (`QuietStep`).

**Pipe.** `WaitInv` says that what a process tested before it decided to sleep still
holds when it sleeps, because it holds `pi->lock`; `SleepInv` extends
`SleepIsJustified` to states in which somebody holds the lock and has yet to call
`wakeup()`. `Fifoness` maps the queue to the bytes between `nread` and `nwrite`.
The counters wrap modulo `UINT`, so its core is arithmetic, which pipe, disk rings
and console share (`SharedTheorems`): if the size of the buffer divides the modulus,
the distance of two counters stays in `0 .. size`, is 0 exactly when they are equal,
and different positions are different slots also across the wrap (`SlotWraps`,
`OtherRemainder`). `BufferTake`, `BufferPut`, `BufferErase`, `BufferKill` and
`BufferQueue` say what one step at either end does to the contents.

**Bio.** `RefcntsBalance` is inductive only together with what makes the counted sets
change one at a time: `Refs` states the count as the number of users plus the pin,
`OneBuffer` that no block has two buffers and that a block in use or logged has one,
`LockInv` that the holder of `b->lock` is the one access between `acquiresleep()` and
`releasesleep()`. `bget()` takes a buffer with count 0, so neither a user nor a pin
loses its buffer. If it finds none, every buffer has a count above 0, so by `Refs` an
access or a pinned block of its own, and there are `NBUF` of them (`Buffers`). For
`CacheIsStore`, `DiskInv` says when the disk may be behind the buffer: only while the
block is logged or its user has changed it. So a buffer that is recycled loses nothing.
Assumed are `NBUF > 0` and finite sets of accesses and blocks.

**Virtio.** `ChainInv` gives every descriptor one owner: it is free, or one of the three
of one working process. The rings are never full, because their entries are heads of
different chains (`RingInv`), so an index never passes the other although the code
does not compare them. `AvailInv`, `FetchedInv` and `UsedInv` say where the head of a
request is: in the avail ring, with the device, or in the used ring with status 0;
`IrqInv` that an entry in the used ring is announced. A process found in the used ring
has had its data moved once, which is the step of `Requests`. Assumed is only that
`NUM` divides the modulus of the ring indices.

**Tty.** `ConsOK` and `TxOK` say of the two buffers which slots are in use and what is
in them: no `nl` or `eof` in the line that is edited, which is why `^U` may
stop at `cons.w`. `FifoInv` counts who has seen an idle transmitter and
not yet written (`Pending`): together with what is in the transmitter there are never
more than three, the sender, the handler and one `printf()`. Hence `NoOverrun` for a
transmitter of three characters or more; the 16550 has sixteen. It also says that
one character of `write()` at most is on its way, which the mapping to `Fifo` needs.
`Sleeping` holds because both buffers are tested and the sleeper registered under the
lock that the waker takes.

Only model-checked:

- all liveness (`SleeperIsWoken`, `RecoveryFinishes`, `InitReaps`, `CloseEndsCalls`,
  `RequestsEnd`, `OutputDrains`), which needs fairness and ENABLED and is out of the
  prover's reach;
- `Inode`: `NoPanic` holds only while inodes suffice, since `ialloc()` panics without
  one, and but for `stray` processes, so it is not a theorem for every size. `LinksBalance`, and the types of the link
  counts in `CopyIsCurrent`, need a count of directory entries over the whole tree
  with every call in flight, and `NoCircularWait` that the tree has no cycle. These
  inductive invariants have not been worked out;
- everything about `Syscalls`, whose operators are recursive, which the prover does
  not support.

## 5. Not modelled

- Machine code, register layouts and device set-up: `*.S`, `start.c`, `plic.c`,
  `riscv.h`, the negotiation of `virtio_disk_init`, `uartinit`. `swtch()` is a step of
  `Proc`.
- `push_off()` and `pop_off()` nesting, and memory order: a critical section is
  atomic for those who take its lock.
- Contents of pages, the kernel's own page table, and tests that are about them
  (`copyinstr3`, `bsstest`, `textwrite`) or about time.
- `ticks` near 2^32, and `sleep(n)` with a negative `n`, which never returns
  (`sysproc.c:65`): out of reach of a bounded run.
- `procdump`, `procinfo` and `getprocs`, which copy or print fields; `printf`'s
  formatting; string copies; the fields of ELF and program headers, which appear as the
  outcome of the tests on them.
- Reclaiming inodes that were unlinked but open at a crash: the code does not.
- User programs: the shell's parser, `umalloc.c`, `ulib.c` and the utilities are
  sequential and keep no state the kernel depends on. `ramdisk.c` is not linked.
