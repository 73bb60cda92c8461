# A TLA+ verification of the xv6 kernel

This directory models the xv6 kernel of this repository (x86, multi-core, a
logging file system, plus a swap region) in TLA+. It has modules translated from
the C source, TLC configurations that check them on small instances, and theorems
that TLAPS proves for every instance. `PROJECT.json` lists the components, the
runs, the source lines of every definition, the hazards and the theorems.

Two components are modelled so far: processes and scheduling, and the
write-ahead log. The plan for the others is in the last section.

## The system

| Part | State | Operations | What is hard |
|---|---|---|---|
| Processes, scheduling (`proc.c`, `trap.c`) | process table, `ptable.lock`, a current process per CPU | fork, exit, wait, kill, sleep, wakeup, yield, scheduler, traps | a lock handed over by `swtch`, zombies still on their stack, lost wakeups, fork failing halfway |
| Log (`log.c`) | header in memory and on disk, log blocks, counters | begin_op, log_write, end_op, commit, recovery | crashes between disk writes, group commit, space reservation |
| Buffer cache (`bio.c`) | buffers with refcnt, flags, LRU order | bget, bread, bwrite, brelse | recycling, buffers pinned by the log |
| Disk driver (`ide.c`, `memide.c`) | request queue | iderw, ideintr | the queue against interrupts |
| Inodes and blocks (`fs.c`) | inode cache, bitmap, disk inodes | iget, ilock, iput, ialloc, balloc, bmap, itrunc, readi, writei, swapread, swapwrite | last reference against new lookups |
| Directories (`fs.c`, `sysfile.c`) | entries, link counts | dirlookup, dirlink, namex, link, unlink, create | lock order, names vanishing between two locks |
| Open files (`file.c`, `sysfile.c`) | file table, descriptors | open, dup, close, read, write, pipe | reference counts shared by processes |
| Pipes (`pipe.c`) | ring, two counters, two flags | read, write, close | blocking, closing, killing |
| Console (`console.c`) | input ring `r`, `w`, `e` | interrupt, read | ring at its limit |
| Memory (`kalloc.c`, `vm.c`, `exec.c`) | free list, page tables | kalloc, allocuvm, copyuvm, exec, growproc | failures halfway |
| Locks (`spinlock.c`, `sleeplock.c`) | lock words, `ncli`, `intena` | acquire, release, pushcli, popcli | interrupt state across `sched` |
| Ticks (`trap.c`, `sysproc.c`) | `ticks` | timer, sys_sleep | wrap-around |
| User space (`umalloc.c`, `sh.c`, tools) | free list | malloc, free | coalescing |
| Boot, interrupt controllers (`main.c`, `lapic.c`, `mp.c`, ...) | hardware | | runs once |

System calls reach the process table through `trap.c` and the file system through
`sysfile.c`. File system operations run between `begin_op` and `end_op`, get
buffers from the cache, and pass changed ones to `log_write`. The disk driver,
pipes, console, log and sleep locks all block with `sleep` and `wakeup`.

## Modules

* `Proc`: the process table. `state`, `pid`, `parent`, `chan`, `killed`, `kstack`,
  `pgdir` and `context` are the fields of `struct proc`, `plock` is the holder of
  `ptable.lock`, `cpuproc` is `c->proc` and `scan` the loop variable of
  `scheduler()`; `loc` says where a process is in the kernel. A critical section
  of `ptable.lock` is one step. When the lock passes through `swtch()`, both sides
  are steps and the lock is held between them. What `fork()` and `allocproc()` do
  without the lock are steps of their own. `ncli` and `intena` are the fields of
  `struct cpu` that `pushcli()` and `popcli()` keep, `intr` is the CPU's interrupt
  flag, and `saved` is the local variable `intena` of `sched()`, which takes the flag
  of a thread from the CPU it leaves to the CPU it comes back on. A critical section
  that is one step leaves these as they were. Interrupts and faults enter `trap()`
  with the flag off, system calls with the flag on (`tvinit`). An address space is
  one page, a kernel stack another. Files and registers are left out. `sleep()` on a
  channel other than the table's own is offered without its caller's condition; the
  caller's lock is one level of `ncli`.

  Panics. `loc` becomes `"panic"` where `sched()` fails one of its four tests
  (`EnterSched`), where `switchuvm()` misses a stack or a page table, and where
  `exit()` comes back from `sched()` (both in `SchedRun`); `NoPanic` says that none of
  this happens. `panic("init exiting")` can happen and is a location of its own.
  Left out are `sleep()` without a process or a lock (the model only lets a process
  sleep, and with a lock), the kernel-mode `panic("trap")` (there are no memory errors
  of the kernel in the model), and those of `acquire()`, `release()` and `popcli()`.
  The other CPUs go on after a panic: `panicked` stops them in the code only when they
  next print a character.
* `Log`: the log. `home`, `dlog` and `dhead` are on the disk; the rest is lost in a
  crash. One `bwrite()` is one step and is atomic. `log_write()` is two steps, since
  it tests `log.lh.n` before it takes the lock. The buffer cache is a function from
  blocks to contents: the module relies on `bio.c` not evicting dirty buffers. The
  log has `LogSize - 1` data blocks on the disk. The blocks after it, `After`, are
  home blocks, of which `mkfs` makes inode blocks: `write_log()` of a transaction that
  is too long overwrites them, and `install_trans()` reads them.
* `AtomicDisk`: what the log promises. The durable blocks change all at once, to
  what memory holds, at a moment when no operation is open; a crash takes memory
  back to them.
* `MCProc`, `MCLog`: symmetry sets for TLC, and the block after the log.
* `ProcTypes_proofs`, `ProcSched_proofs`, `ProcTable_proofs`, `ProcFlags_proofs`,
  `Proc_proofs`, `ProcPages_proofs`, `Log_proofs`, `LogDisk_proofs`: proofs.

Definitions named `X_Something` are plausible bugs in `X`; each breaks the property
that `PROJECT.json` pairs it with.

## Runs

| Run | Instance | Shows |
|---|---|---|
| `proc_safety` | 2 CPUs, 3 slots, pids up to 3 | `RunsOnOneCpu`, `StackInUse`, `NoPanic`, `InterruptsKept`, `ParentAlive`, `NoMissedExit`, `TypeOK` |
| `proc_memory` | 2 CPUs, 4 slots, 5 pages, pids up to 5 | `PidsUnique`, `PagesConserved` with every failure of fork |
| `proc_orphans` | 1 CPU, 4 slots | `NoMissedExit` when init inherits zombies |
| `proc_live` | 1 CPU, 3 slots | `RunnableRuns`, `OrphansReaped`, `KilledExits` |
| `proc_kill` | 1 CPU, 3 slots | `BornUnkilled` is violated |
| `log_crash` | 2 processes, 3 blocks, 2 contents | `Atomic` (refinement), `CommitAlone`, `SleeperHasWaker`, `CommitDurable`, `TypeOK` |
| `log_space` | 3 processes, 6 blocks, a log of 5 data blocks | `LogFits` when operations write two blocks less than they reserve |
| `log_full` | 2 processes, 4 blocks | `LogFits` is violated when operations use all they reserve |

Bounds. Two CPUs are enough for one to reap what the other is leaving. Three slots
give init, a parent and a child; the fourth in `proc_orphans` lets init sleep in
`wait()` while another process dies with a zombie of its own. Five pages let
`fork()` fail at its first and at its second allocation. `MaxPid` ends the run,
`KillPids` leaves init alone in the passing runs, and `InitCalls` says which calls
the init program makes. `InterruptsKept` needs two processes with different saved
flags on one CPU: one that slept in a system call, one preempted by the timer.

In `log_crash`, eight entries with reservations of four make an operation wait when
another one has logged a block, and two processes that write two blocks each share
one block of three, so absorption happens. A transaction there cannot fill the log,
so `LogFits` has a run of its own: in `log_space` there are more home blocks than log
blocks, reservations of three in `LOGSIZE` = 6, and three processes, of which two can
be between the unlocked test of `log_write()` and its append at the same time. Each
operation writes one block and operations follow one another in the same
transaction, so the header grows until the reservation stops it; counting one
operation less in `begin_op()` is found at once.

Fairness (`FairSpec`, only in `proc_live`). The scheduler loops for ever and the
timer keeps interrupting (weak fairness). A process just switched to leaves
`forkret`, `yield` or `sleep` with interrupts off (weak fairness). A process that is
scheduled again and again executes a kernel step eventually (strong fairness, since
preemption disables the step in between). Only init is assumed to keep making system
calls, as `init.c` does. There is one CPU because `acquire()` is a bare `xchg` loop
that lets a CPU lose the race for ever; no liveness is claimed for several.

## Findings

* `kill()` compares pids in every slot, used or not. `kill(0)`, or the pid a failed
  `fork()` left behind, marks an UNUSED slot, and `allocproc()` does not clear the
  mark: the next process there exits at its first trap (`proc_kill`).
* `mkfs` counts the header among the `LOGSIZE` blocks of the log, and `log_write()`
  refuses at `log.size - 1` before looking for absorption. So the blocks that
  `begin_op()` reserves are not all usable (`log_full`). `LogNeverFull` shows that
  operations that write two blocks less than `MAXOPBLOCKS` are safe. How many blocks
  each operation of `fs.c` and `sysfile.c` writes is not modelled yet.

## Proofs

Processes, for any number of slots, CPUs, channels and pages. The safety
properties are not inductive alone. `IInv` (`Proc_proofs`) adds:

* `CpuInv`: a process that is on a CPU and not RUNNING is on the CPU that holds
  `ptable.lock`, so nobody else can look at the table;
* `SlotInv`: what a slot holds in each state (a live or zombie process has its
  stack and page table, an unused slot has neither and no parent);
* `ForkInv`: the EMBRYO slot of a `fork()` belongs to it alone, which is what makes
  its unlocked stores safe;
* `CliInv`: a CPU is one `pushcli()` deep, with interrupts off, exactly when it holds
  `ptable.lock`, so the tests of `sched()` succeed;
* `FlagInv`: a process that sleeps in a system call has a saved flag of 1, so it gets
  interrupts back on whatever CPU it wakes up.

`ProcTypes_proofs` has the types (`TypeCorrect`), `ProcSched_proofs` the lemmas on
`sched()` with the steps of `CpuInv` and `CliInv`, `ProcTable_proofs` those of `SlotInv`
and `ForkInv`, `ProcFlags_proofs` those of `FlagInv` and `InterruptsKept`. `Proc_proofs`
puts them together: `OneCpu`, `StackSafe`, `SchedNeverPanics`, `KeepsInterrupts`,
`NoOrphan`, `NoLostExit`, `UniquePids`. `ProcPages_proofs` counts pages: `NoPageLeak`.

The log, for any finite set of processes and any blocks. In `Log_proofs`, `IInv` is
`CtlInv` (who may be where), `CountInv` (`log.outstanding` counts open operations),
`HeadInv` (the two headers) and `ResInv` (the log entries in use and those still
reserved fit in `LOGSIZE`); it holds for all sizes, and with it `CommitsAlone`,
`NoLostWakeup`, `Reservation` and `TypeCorrect`. `LogNeverFull` needs
`OpBlocks + 2 <= MAXOPBLOCKS` and `LOGSIZE <= LogSize`; the second violation above
shows that a condition of this kind is necessary.

`LogDisk_proofs` is about the contents of the disk and assumes `EnoughLog`: either
`LOGSIZE < LogSize`, a data block for each entry of the header, or the hypotheses of
`LogNeverFull`. Without it a transaction can run past the end of the log over an
inode block. The log that `mkfs` makes has `LOGSIZE = LogSize`, so for this kernel the
theorems rest on operations that write two blocks less than they reserve. `DataInv`
says where the current contents of each block are. `Durable` follows from it, and
`CrashAtomic`, the refinement `Spec => AD!Spec`: `durable` is the home blocks
overwritten by the log blocks that the header on disk names, so `WriteHead` is the
abstract `Commit` and all other disk writes are stutters.

Assumptions on constants are the named `ASSUME`s of `Proc` and `Log`. Liveness is
only model-checked: TLAPS does not handle fairness. `nextpid` is unbounded in the
proofs; the code's `int` agrees with it up to 2^31 forks.

## Not modelled, and the plan

In this order; each with its own run, and a proof where named:

1. `SleepLock` and `Pipe`: `sleep(chan, lk)` with the caller's lock and condition;
   bytes arrive in order (proof), no reader or writer sleeps for ever, the page is
   freed once, kill between the test and the sleep.
2. `Bcache` and `Ide`: one buffer per block (proof), the request queue, "no
   buffers" against the log's pinned ones; `Bcache` implements the function `cache`
   of `Log`. Swap range tests.
3. `Inode` and `Blocks`: `iget`, `iput`, `ialloc` with ref, nlink and valid; no inode
   is freed while referenced (proof); bitmap, `bmap`, `itrunc`.
4. `Dir`: lookup, link, unlink, create and lock order; link counts match entries.
5. `File`: file table and descriptors; reference counts equal references (proof).
6. `VM`: user pages in `allocuvm`, `deallocuvm`, `copyuvm`, `exec`, `growproc`.
7. `SpinLock`: the `xchg` loop, nested locks and the panics of `acquire`, `release`
   and `popcli` (`Proc` has `pushcli` and `popcli` for `ptable.lock`).
8. `Console`, `Ticks`, `Umalloc`, and path splitting (`skipelem`) and argument
   checks as pure functions.

Left out: boot code and interrupt controllers (register programming, run once),
`mkfs` (a host program; its disk is an initial state), the shell and the user
programs (clients of the system calls), string and print functions.
