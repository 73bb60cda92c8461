-------------------------------- MODULE Proc --------------------------------
(***************************************************************************)
(* The process table of the kernel (proc.c) with the part of trap.c that   *)
(* drives it: one scheduler per CPU, fork, exit, wait, kill, sleep, wakeup *)
(* and timer preemption, interleaved on any number of CPUs.                *)
(*                                                                         *)
(* Granularity. A stretch of code between acquire(&ptable.lock) and the    *)
(* matching release is one step, except where the lock is handed over by   *)
(* swtch(): the lock is then a variable, plock, that names the CPU holding *)
(* it. Stores the code makes WITHOUT the lock (allocproc after `found',    *)
(* fork between allocproc and RUNNABLE) are steps of their own.            *)
(*                                                                         *)
(* Interrupts. A CPU has its interrupt flag, its depth of pushcli() and    *)
(* the flag that pushcli() saved; sched() keeps the latter for its thread. *)
(* A critical section that is one step leaves all three as they were: the  *)
(* saved flag is read only while the depth is not 0. Interrupts and faults *)
(* enter trap() with the flag off, system calls leave it on (tvinit).      *)
(*                                                                         *)
(* Abstractions. kalloc, copyuvm and freevm work on a pool of NPAGES       *)
(* pages: a kernel stack is one page and an address space another. Files,  *)
(* the current directory and registers are left out. sleep() on a channel  *)
(* other than the process table's own is offered to every process inside   *)
(* a system call, without its caller's condition.                          *)
(***************************************************************************)
EXTENDS Integers, FiniteSets

CONSTANTS
  NPROC,      \* size of the process table (param.h)
  CPU,        \* the CPUs
  Chan,       \* sleep channels other than &ptable.proc[i]
  NULL,       \* the null pointer
  NPAGES,     \* physical pages that processes may use
  MaxPid,     \* bound: fork is called only while nextpid <= MaxPid
  KillPids,   \* bound: the pids that processes pass to kill()
  InitCalls   \* bound: the system calls that the init program makes

Slot == 0 .. NPROC - 1

ASSUME NPROCAssumption == NPROC \in Nat \ {0}
ASSUME NPAGESAssumption == NPAGES \in Nat \ {0, 1}
ASSUME MaxPidAssumption == MaxPid \in Nat
ASSUME NullAssumption == NULL \notin Slot \cup Chan \cup CPU
ASSUME ChanAssumption == Chan \cap Slot = {}
ASSUME KillPidsAssumption == KillPids \subseteq Nat

\* userinit() runs allocproc() on an empty table.
initproc == 0

ProcState == {"UNUSED", "EMBRYO", "SLEEPING", "RUNNABLE", "RUNNING", "ZOMBIE"}

\* A process that has been started and has not exited.
Alive == {"SLEEPING", "RUNNABLE", "RUNNING"}

Syscall == {"fork", "wait", "kill", "sleep", "exit"}

ASSUME InitCallsAssumption == InitCalls \subseteq Syscall

\* Where a process is in user or kernel code.
Location == Syscall \cup {"user", "fork_kstack", "fork_copy", "fork_run",
                          "sysret", "initexit", "panic"}

\* What the process does when the scheduler switches to p->context.
Context == {"none", "forkret", "yield", "sleep", "wait", "zombie"}

VARIABLES
  state,      \* p->state
  pid,        \* p->pid
  parent,     \* p->parent
  chan,       \* p->chan
  killed,     \* p->killed
  kstack,     \* p->kstack # 0
  pgdir,      \* p->pgdir: "null", "valid", or "stale" once freed by wait()
  context,    \* p->context
  loc,        \* where the process's thread of control is
  np,         \* the local variable np of fork()
  nextpid,    \* nextpid
  freepages,  \* pages on kmem.freelist
  plock,      \* the CPU that holds ptable.lock, or NULL
  cpuproc,    \* c->proc, NULL while the CPU runs its scheduler
  scan,       \* the loop variable p of scheduler()
  ncli,       \* c->ncli, depth of pushcli() nesting
  intena,     \* c->intena, the interrupt flag before the outermost pushcli()
  intr,       \* the interrupt flag of the CPU (FL_IF), 0 or 1
  saved       \* the local variable intena of sched(), 0 outside sched()

procVars == <<state, pid, parent, chan, killed, context, loc, np, saved>>
memVars  == <<kstack, pgdir, freepages>>
cliVars  == <<ncli, intena, intr>>
cpuVars  == <<plock, cpuproc, scan, cliVars>>
vars     == <<procVars, memVars, cpuVars, nextpid>>

TypeOK ==
  /\ state \in [Slot -> ProcState]
  /\ pid \in [Slot -> Nat]
  /\ parent \in [Slot -> Slot \cup {NULL}]
  /\ chan \in [Slot -> Slot \cup Chan \cup {NULL}]
  /\ killed \in [Slot -> BOOLEAN]
  /\ kstack \in [Slot -> BOOLEAN]
  /\ pgdir \in [Slot -> {"null", "valid", "stale"}]
  /\ context \in [Slot -> Context]
  /\ loc \in [Slot -> Location]
  /\ np \in [Slot -> Slot \cup {NULL}]
  /\ nextpid \in Nat
  /\ freepages \in Nat
  /\ plock \in CPU \cup {NULL}
  /\ cpuproc \in [CPU -> Slot \cup {NULL}]
  /\ scan \in [CPU -> 0 .. NPROC]
  /\ ncli \in [CPU -> Int]
  /\ intena \in [CPU -> {0, 1}] /\ intr \in [CPU -> {0, 1}]
  /\ saved \in [Slot -> {0, 1}]

-----------------------------------------------------------------------------
(* Helpers *)

\* The table is searched from ptable.proc upwards: s is the first hit in S.
IsFirst(s, S) == s \in S /\ \A t \in S : s <= t

\* p runs on c and does not hold ptable.lock.
Runs(c, p) == cpuproc[c] = p /\ state[p] = "RUNNING" /\ plock # c

\* swtch() in scheduler() has just returned into p, which holds ptable.lock.
Resumed(c, p, ctx) ==
  /\ cpuproc[c] = p /\ state[p] = "RUNNING" /\ plock = c
  /\ context[p] = ctx
  /\ loc[p] # "panic"

Goto(p, l) == loc' = [loc EXCEPT ![p] = l]

\* wakeup1(ch) applied to the states st.
wakeup1(st, ch) ==
  [s \in Slot |-> IF st[s] = "SLEEPING" /\ chan[s] = ch THEN "RUNNABLE" ELSE st[s]]

\* acquire(&ptable.lock) when the interrupt flag is f: pushcli(), then the lock.
Acquire(c, f) ==
  /\ plock = NULL
  /\ plock' = c
  /\ ncli' = [ncli EXCEPT ![c] = @ + 1]
  /\ intena' = [intena EXCEPT ![c] = IF ncli[c] = 0 THEN f ELSE @]
  /\ intr' = [intr EXCEPT ![c] = 0]

\* Mutant: sleep() keeps the lock of its caller.
SwapLocks_Kept(c) ==
  /\ plock = NULL
  /\ plock' = c
  /\ ncli' = [ncli EXCEPT ![c] = (@ + 1) + 1]
  /\ intena' = [intena EXCEPT ![c] = IF ncli[c] = 0 THEN intr[c] ELSE @]
  /\ intr' = [intr EXCEPT ![c] = 0]

\* The caller of sleep() has acquired its lock lk, and sleep() exchanges it:
\* acquire(&ptable.lock); release(lk).
SwapLocks(c) ==
  /\ plock = NULL
  /\ plock' = c
  /\ ncli' = [ncli EXCEPT ![c] = (@ + 1) + 1 - 1]
  /\ intena' = [intena EXCEPT ![c] = IF ncli[c] = 0 THEN intr[c] ELSE @]
  /\ intr' = [intr EXCEPT ![c] = 0]

\* The interrupt flag that the outermost popcli() restores from e, c->intena.
PopFlag(c, e) == IF ncli[c] = 1 THEN e ELSE intr[c]

\* release(&ptable.lock) when c->intena is e; the interrupt flag is f after it,
\* or after the iret that follows it.
Release(c, e, f) ==
  /\ plock' = NULL
  /\ ncli' = [ncli EXCEPT ![c] = @ - 1]
  /\ intena' = [intena EXCEPT ![c] = e]
  /\ intr' = [intr EXCEPT ![c] = f]

\* sched() up to its swtch(), with its four tests: a panic unless the process
\* holds ptable.lock, no other lock, is not RUNNING and cannot be interrupted.
\* The primed variables are those that the caller of sched() has assigned.
EnterSched(c, p, ctx) ==
  IF plock' = c /\ ncli'[c] = 1 /\ state'[p] # "RUNNING" /\ intr'[c] = 0
  THEN /\ context' = [context EXCEPT ![p] = ctx]
       /\ saved' = [saved EXCEPT ![p] = intena'[c]]
       /\ UNCHANGED loc
  ELSE /\ Goto(p, "panic")
       /\ UNCHANGED <<context, saved>>

\* Mutant: sched() leaves c->intena as the last thread on c left it.
Restored_Not(c, p) == intena[c]

\* The end of sched(): c->intena is what it was when p called sched().
Restored(c, p) == saved[p]

\* p is out of swtch() and of sched().
LeaveSched(p) ==
  /\ context' = [context EXCEPT ![p] = "none"]
  /\ saved' = [saved EXCEPT ![p] = 0]

Children(p) == {s \in Slot : parent[s] = p}

\* Mutant: a child is reaped whether or not it has exited.
ZombieChildren_Any(p) == {s \in Children(p) : state[s] # "EMBRYO"}

ZombieChildren(p) == {s \in Children(p) : state[s] = "ZOMBIE"}

\* Mutants of p++: the slot after p is skipped; the scan starts again.
NextSlot_Skip(p) == p + 2
NextSlot_Restart(p) == 0

NextSlot(p) == p + 1

-----------------------------------------------------------------------------
(* userinit() has made the first process RUNNABLE; no CPU has entered its  *)
(* scheduler loop yet.                                                     *)
Init ==
  /\ state = [s \in Slot |-> IF s = initproc THEN "RUNNABLE" ELSE "UNUSED"]
  /\ pid = [s \in Slot |-> IF s = initproc THEN 1 ELSE 0]
  /\ parent = [s \in Slot |-> NULL]
  /\ chan = [s \in Slot |-> NULL]
  /\ killed = [s \in Slot |-> FALSE]
  /\ kstack = [s \in Slot |-> s = initproc]
  /\ pgdir = [s \in Slot |-> IF s = initproc THEN "valid" ELSE "null"]
  /\ context = [s \in Slot |-> IF s = initproc THEN "forkret" ELSE "none"]
  /\ loc = [s \in Slot |-> "user"]
  /\ np = [s \in Slot |-> NULL]
  /\ nextpid = 2
  /\ freepages = NPAGES - 2
  /\ plock = NULL
  /\ cpuproc = [c \in CPU |-> NULL]
  /\ scan = [c \in CPU |-> 0]
  /\ ncli = [c \in CPU |-> 0]
  /\ intena = [c \in CPU |-> 0]
  /\ intr = [c \in CPU |-> 0]
  /\ saved = [s \in Slot |-> 0]

-----------------------------------------------------------------------------
(* scheduler() *)

\* sti(); acquire(&ptable.lock); p = ptable.proc
SchedAcquire(c) ==
  /\ cpuproc[c] = NULL
  /\ Acquire(c, 1)
  /\ scan' = [scan EXCEPT ![c] = 0]
  /\ UNCHANGED <<procVars, memVars, cpuproc, nextpid>>

\* The next RUNNABLE slot is switched to. switchuvm() panics when the kernel
\* stack or the page table is missing, and exit() when sched() returns to it.
SchedRun(c) ==
  /\ cpuproc[c] = NULL
  /\ plock = c
  /\ \E p \in Slot :
       /\ IsFirst(p, {s \in Slot : s >= scan[c] /\ state[s] = "RUNNABLE"})
       /\ cpuproc' = [cpuproc EXCEPT ![c] = p]
       /\ scan' = [scan EXCEPT ![c] = p]
       /\ state' = [state EXCEPT ![p] = "RUNNING"]
       /\ IF kstack[p] /\ pgdir[p] = "valid" /\ context[p] # "zombie"
          THEN UNCHANGED loc
          ELSE Goto(p, "panic")
  /\ UNCHANGED <<pid, parent, chan, killed, context, np, saved, memVars, plock, cliVars, nextpid>>

\* The scan reached the end of the table.
SchedRelease(c) ==
  /\ cpuproc[c] = NULL
  /\ plock = c
  /\ \A s \in Slot : s >= scan[c] => state[s] # "RUNNABLE"
  /\ Release(c, intena[c], PopFlag(c, intena[c]))
  /\ scan' = [scan EXCEPT ![c] = 0]
  /\ UNCHANGED <<procVars, memVars, cpuproc, nextpid>>

\* sched() of the process on c: swtch() back into scheduler(), which clears
\* c->proc and goes on with the next slot, still holding ptable.lock.
Swtch(c) ==
  /\ cpuproc[c] # NULL
  /\ plock = c
  /\ state[cpuproc[c]] # "RUNNING"
  /\ loc[cpuproc[c]] # "panic"
  /\ cpuproc' = [cpuproc EXCEPT ![c] = NULL]
  /\ scan' = [scan EXCEPT ![c] = NextSlot(cpuproc[c])]
  /\ UNCHANGED <<procVars, memVars, plock, cliVars, nextpid>>

-----------------------------------------------------------------------------
(* Where a process continues after swtch() *)

\* A new process starts in forkret() and goes to user space. (The first one also
\* runs iinit() and initlog(), which belong to the file system.)
Forkret(c, p) ==
  /\ Resumed(c, p, "forkret")
  /\ Release(c, intena[c], 1)
  /\ LeaveSched(p)
  /\ UNCHANGED <<state, pid, parent, chan, killed, loc, np, memVars, cpuproc, scan, nextpid>>

\* yield() returns to trap(), which exits a killed process in user space, and
\* else returns to the code that was interrupted.
YieldReturn(c, p) ==
  /\ Resumed(c, p, "yield")
  /\ IF loc[p] = "user" /\ killed[p]
     THEN Goto(p, "exit") /\ Release(c, Restored(c, p), PopFlag(c, Restored(c, p)))
     ELSE UNCHANGED loc /\ Release(c, Restored(c, p), 1)
  /\ LeaveSched(p)
  /\ UNCHANGED <<state, pid, parent, chan, killed, np, memVars, cpuproc, scan, nextpid>>

\* sleep() with a lock other than ptable.lock: tidy up, release ptable.lock. The
\* critical section of lk in which its caller goes on is part of the step.
SleepReturn(c, p) ==
  /\ Resumed(c, p, "sleep")
  /\ chan' = [chan EXCEPT ![p] = NULL]
  /\ Release(c, Restored(c, p), PopFlag(c, Restored(c, p)))
  /\ LeaveSched(p)
  /\ UNCHANGED <<state, pid, parent, killed, loc, np, memVars, cpuproc, scan, nextpid>>

-----------------------------------------------------------------------------
(* trap() *)

\* A system call: a process that was killed exits instead.
Trap(c, p) ==
  /\ Runs(c, p) /\ loc[p] = "user"
  /\ \/ killed[p] /\ Goto(p, "exit")
     \/ /\ ~killed[p]
        /\ \E call \in IF p = initproc THEN InitCalls ELSE Syscall :
             /\ call = "fork" => nextpid <= MaxPid
             /\ Goto(p, call)
  /\ UNCHANGED <<state, pid, parent, chan, killed, context, np, saved, memVars, cpuVars, nextpid>>

\* The system call is done; the process exits if it was killed meanwhile, and
\* else returns to user space, where interrupts are on.
SysReturn(c, p) ==
  /\ Runs(c, p) /\ loc[p] = "sysret"
  /\ IF killed[p]
     THEN Goto(p, "exit") /\ UNCHANGED intr
     ELSE Goto(p, "user") /\ intr' = [intr EXCEPT ![c] = 1]
  /\ UNCHANGED <<state, pid, parent, chan, killed, context, np, saved, memVars,
                 plock, cpuproc, scan, ncli, intena, nextpid>>

\* An unexpected trap from user space. The init program does not fault. (Memory
\* errors of the kernel itself, panic("trap"), are not modelled.)
Fault(c, p) ==
  /\ Runs(c, p) /\ loc[p] = "user" /\ p # initproc
  /\ killed' = [killed EXCEPT ![p] = TRUE]
  /\ Goto(p, "exit")
  /\ intr' = [intr EXCEPT ![c] = 0]
  /\ UNCHANGED <<state, pid, parent, chan, context, np, saved, memVars,
                 plock, cpuproc, scan, ncli, intena, nextpid>>

\* Any interrupt from user space makes a killed process exit.
InterruptExit(c, p) ==
  /\ Runs(c, p) /\ loc[p] = "user" /\ killed[p]
  /\ intr[c] = 1
  /\ Goto(p, "exit")
  /\ intr' = [intr EXCEPT ![c] = 0]
  /\ UNCHANGED <<state, pid, parent, chan, killed, context, np, saved, memVars,
                 plock, cpuproc, scan, ncli, intena, nextpid>>

\* A timer interrupt, in user space or in the kernel: yield() up to its sched().
Yield(c, p) ==
  /\ Runs(c, p)
  /\ intr[c] = 1
  /\ ~(loc[p] = "user" /\ killed[p])
  /\ Acquire(c, 0)
  /\ state' = [state EXCEPT ![p] = "RUNNABLE"]
  /\ EnterSched(c, p, "yield")
  /\ UNCHANGED <<pid, parent, chan, killed, np, memVars, cpuproc, scan, nextpid>>

-----------------------------------------------------------------------------
(* sleep() and wakeup() *)

\* A process in a system call, or closing its files in exit(), sleeps on ch with
\* a lock lk other than ptable.lock. (sleep() also tests that it has a process and
\* a lock: here p is the process on c, and lk is always given.)
Sleep(c, p) ==
  /\ Runs(c, p)
  /\ loc[p] = "sleep" \/ (loc[p] = "exit" /\ p # initproc)
  /\ SwapLocks(c)
  /\ \E ch \in Chan : chan' = [chan EXCEPT ![p] = ch]
  /\ state' = [state EXCEPT ![p] = "SLEEPING"]
  /\ EnterSched(c, p, "sleep")
  /\ UNCHANGED <<pid, parent, killed, np, memVars, cpuproc, scan, nextpid>>

\* The system call that may sleep is over.
SleepDone(c, p) ==
  /\ Runs(c, p) /\ loc[p] = "sleep"
  /\ Goto(p, "sysret")
  /\ UNCHANGED <<state, pid, parent, chan, killed, context, np, saved, memVars, cpuVars, nextpid>>

\* wakeup(ch), called by a device interrupt or by the kernel code of any process.
Wakeup ==
  /\ plock = NULL
  /\ \E ch \in Chan : state' = wakeup1(state, ch)
  /\ UNCHANGED <<pid, parent, chan, killed, context, loc, np, saved, memVars, cpuVars, nextpid>>

-----------------------------------------------------------------------------
(* fork() *)

\* Mutant: nextpid is not advanced.
AllocPid_Reused(s) ==
  /\ pid' = [pid EXCEPT ![s] = nextpid]
  /\ nextpid' = nextpid

\* p->pid = nextpid++
AllocPid(s) ==
  /\ pid' = [pid EXCEPT ![s] = nextpid]
  /\ nextpid' = nextpid + 1

\* allocproc() under ptable.lock. A full table makes fork return -1.
ForkAlloc(c, p) ==
  /\ Runs(c, p) /\ loc[p] = "fork"
  /\ plock = NULL
  /\ \/ \E s \in Slot :
          /\ IsFirst(s, {t \in Slot : state[t] = "UNUSED"})
          /\ state' = [state EXCEPT ![s] = "EMBRYO"]
          /\ AllocPid(s)
          /\ np' = [np EXCEPT ![p] = s]
          /\ Goto(p, "fork_kstack")
     \/ /\ \A t \in Slot : state[t] # "UNUSED"
        /\ Goto(p, "sysret")
        /\ UNCHANGED <<state, pid, nextpid, np>>
  /\ UNCHANGED <<parent, chan, killed, context, saved, memVars, cpuVars>>

\* The rest of allocproc(), without the lock. When kalloc() fails the slot
\* is given back with its new pid left in place.
ForkKstack(c, p) ==
  /\ Runs(c, p) /\ loc[p] = "fork_kstack"
  /\ \/ /\ freepages > 0
        /\ freepages' = freepages - 1
        /\ kstack' = [kstack EXCEPT ![np[p]] = TRUE]
        /\ context' = [context EXCEPT ![np[p]] = "forkret"]
        /\ loc' = [loc EXCEPT ![p] = "fork_copy", ![np[p]] = "user"]
        /\ UNCHANGED <<state, np>>
     \/ /\ freepages = 0
        /\ kstack' = [kstack EXCEPT ![np[p]] = FALSE]
        /\ state' = [state EXCEPT ![np[p]] = "UNUSED"]
        /\ np' = [np EXCEPT ![p] = NULL]
        /\ Goto(p, "sysret")
        /\ UNCHANGED <<context, freepages>>
  /\ UNCHANGED <<pid, parent, chan, killed, saved, pgdir, cpuVars, nextpid>>

\* Mutant: the kernel stack is forgotten instead of freed.
FreeKstack_Leaked(s) ==
  /\ freepages' = freepages
  /\ kstack' = [kstack EXCEPT ![s] = FALSE]

\* kfree(np->kstack); np->kstack = 0
FreeKstack(s) ==
  /\ freepages' = freepages + 1
  /\ kstack' = [kstack EXCEPT ![s] = FALSE]

\* fork() copies the address space and its own state into *np; when copyuvm()
\* fails it frees the kernel stack and the slot.
ForkCopy(c, p) ==
  /\ Runs(c, p) /\ loc[p] = "fork_copy"
  /\ \/ /\ freepages > 0
        /\ freepages' = freepages - 1
        /\ pgdir' = [pgdir EXCEPT ![np[p]] = "valid"]
        /\ parent' = [parent EXCEPT ![np[p]] = p]
        /\ Goto(p, "fork_run")
        /\ UNCHANGED <<state, kstack, np>>
     \/ /\ freepages = 0
        /\ FreeKstack(np[p])
        /\ pgdir' = [pgdir EXCEPT ![np[p]] = "null"]
        /\ state' = [state EXCEPT ![np[p]] = "UNUSED"]
        /\ np' = [np EXCEPT ![p] = NULL]
        /\ Goto(p, "sysret")
        /\ UNCHANGED parent
  /\ UNCHANGED <<pid, chan, killed, context, saved, cpuVars, nextpid>>

\* acquire; np->state = RUNNABLE; release; return pid
ForkRun(c, p) ==
  /\ Runs(c, p) /\ loc[p] = "fork_run"
  /\ plock = NULL
  /\ state' = [state EXCEPT ![np[p]] = "RUNNABLE"]
  /\ np' = [np EXCEPT ![p] = NULL]
  /\ Goto(p, "sysret")
  /\ UNCHANGED <<pid, parent, chan, killed, context, saved, memVars, cpuVars, nextpid>>

-----------------------------------------------------------------------------
(* exit(), wait(), kill() *)

\* Mutants: init is not told of the zombies it inherits; the parent is not woken.
ExitWakeups_NotInit(p) == wakeup1(state, parent[p])
ExitWakeups_NotParent(p) == IF ZombieChildren(p) # {} THEN wakeup1(state, initproc) ELSE state

\* The states after exit() woke its parent, and init when it inherits a zombie.
ExitWakeups(p) ==
  LET woken == wakeup1(state, parent[p])
  IN  IF ZombieChildren(p) # {} THEN wakeup1(woken, initproc) ELSE woken

\* Mutant: children keep the exited parent.
Reparented_Not(p) == parent

\* Abandoned children are passed to init.
Reparented(p) == [s \in Slot |-> IF parent[s] = p THEN initproc ELSE parent[s]]

\* exit() from acquire(&ptable.lock) up to its call of sched().
Exit(c, p) ==
  /\ Runs(c, p) /\ loc[p] = "exit" /\ p # initproc
  /\ Acquire(c, intr[c])
  /\ state' = [ExitWakeups(p) EXCEPT ![p] = "ZOMBIE"]
  /\ parent' = Reparented(p)
  /\ EnterSched(c, p, "zombie")
  /\ UNCHANGED <<pid, chan, killed, np, memVars, cpuproc, scan, nextpid>>

\* panic("init exiting"), which turns interrupts off
InitExit(c) ==
  /\ Runs(c, initproc) /\ loc[initproc] = "exit"
  /\ Goto(initproc, "initexit")
  /\ intr' = [intr EXCEPT ![c] = 0]
  /\ UNCHANGED <<state, pid, parent, chan, killed, context, np, saved, memVars,
                 plock, cpuproc, scan, ncli, intena, nextpid>>

\* The loop body of wait() starts either at the call or when sleep() returns;
\* in both cases p then holds ptable.lock.
InWait(c, p) ==
  \/ Runs(c, p) /\ loc[p] = "wait" /\ plock = NULL
  \/ Resumed(c, p, "wait")

\* release(&ptable.lock) in wait(), acquired in this step or held since swtch().
WaitRelease(c, p) ==
  IF plock = c
  THEN Release(c, Restored(c, p), PopFlag(c, Restored(c, p)))
  ELSE UNCHANGED <<plock, cliVars>>

\* wait() goes to sleep with the lock acquired in this step or held since swtch().
WaitHold(c, p) ==
  IF plock = c
  THEN /\ intena' = [intena EXCEPT ![c] = Restored(c, p)]
       /\ UNCHANGED <<plock, ncli, intr>>
  ELSE Acquire(c, intr[c])

\* A zombie child is found and its slot freed.
WaitReap(c, p) ==
  /\ InWait(c, p)
  /\ \E z \in Slot :
       /\ IsFirst(z, ZombieChildren(p))
       /\ freepages' = freepages + 2
       /\ kstack' = [kstack EXCEPT ![z] = FALSE]
       /\ pgdir' = [pgdir EXCEPT ![z] = "stale"]
       /\ pid' = [pid EXCEPT ![z] = 0]
       /\ parent' = [parent EXCEPT ![z] = NULL]
       /\ killed' = [killed EXCEPT ![z] = FALSE]
       /\ state' = [state EXCEPT ![z] = "UNUSED"]
  /\ chan' = [chan EXCEPT ![p] = NULL]
  /\ LeaveSched(p)
  /\ WaitRelease(c, p)
  /\ Goto(p, "sysret")
  /\ UNCHANGED <<np, cpuproc, scan, nextpid>>

\* No children, or the process was killed: wait() returns -1.
WaitFail(c, p) ==
  /\ InWait(c, p)
  /\ ZombieChildren(p) = {}
  /\ Children(p) = {} \/ killed[p]
  /\ chan' = [chan EXCEPT ![p] = NULL]
  /\ LeaveSched(p)
  /\ WaitRelease(c, p)
  /\ Goto(p, "sysret")
  /\ UNCHANGED <<state, pid, parent, killed, np, memVars, cpuproc, scan, nextpid>>

\* sleep(curproc, &ptable.lock) up to its call of sched().
WaitSleep(c, p) ==
  /\ InWait(c, p)
  /\ ZombieChildren(p) = {}
  /\ Children(p) # {} /\ ~killed[p]
  /\ chan' = [chan EXCEPT ![p] = p]
  /\ state' = [state EXCEPT ![p] = "SLEEPING"]
  /\ WaitHold(c, p)
  /\ EnterSched(c, p, "wait")
  /\ UNCHANGED <<pid, parent, killed, np, memVars, cpuproc, scan, nextpid>>

\* Mutants: kill() makes its target runnable whatever its state; kill() does not
\* wake its target.
Unblocked_Always(st) == "RUNNABLE"
Unblocked_Not(st) == st

\* Wake process from sleep if necessary.
Unblocked(st) == IF st = "SLEEPING" THEN "RUNNABLE" ELSE st

\* kill(k): the first slot with that pid, whatever its state.
Kill(c, p) ==
  /\ Runs(c, p) /\ loc[p] = "kill"
  /\ plock = NULL
  /\ \E k \in KillPids :
       \/ \E s \in Slot :
            /\ IsFirst(s, {t \in Slot : pid[t] = k})
            /\ killed' = [killed EXCEPT ![s] = TRUE]
            /\ state' = [state EXCEPT ![s] = Unblocked(@)]
       \/ /\ \A t \in Slot : pid[t] # k
          /\ UNCHANGED <<killed, state>>
  /\ Goto(p, "sysret")
  /\ UNCHANGED <<pid, parent, chan, context, np, saved, memVars, cpuVars, nextpid>>

\* A CPU that called panic() spins for ever with interrupts off. The others go on:
\* panicked = 1 stops them only when they next print a character (consputc), and
\* a CPU that takes no more steps is a behaviour of Spec too.
PanicLoop(p) ==
  /\ loc[p] \in {"panic", "initexit"}
  /\ UNCHANGED vars

-----------------------------------------------------------------------------
Scheduler(c) == SchedAcquire(c) \/ SchedRun(c) \/ SchedRelease(c) \/ Swtch(c)

\* p leaves the code that it was switched to in, with interrupts off.
Return(c, p) == Forkret(c, p) \/ YieldReturn(c, p) \/ SleepReturn(c, p)

\* A step of the system call that p makes on c.
KernelStep(c, p) ==
  \/ SysReturn(c, p) \/ Sleep(c, p) \/ SleepDone(c, p)
  \/ ForkAlloc(c, p) \/ ForkKstack(c, p) \/ ForkCopy(c, p) \/ ForkRun(c, p)
  \/ Exit(c, p) \/ WaitReap(c, p) \/ WaitFail(c, p) \/ WaitSleep(c, p) \/ Kill(c, p)

\* The timer interrupts p on c.
Tick(c, p) == InterruptExit(c, p) \/ Yield(c, p)

Next ==
  \/ \E c \in CPU :
       \/ Scheduler(c)
       \/ InitExit(c)
       \/ \E p \in Slot :
            Return(c, p) \/ Trap(c, p) \/ Fault(c, p) \/ KernelStep(c, p) \/ Tick(c, p)
  \/ Wakeup
  \/ \E p \in Slot : PanicLoop(p)

Spec == Init /\ [][Next]_vars

\* The scheduler loops for ever, the timer keeps interrupting, and its period
\* leaves a process that is scheduled again and again time for a step. Only
\* init is assumed to go on making system calls.
Fairness ==
  /\ \A c \in CPU : WF_vars(Scheduler(c)) /\ WF_vars(\E p \in Slot : Tick(c, p))
  /\ \A c \in CPU, p \in Slot : WF_vars(Return(c, p)) /\ SF_vars(KernelStep(c, p))
  /\ \A c \in CPU : SF_vars(Trap(c, initproc))

FairSpec == Spec /\ Fairness
-----------------------------------------------------------------------------
(* Safety *)

\* A process runs on at most one CPU: two CPUs never have the same c->proc, a
\* RUNNING process is on a CPU, and a process that gave up RUNNING leaves the
\* CPU before any other CPU can see the table (scheduler, sched, swtch).
RunsOnOneCpu ==
  /\ \A c, d \in CPU : cpuproc[c] # NULL /\ cpuproc[c] = cpuproc[d] => c = d
  /\ \A s \in Slot : state[s] = "RUNNING" => \E c \in CPU : cpuproc[c] = s
  /\ \A c \in CPU : cpuproc[c] # NULL /\ plock # c => state[cpuproc[c]] = "RUNNING"

\* The kernel stack and the page table a CPU is using are never freed: wait()
\* does not free those of a zombie that has not left its CPU.
StackInUse ==
  \A c \in CPU : cpuproc[c] # NULL => kstack[cpuproc[c]] /\ pgdir[cpuproc[c]] = "valid"

\* The checks that scheduling rests on never fail. sched() is always entered with
\* ptable.lock held, no other lock, interrupts off and a state other than RUNNING;
\* switchuvm() finds a stack and a page table; and sched() never returns into an
\* exited process ("zombie exit").
NoPanic == \A p \in Slot : loc[p] # "panic"

\* The interrupt flag belongs to the thread although it is saved in the CPU (the
\* comment on sched()): in user space and in a system call, outside critical
\* sections, a process runs with interrupts on, so that the timer can preempt it,
\* on whatever CPU it slept and woke up and whoever ran there in between. (exit()
\* is excepted: it may be entered from an interrupt or a fault.)
InterruptsKept ==
  \A c \in CPU :
    cpuproc[c] # NULL /\ plock # c /\ loc[cpuproc[c]] \notin {"exit", "initexit", "panic"}
      => intr[c] = 1

\* Every process but init has a parent that has not exited, so somebody can
\* always wait() for it (exit() passes its children to init).
ParentAlive ==
  \A s \in Slot \ {initproc} :
    state[s] \in Alive \cup {"ZOMBIE"} =>
      parent[s] \in Slot /\ state[parent[s]] \in Alive

\* No lost wakeup between exit() or kill() and wait(): a process asleep in
\* wait() has a child, none of its children has exited, and it is not killed.
NoMissedExit ==
  \A p \in Slot : state[p] = "SLEEPING" /\ chan[p] = p =>
    Children(p) # {} /\ ZombieChildren(p) = {} /\ ~killed[p]

\* Processes have distinct pids, all below nextpid.
PidsUnique ==
  \A s, t \in Slot :
    state[s] # "UNUSED" =>
      /\ pid[s] \in 1 .. nextpid - 1
      /\ state[t] # "UNUSED" /\ pid[s] = pid[t] => s = t

\* Every page is free, a kernel stack or an address space: no path of fork(),
\* successful or not, and no exit()/wait() leaks a page or frees one twice.
PagesConserved ==
  freepages + Cardinality({s \in Slot : kstack[s]})
            + Cardinality({s \in Slot : pgdir[s] = "valid"}) = NPAGES

\* What the comment on kill() says, "Kill the process with the given pid":
\* only a process is killed. A slot is never allocated with killed already set.
BornUnkilled ==
  [][\A s \in Slot : state[s] = "UNUSED" /\ state'[s] = "EMBRYO" => ~killed'[s]]_vars

-----------------------------------------------------------------------------
(* Liveness, on one CPU: with several, acquire() lets one CPU lose the race *)
(* for ptable.lock for ever.                                                *)

\* The round-robin scan of scheduler() starves nobody.
RunnableRuns ==
  \A s \in Slot : state[s] = "RUNNABLE" ~> state[s] = "RUNNING"

\* A zombie that init inherited or forked is reaped, so its slot and its pages
\* come back, when init goes on calling wait() as init.c does.
OrphansReaped ==
  \A s \in Slot : state[s] = "ZOMBIE" /\ parent[s] = initproc ~> state[s] = "UNUSED"

\* kill() is effective: a killed process that is not held up in some driver
\* exits, even if it was asleep in wait().
KilledExits ==
  \A s \in Slot : killed[s] /\ state[s] \in Alive ~> state[s] = "ZOMBIE"

=============================================================================
