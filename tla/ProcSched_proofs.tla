-------------------------- MODULE ProcSched_proofs --------------------------
(***************************************************************************)
(* The inductive invariant of Proc adds five facts to the properties:      *)
(* which CPU may be on the stack of a process that is not RUNNING          *)
(* (CpuInv), what a slot holds in each state (SlotInv), that the slot a    *)
(* fork() is filling belongs to that fork() alone (ForkInv), that          *)
(* pushcli() and popcli() are balanced around ptable.lock (CliInv), and    *)
(* which interrupt flag sched() keeps for a process (FlagInv).             *)
(*                                                                         *)
(* This module defines them, shows what sched() does when they hold, and   *)
(* proves that every step keeps CliInv and CpuInv.                         *)
(***************************************************************************)
EXTENDS ProcTypes_proofs

InFork == {"fork_kstack", "fork_copy", "fork_run"}

\* Between the two halves of a context switch the CPU is on the stack of a
\* process that is no longer RUNNING; it then holds ptable.lock.
CpuInv ==
  /\ \A c, d \in CPU : cpuproc[c] # NULL /\ cpuproc[c] = cpuproc[d] => c = d
  /\ \A s \in Slot : state[s] = "RUNNING" => \E c \in CPU : cpuproc[c] = s
  /\ \A c \in CPU : cpuproc[c] # NULL =>
       /\ state[cpuproc[c]] \in Alive \cup {"ZOMBIE"}
       /\ plock # c => state[cpuproc[c]] = "RUNNING"

\* What a slot holds in each state.
SlotInv ==
  /\ state[initproc] \in Alive /\ parent[initproc] = NULL
  /\ \A s \in Slot :
       /\ state[s] \in Alive \cup {"ZOMBIE"} => kstack[s] /\ pgdir[s] = "valid"
       /\ state[s] = "UNUSED" => parent[s] = NULL /\ ~kstack[s] /\ pgdir[s] # "valid"
       /\ state[s] \in Alive /\ context[s] = "wait" => loc[s] = "wait"
       /\ state[s] \in Alive => context[s] # "zombie"
       /\ parent[s] # s
       /\ loc[s] # "panic"

\* The EMBRYO slot np of a process in the middle of fork().
ForkOwns(p) ==
  /\ state[p] \in {"RUNNING", "RUNNABLE"}
  /\ np[p] \in Slot /\ state[np[p]] = "EMBRYO"
  /\ loc[p] = "fork_kstack" => ~kstack[np[p]]
  /\ loc[p] \in {"fork_copy", "fork_run"} =>
       kstack[np[p]] /\ context[np[p]] = "forkret"
  /\ loc[p] \in {"fork_kstack", "fork_copy"} =>
       parent[np[p]] = NULL /\ pgdir[np[p]] # "valid"
  /\ loc[p] = "fork_run" => parent[np[p]] = p /\ pgdir[np[p]] = "valid"

\* Nobody else has that slot.
ForkInv ==
  /\ \A p \in Slot : loc[p] \in InFork => ForkOwns(p)
  /\ \A p, q \in Slot :
       loc[p] \in InFork /\ loc[q] \in InFork /\ np[p] = np[q] => p = q

\* pushcli() and popcli() are balanced: a CPU is one level deep when it holds
\* ptable.lock and not at all otherwise, and it holds the lock with interrupts off.
CliInv ==
  \A c \in CPU : /\ ncli[c] = IF plock = c THEN 1 ELSE 0
                 /\ plock = c => intr[c] = 0

\* A process that sleeps in a system call, and not in exit(), had interrupts on.
FlagInv ==
  \A s \in Slot : /\ state[s] \in Alive /\ context[s] \in {"sleep", "wait"}
                  /\ loc[s] \notin {"exit", "initexit"}
                  => saved[s] = 1

\* NoMissedExit without its sets.
MissedInv ==
  \A p \in Slot : state[p] = "SLEEPING" /\ chan[p] = p =>
    /\ \E s \in Slot : parent[s] = p
    /\ \A s \in Slot : parent[s] = p => state[s] # "ZOMBIE"
    /\ ~killed[p]

\* All that most steps need to know of the types: the tables have one entry per
\* slot, and per CPU.
Domains ==
  /\ DOMAIN state = Slot /\ DOMAIN pid = Slot /\ DOMAIN parent = Slot
  /\ DOMAIN chan = Slot /\ DOMAIN killed = Slot /\ DOMAIN kstack = Slot
  /\ DOMAIN pgdir = Slot /\ DOMAIN context = Slot /\ DOMAIN loc = Slot
  /\ DOMAIN np = Slot /\ DOMAIN saved = Slot /\ DOMAIN cpuproc = CPU
  /\ DOMAIN ncli = CPU /\ DOMAIN intena = CPU /\ DOMAIN intr = CPU

\* It is part of the types.
LEMMA TypeDomains == TypeOK => Domains
  BY DEF TypeOK, Domains

\* A system call that a process in user space makes is not in the middle of fork().
LEMMA TrapGoto ==
  ASSUME NEW c \in CPU, NEW p \in Slot, Trap(c, p)
  PROVE  /\ loc[p] = "user"
         /\ \E l \in Syscall : loc' = [loc EXCEPT ![p] = l]
         /\ UNCHANGED <<state, pid, parent, chan, killed, context, np, saved, memVars, cpuVars, nextpid>>
  BY InitCallsAssumption DEF Trap, Goto, Syscall

\* sched() passes its four tests whenever its caller holds ptable.lock and no other
\* lock, has interrupts off and is not RUNNING.
LEMMA SchedPasses ==
  ASSUME NEW c \in CPU, NEW p \in Slot, NEW ctx, EnterSched(c, p, ctx),
         plock' = c, ncli'[c] = 1, state'[p] # "RUNNING", intr'[c] = 0
  PROVE  /\ context' = [context EXCEPT ![p] = ctx]
         /\ saved' = [saved EXCEPT ![p] = intena'[c]]
         /\ loc' = loc
  BY DEF EnterSched

\* acquire() of ptable.lock when the interrupt flag is f, by a CPU without locks.
LEMMA AcquireSets ==
  ASSUME Domains, CliInv, NEW c \in CPU, NEW f, Acquire(c, f)
  PROVE  /\ plock = NULL /\ plock' = c
         /\ ncli' = [ncli EXCEPT ![c] = 1] /\ ncli'[c] = 1
         /\ intr' = [intr EXCEPT ![c] = 0] /\ intr'[c] = 0
         /\ intena'[c] = f
<1>1. plock = NULL /\ ncli[c] = 0
  BY NullAssumption DEF Acquire, CliInv
<1> QED
  BY <1>1 DEF Acquire, Domains

\* sleep()'s exchange of its caller's lock for ptable.lock.
LEMMA SwapSets ==
  ASSUME Domains, CliInv, NEW c \in CPU, SwapLocks(c)
  PROVE  /\ plock = NULL /\ plock' = c
         /\ ncli' = [ncli EXCEPT ![c] = 1] /\ ncli'[c] = 1
         /\ intr' = [intr EXCEPT ![c] = 0] /\ intr'[c] = 0
         /\ intena'[c] = intr[c]
<1>1. plock = NULL /\ ncli[c] = 0
  BY NullAssumption DEF SwapLocks, CliInv
<1> QED
  BY <1>1 DEF SwapLocks, Domains

\* p calls sched() on c, to continue at ctx when it is switched to again, with the
\* interrupt flag e.
Sched(c, p, ctx, e) ==
  /\ plock' = c
  /\ ncli' = [ncli EXCEPT ![c] = 1]
  /\ intr' = [intr EXCEPT ![c] = 0]
  /\ context' = [context EXCEPT ![p] = ctx]
  /\ saved' = [saved EXCEPT ![p] = e]
  /\ loc' = loc

\* yield() calls it so: a timer interrupt comes with interrupts off.
LEMMA YieldSched ==
  ASSUME Domains, CliInv, NEW c \in CPU, NEW p \in Slot, Yield(c, p)
  PROVE  Sched(c, p, "yield", 0) /\ plock = NULL
<1>1. Acquire(c, 0) /\ EnterSched(c, p, "yield")
  BY DEF Yield
<1>2. state'[p] # "RUNNING"
  BY DEF Yield, Domains
<1> QED
  BY <1>1, <1>2, AcquireSets, SchedPasses DEF Sched

\* sleep() has given its caller's lock up.
LEMMA SleepSched ==
  ASSUME Domains, CliInv, NEW c \in CPU, NEW p \in Slot, Sleep(c, p)
  PROVE  Sched(c, p, "sleep", intr[c]) /\ plock = NULL
<1>1. SwapLocks(c) /\ EnterSched(c, p, "sleep")
  BY DEF Sleep
<1>2. state'[p] # "RUNNING"
  BY DEF Sleep, Domains
<1> QED
  BY <1>1, <1>2, SwapSets, SchedPasses DEF Sched

\* exit() has just taken ptable.lock.
LEMMA ExitSched ==
  ASSUME Domains, CliInv, NEW c \in CPU, NEW p \in Slot, Exit(c, p)
  PROVE  Sched(c, p, "zombie", intr[c]) /\ plock = NULL
<1>1. Acquire(c, intr[c]) /\ EnterSched(c, p, "zombie")
  BY DEF Exit
<1>2. state'[p] # "RUNNING"
  BY DEF Exit, ExitWakeups, wakeup1
<1> QED
  BY <1>1, <1>2, AcquireSets, SchedPasses DEF Sched

\* wait() has taken the lock, or has held it since its last sleep.
LEMMA WaitSched ==
  ASSUME TypeOK, Domains, CliInv, NEW c \in CPU, NEW p \in Slot, WaitSleep(c, p)
  PROVE  Sched(c, p, "wait", IF plock = c THEN saved[p] ELSE intr[c])
<1>1. WaitHold(c, p) /\ EnterSched(c, p, "wait")
  BY DEF WaitSleep
<1>2. state'[p] # "RUNNING"
  BY DEF WaitSleep, Domains
<1>3. CASE plock = c
  <2>1. /\ plock' = c /\ ncli' = ncli /\ intr' = intr /\ intena'[c] = saved[p]
        /\ ncli[c] = 1 /\ intr[c] = 0
    BY <1>1, <1>3 DEF WaitHold, Restored, CliInv, Domains
  <2>2. ncli' = [ncli EXCEPT ![c] = 1] /\ intr' = [intr EXCEPT ![c] = 0]
    <3>0. ncli \in [CPU -> Int] /\ intr \in [CPU -> {0, 1}]
      BY DEF TypeOK
    <3>1. ncli = [ncli EXCEPT ![c] = 1] /\ intr = [intr EXCEPT ![c] = 0]
      BY <2>1, <3>0
    <3> QED
      BY <2>1, <3>1
  <2>3. /\ context' = [context EXCEPT ![p] = "wait"]
        /\ saved' = [saved EXCEPT ![p] = saved[p]]
        /\ loc' = loc
    BY <1>1, <1>2, <2>1, SchedPasses
  <2> QED
    BY <1>3, <2>1, <2>2, <2>3, Zenon DEF Sched
<1>4. CASE plock # c
  BY <1>1, <1>2, <1>4, AcquireSets, SchedPasses DEF Sched, WaitHold
<1> QED
  BY <1>3, <1>4

\* A step that neither takes nor releases ptable.lock keeps CliInv.
LEMMA CliFrame == CliInv /\ UNCHANGED <<plock, ncli, intr>> => CliInv'
  BY DEF CliInv

\* A CPU that takes the lock, or keeps it in sched(), is one level deep.
LEMMA CliTakes ==
  ASSUME Domains, CliInv, NEW c \in CPU, plock = NULL \/ plock = c, plock' = c,
         ncli' = [ncli EXCEPT ![c] = 1], intr' = [intr EXCEPT ![c] = 0]
  PROVE  CliInv'
  BY NullAssumption DEF Domains, CliInv

\* One that releases it is no longer.
LEMMA CliGives ==
  ASSUME Domains, CliInv, NEW c \in CPU, plock = c, NEW e \in {0, 1}, NEW f \in {0, 1}, Release(c, e, f)
  PROVE  CliInv'
<1>1. ncli' = [ncli EXCEPT ![c] = 0] /\ plock' = NULL /\ intr' = [intr EXCEPT ![c] = f]
  <2>1. ncli[c] - 1 = 0
    BY DEF CliInv
  <2>2. ncli' = [ncli EXCEPT ![c] = ncli[c] - 1]
    BY DEF Release
  <2> QED
    BY <2>1, <2>2, Zenon DEF Release
<1> QED
  BY <1>1, NullAssumption DEF Domains, CliInv

\* Every step leaves pushcli() and popcli() balanced around ptable.lock.
LEMMA CliStep ==
  ASSUME TypeOK, CliInv, [Next]_vars
  PROVE  CliInv'
<1>0. Domains /\ LockType /\ CtxType
  BY TypeDomains, TypeSplit DEF TypeParts, CpuType
<1> USE <1>0
<1>1. ASSUME NEW c \in CPU, SchedAcquire(c)
      PROVE  CliInv'
  BY <1>1, AcquireSets, CliTakes DEF SchedAcquire
<1>2. ASSUME NEW c \in CPU, SchedRun(c)
      PROVE  CliInv'
  <2>1. UNCHANGED <<plock, ncli, intr>>
    BY <1>2 DEF SchedRun, cpuVars, cliVars
  <2> QED
    BY <2>1, CliFrame
<1>3. ASSUME NEW c \in CPU, SchedRelease(c)
      PROVE  CliInv'
  <2>1. plock = c /\ \E e, f \in {0, 1} : Release(c, e, f)
    BY <1>3, FlagType, InitSlot DEF SchedRelease
  <2> QED
    BY <2>1, CliGives
<1>4. ASSUME NEW c \in CPU, Swtch(c)
      PROVE  CliInv'
  <2>1. UNCHANGED <<plock, ncli, intr>>
    BY <1>4 DEF Swtch, cpuVars, cliVars
  <2> QED
    BY <2>1, CliFrame
<1>5. ASSUME NEW c \in CPU, InitExit(c)
      PROVE  CliInv'
  <2>1. /\ UNCHANGED <<plock, ncli>> /\ plock # c
        /\ intr' = intr \/ \E f \in {0, 1} : intr' = [intr EXCEPT ![c] = f]
    BY <1>5 DEF InitExit, Runs
  <2> QED
    BY <2>1 DEF CliInv, Domains
<1>6. ASSUME NEW c \in CPU, NEW p \in Slot, Forkret(c, p)
      PROVE  CliInv'
  <2>1. plock = c /\ \E e, f \in {0, 1} : Release(c, e, f)
    BY <1>6, FlagType DEF Forkret, Resumed
  <2> QED
    BY <2>1, CliGives
<1>7. ASSUME NEW c \in CPU, NEW p \in Slot, YieldReturn(c, p)
      PROVE  CliInv'
  <2>1. plock = c /\ \E e, f \in {0, 1} : Release(c, e, f)
    BY <1>7, FlagType DEF YieldReturn, Resumed
  <2> QED
    BY <2>1, CliGives
<1>8. ASSUME NEW c \in CPU, NEW p \in Slot, SleepReturn(c, p)
      PROVE  CliInv'
  <2>1. plock = c /\ \E e, f \in {0, 1} : Release(c, e, f)
    BY <1>8, FlagType DEF SleepReturn, Resumed
  <2> QED
    BY <2>1, CliGives
<1>9. ASSUME NEW c \in CPU, NEW p \in Slot, Trap(c, p)
      PROVE  CliInv'
  <2>1. UNCHANGED <<plock, ncli, intr>>
    BY <1>9 DEF Trap, cpuVars, cliVars
  <2> QED
    BY <2>1, CliFrame
<1>10. ASSUME NEW c \in CPU, NEW p \in Slot, Fault(c, p)
      PROVE  CliInv'
  <2>1. /\ UNCHANGED <<plock, ncli>> /\ plock # c
        /\ intr' = intr \/ \E f \in {0, 1} : intr' = [intr EXCEPT ![c] = f]
    BY <1>10 DEF Fault, Runs
  <2> QED
    BY <2>1 DEF CliInv, Domains
<1>11. ASSUME NEW c \in CPU, NEW p \in Slot, SysReturn(c, p)
      PROVE  CliInv'
  <2>1. /\ UNCHANGED <<plock, ncli>> /\ plock # c
        /\ intr' = intr \/ \E f \in {0, 1} : intr' = [intr EXCEPT ![c] = f]
    BY <1>11 DEF SysReturn, Runs
  <2> QED
    BY <2>1 DEF CliInv, Domains
<1>12. ASSUME NEW c \in CPU, NEW p \in Slot, Sleep(c, p)
      PROVE  CliInv'
  <2>1. Sched(c, p, "sleep", intr[c]) /\ plock = NULL
    BY <1>12, SleepSched
  <2> QED
    BY <2>1, CliTakes, Zenon DEF Sched
<1>13. ASSUME NEW c \in CPU, NEW p \in Slot, SleepDone(c, p)
      PROVE  CliInv'
  <2>1. UNCHANGED <<plock, ncli, intr>>
    BY <1>13 DEF SleepDone, cpuVars, cliVars
  <2> QED
    BY <2>1, CliFrame
<1>14. ASSUME NEW c \in CPU, NEW p \in Slot, ForkAlloc(c, p)
      PROVE  CliInv'
  <2>1. UNCHANGED <<plock, ncli, intr>>
    BY <1>14 DEF ForkAlloc, cpuVars, cliVars
  <2> QED
    BY <2>1, CliFrame
<1>15. ASSUME NEW c \in CPU, NEW p \in Slot, ForkKstack(c, p)
      PROVE  CliInv'
  <2>1. UNCHANGED <<plock, ncli, intr>>
    BY <1>15 DEF ForkKstack, cpuVars, cliVars
  <2> QED
    BY <2>1, CliFrame
<1>16. ASSUME NEW c \in CPU, NEW p \in Slot, ForkCopy(c, p)
      PROVE  CliInv'
  <2>1. UNCHANGED <<plock, ncli, intr>>
    BY <1>16 DEF ForkCopy, cpuVars, cliVars
  <2> QED
    BY <2>1, CliFrame
<1>17. ASSUME NEW c \in CPU, NEW p \in Slot, ForkRun(c, p)
      PROVE  CliInv'
  <2>1. UNCHANGED <<plock, ncli, intr>>
    BY <1>17 DEF ForkRun, cpuVars, cliVars
  <2> QED
    BY <2>1, CliFrame
<1>18. ASSUME NEW c \in CPU, NEW p \in Slot, Exit(c, p)
      PROVE  CliInv'
  <2>1. Sched(c, p, "zombie", intr[c]) /\ plock = NULL
    BY <1>18, ExitSched
  <2> QED
    BY <2>1, CliTakes, Zenon DEF Sched
<1>19. ASSUME NEW c \in CPU, NEW p \in Slot, WaitReap(c, p)
      PROVE  CliInv'
  <2>1. WaitRelease(c, p) /\ plock \in {NULL, c}
    BY <1>19 DEF WaitReap, InWait, Resumed
  <2>2. CASE plock = c
    BY <2>1, <2>2, FlagType, CliGives DEF WaitRelease
  <2>3. CASE plock # c
    BY <2>1, <2>3, CliFrame DEF WaitRelease, cliVars
  <2> QED
    BY <2>2, <2>3
<1>20. ASSUME NEW c \in CPU, NEW p \in Slot, WaitFail(c, p)
      PROVE  CliInv'
  <2>1. WaitRelease(c, p) /\ plock \in {NULL, c}
    BY <1>20 DEF WaitFail, InWait, Resumed
  <2>2. CASE plock = c
    BY <2>1, <2>2, FlagType, CliGives DEF WaitRelease
  <2>3. CASE plock # c
    BY <2>1, <2>3, CliFrame DEF WaitRelease, cliVars
  <2> QED
    BY <2>2, <2>3
<1>21. ASSUME NEW c \in CPU, NEW p \in Slot, WaitSleep(c, p)
      PROVE  CliInv'
  <2>1. Sched(c, p, "wait", IF plock = c THEN saved[p] ELSE intr[c])
    BY <1>21, WaitSched
  <2>2. plock = NULL \/ plock = c
    BY <1>21 DEF WaitSleep, InWait, Resumed
  <2> QED
    BY <2>1, <2>2, CliTakes, Zenon DEF Sched
<1>22. ASSUME NEW c \in CPU, NEW p \in Slot, Kill(c, p)
      PROVE  CliInv'
  <2>1. UNCHANGED <<plock, ncli, intr>>
    BY <1>22 DEF Kill, cpuVars, cliVars
  <2> QED
    BY <2>1, CliFrame
<1>23. ASSUME NEW c \in CPU, NEW p \in Slot, InterruptExit(c, p)
      PROVE  CliInv'
  <2>1. /\ UNCHANGED <<plock, ncli>> /\ plock # c
        /\ intr' = intr \/ \E f \in {0, 1} : intr' = [intr EXCEPT ![c] = f]
    BY <1>23 DEF InterruptExit, Runs
  <2> QED
    BY <2>1 DEF CliInv, Domains
<1>24. ASSUME NEW c \in CPU, NEW p \in Slot, Yield(c, p)
      PROVE  CliInv'
  <2>1. Sched(c, p, "yield", 0) /\ plock = NULL
    BY <1>24, YieldSched
  <2> QED
    BY <2>1, CliTakes, Zenon DEF Sched
<1>25. ASSUME Wakeup
      PROVE  CliInv'
  <2>1. UNCHANGED <<plock, ncli, intr>>
    BY <1>25 DEF Wakeup, cpuVars, cliVars
  <2> QED
    BY <2>1, CliFrame
<1>26. ASSUME NEW p \in Slot, PanicLoop(p)
      PROVE  CliInv'
  <2>1. UNCHANGED <<plock, ncli, intr>>
    BY <1>26 DEF PanicLoop, cpuVars, cliVars, vars
  <2> QED
    BY <2>1, CliFrame
<1>27. CASE UNCHANGED vars
  BY <1>27, CliFrame DEF vars, cpuVars, cliVars
<1> QED
  BY <1>1, <1>2, <1>3, <1>4, <1>5, <1>6, <1>7, <1>8, <1>9, <1>10, <1>11, <1>12, <1>13, <1>14,
     <1>15, <1>16, <1>17, <1>18, <1>19, <1>20, <1>21, <1>22, <1>23, <1>24, <1>25, <1>26, <1>27, Zenon
     DEF Next, Scheduler, Return, KernelStep, Tick

\* A step that leaves the CPUs and the states alone keeps CpuInv.
LEMMA CpuSame == CpuInv /\ UNCHANGED <<cpuproc, plock, state>> => CpuInv'
  BY DEF CpuInv

\* s is not put on a CPU and not taken off one: it does not become RUNNING or cease
\* to be, and it does not leave the table.
StaysOff(s) ==
  \/ state'[s] = state[s]
  \/ /\ state[s] \notin {"RUNNING", "ZOMBIE"} /\ state'[s] # "RUNNING"
     /\ state[s] \in Alive => state'[s] \in Alive

\* A step that does so with every process, with the same lock and the same CPUs,
\* keeps CpuInv.
LEMMA CpuOthers ==
  ASSUME CpuInv, \A d \in CPU : cpuproc[d] \in Slot \cup {NULL},
         UNCHANGED <<cpuproc, plock>>, \A s \in Slot : StaysOff(s)
  PROVE  CpuInv'
  BY DEF CpuInv, StaysOff

\* So does one in which p, which runs on c, goes into sched().
LEMMA CpuSched ==
  ASSUME CpuInv, \A d \in CPU : cpuproc[d] \in Slot \cup {NULL},
         NEW c \in CPU, NEW p \in Slot, cpuproc[c] = p, plock \in {NULL, c}, plock' = c,
         UNCHANGED cpuproc, state'[p] \in (Alive \cup {"ZOMBIE"}) \ {"RUNNING"},
         \A s \in Slot \ {p} : StaysOff(s)
  PROVE  CpuInv'
<1>1. \A d \in CPU \ {c} : cpuproc[d] # p /\ plock # d
  BY NullAssumption DEF CpuInv
<1>2. \A s \in Slot : state'[s] = "RUNNING" => s # p /\ state[s] = "RUNNING"
  BY DEF StaysOff
<1>3. \A d \in CPU \ {c} : cpuproc[d] # NULL => state[cpuproc[d]] = "RUNNING" /\ state'[cpuproc[d]] = "RUNNING"
  BY <1>1 DEF CpuInv, StaysOff
<1> QED
  BY <1>1, <1>2, <1>3, NullAssumption DEF CpuInv, Alive

\* A process is on one CPU after every step (scheduler(), sched(), yield(),
\* sleep(), exit(), wait()).
LEMMA CpuStep ==
  ASSUME TypeOK, CpuInv, SlotInv, ForkInv, CliInv, [Next]_vars
  PROVE  CpuInv'
<1>0. Domains /\ \A d \in CPU : cpuproc[d] \in Slot \cup {NULL}
  BY TypeDomains DEF TypeOK
<1> USE <1>0, NullAssumption
<1>1. ASSUME NEW c \in CPU, SchedAcquire(c)
      PROVE  CpuInv'
  BY <1>1 DEF SchedAcquire, Acquire, procVars, CpuInv, Alive, Domains
<1>2. ASSUME NEW c \in CPU, SchedRun(c)
      PROVE  CpuInv'
  BY <1>2 DEF SchedRun, IsFirst, CpuInv, Alive, Domains
<1>3. ASSUME NEW c \in CPU, SchedRelease(c)
      PROVE  CpuInv'
  BY <1>3 DEF SchedRelease, Release, procVars, CpuInv, Alive, Domains
<1>4. ASSUME NEW c \in CPU, Swtch(c)
      PROVE  CpuInv'
  BY <1>4 DEF Swtch, procVars, CpuInv, Alive, Domains
<1>5. ASSUME NEW c \in CPU, InitExit(c)
      PROVE  CpuInv'
  BY <1>5, CpuSame DEF InitExit
<1>6. ASSUME NEW c \in CPU, NEW p \in Slot, Forkret(c, p)
      PROVE  CpuInv'
  BY <1>6 DEF Forkret, Resumed, Release, CpuInv, Alive, Domains
<1>7. ASSUME NEW c \in CPU, NEW p \in Slot, YieldReturn(c, p)
      PROVE  CpuInv'
  BY <1>7 DEF YieldReturn, Resumed, Release, CpuInv, Alive, Domains
<1>8. ASSUME NEW c \in CPU, NEW p \in Slot, SleepReturn(c, p)
      PROVE  CpuInv'
  BY <1>8 DEF SleepReturn, Resumed, Release, CpuInv, Alive, Domains
<1>9. ASSUME NEW c \in CPU, NEW p \in Slot, Trap(c, p)
      PROVE  CpuInv'
  BY <1>9, CpuSame DEF Trap, procVars, cpuVars
<1>10. ASSUME NEW c \in CPU, NEW p \in Slot, Fault(c, p)
      PROVE  CpuInv'
  BY <1>10, CpuSame DEF Fault
<1>11. ASSUME NEW c \in CPU, NEW p \in Slot, SysReturn(c, p)
      PROVE  CpuInv'
  BY <1>11, CpuSame DEF SysReturn, cpuVars, cliVars
<1>12. ASSUME NEW c \in CPU, NEW p \in Slot, Sleep(c, p)
      PROVE  CpuInv'
  <2>1. Sched(c, p, "sleep", intr[c]) /\ plock = NULL
    BY <1>12, SleepSched
  <2>2. cpuproc[c] = p /\ cpuproc' = cpuproc /\ plock \in {NULL, c}
    BY <1>12, <2>1 DEF Sleep, Runs
  <2>3. state' = [state EXCEPT ![p] = "SLEEPING"]
    BY <1>12 DEF Sleep
  <2>4. plock' = c
    BY <2>1 DEF Sched
  <2>5. state'[p] \in (Alive \cup {"ZOMBIE"}) \ {"RUNNING"} /\ \A s \in Slot \ {p} : StaysOff(s)
    BY <2>3 DEF StaysOff, Alive, Domains
  <2> QED
    BY <2>2, <2>4, <2>5, CpuSched
<1>13. ASSUME NEW c \in CPU, NEW p \in Slot, SleepDone(c, p)
      PROVE  CpuInv'
  BY <1>13, CpuSame DEF SleepDone, procVars, cpuVars
<1>14. ASSUME NEW c \in CPU, NEW p \in Slot, ForkAlloc(c, p)
      PROVE  CpuInv'
  <2>1. UNCHANGED <<cpuproc, plock>>
    BY <1>14 DEF ForkAlloc, cpuVars
  <2>2. \A s \in Slot : StaysOff(s)
    BY <1>14 DEF ForkAlloc, IsFirst, StaysOff, Alive, Domains
  <2> QED
    BY <2>1, <2>2, CpuOthers
<1>15. ASSUME NEW c \in CPU, NEW p \in Slot, ForkKstack(c, p)
      PROVE  CpuInv'
  <2>1. np[p] \in Slot /\ state[np[p]] = "EMBRYO"
    BY <1>15 DEF ForkKstack, Runs, ForkInv, ForkOwns, InFork
  <2>2. UNCHANGED <<cpuproc, plock>> /\ (state' = state \/ state' = [state EXCEPT ![np[p]] = "UNUSED"])
    BY <1>15 DEF ForkKstack, cpuVars
  <2>3. \A s \in Slot : StaysOff(s)
    BY <2>1, <2>2 DEF StaysOff, Alive, Domains
  <2> QED
    BY <2>2, <2>3, CpuOthers
<1>16. ASSUME NEW c \in CPU, NEW p \in Slot, ForkCopy(c, p)
      PROVE  CpuInv'
  <2>1. np[p] \in Slot /\ state[np[p]] = "EMBRYO"
    BY <1>16 DEF ForkCopy, Runs, ForkInv, ForkOwns, InFork
  <2>2. UNCHANGED <<cpuproc, plock>> /\ (state' = state \/ state' = [state EXCEPT ![np[p]] = "UNUSED"])
    BY <1>16 DEF ForkCopy, cpuVars
  <2>3. \A s \in Slot : StaysOff(s)
    BY <2>1, <2>2 DEF StaysOff, Alive, Domains
  <2> QED
    BY <2>2, <2>3, CpuOthers
<1>17. ASSUME NEW c \in CPU, NEW p \in Slot, ForkRun(c, p)
      PROVE  CpuInv'
  <2>1. np[p] \in Slot /\ state[np[p]] = "EMBRYO"
    BY <1>17 DEF ForkRun, Runs, ForkInv, ForkOwns, InFork
  <2>2. UNCHANGED <<cpuproc, plock>> /\ (state' = [state EXCEPT ![np[p]] = "RUNNABLE"])
    BY <1>17 DEF ForkRun, cpuVars
  <2>3. \A s \in Slot : StaysOff(s)
    BY <2>1, <2>2 DEF StaysOff, Alive, Domains
  <2> QED
    BY <2>2, <2>3, CpuOthers
<1>18. ASSUME NEW c \in CPU, NEW p \in Slot, Exit(c, p)
      PROVE  CpuInv'
  <2>1. Sched(c, p, "zombie", intr[c]) /\ plock = NULL
    BY <1>18, ExitSched
  <2>2. cpuproc[c] = p /\ cpuproc' = cpuproc /\ plock \in {NULL, c}
    BY <1>18, <2>1 DEF Exit, Runs
  <2>3. state'[p] = "ZOMBIE" /\ \A s \in Slot \ {p} : StaysOff(s)
    BY <1>18 DEF Exit, ExitWakeups, wakeup1, StaysOff, Alive, Domains
  <2>4. plock' = c
    BY <2>1 DEF Sched
  <2>5. state'[p] \in (Alive \cup {"ZOMBIE"}) \ {"RUNNING"} /\ \A s \in Slot \ {p} : StaysOff(s)
    BY <2>3 DEF StaysOff, Alive, Domains
  <2> QED
    BY <2>2, <2>4, <2>5, CpuSched
<1>19. ASSUME NEW c \in CPU, NEW p \in Slot, WaitReap(c, p)
      PROVE  CpuInv'
  <2>1. PICK s \in Slot : state[s] = "ZOMBIE" /\ state' = [state EXCEPT ![s] = "UNUSED"]
    BY <1>19, Zenon DEF WaitReap, IsFirst, ZombieChildren
  <2>2. cpuproc[c] = p /\ state[p] = "RUNNING" /\ cpuproc' = cpuproc /\ plock \in {NULL, c} /\ plock' = NULL
    BY <1>19 DEF WaitReap, WaitRelease, Release, InWait, Runs, Resumed
  <2>3. \A d \in CPU : cpuproc[d] # NULL => state[cpuproc[d]] = "RUNNING"
    BY <2>2 DEF CpuInv
  <2> QED
    BY <2>1, <2>2, <2>3 DEF CpuInv, Alive, Domains
<1>20. ASSUME NEW c \in CPU, NEW p \in Slot, WaitFail(c, p)
      PROVE  CpuInv'
  <2>1. cpuproc[c] = p /\ state[p] = "RUNNING" /\ plock \in {NULL, c} /\ plock' = NULL
    BY <1>20 DEF WaitFail, WaitRelease, Release, InWait, Runs, Resumed
  <2>2. UNCHANGED <<cpuproc, state>>
    BY <1>20 DEF WaitFail, procVars
  <2> QED
    BY <2>1, <2>2 DEF CpuInv
<1>21. ASSUME NEW c \in CPU, NEW p \in Slot, WaitSleep(c, p)
      PROVE  CpuInv'
  <2>1. Sched(c, p, "wait", IF plock = c THEN saved[p] ELSE intr[c])
    BY <1>21, WaitSched
  <2>2. cpuproc[c] = p /\ cpuproc' = cpuproc /\ plock \in {NULL, c}
    BY <1>21, <2>1 DEF WaitSleep, InWait, Runs, Resumed
  <2>3. state' = [state EXCEPT ![p] = "SLEEPING"]
    BY <1>21 DEF WaitSleep
  <2>4. plock' = c
    BY <2>1 DEF Sched
  <2>5. state'[p] \in (Alive \cup {"ZOMBIE"}) \ {"RUNNING"} /\ \A s \in Slot \ {p} : StaysOff(s)
    BY <2>3 DEF StaysOff, Alive, Domains
  <2> QED
    BY <2>2, <2>4, <2>5, CpuSched
<1>22. ASSUME NEW c \in CPU, NEW p \in Slot, Kill(c, p)
      PROVE  CpuInv'
  <2>1. UNCHANGED <<cpuproc, plock>>
    BY <1>22 DEF Kill, cpuVars
  <2>2. \A s \in Slot : StaysOff(s)
    BY <1>22 DEF Kill, IsFirst, Unblocked, StaysOff, Alive, Domains
  <2> QED
    BY <2>1, <2>2, CpuOthers
<1>23. ASSUME NEW c \in CPU, NEW p \in Slot, InterruptExit(c, p)
      PROVE  CpuInv'
  BY <1>23, CpuSame DEF InterruptExit
<1>24. ASSUME NEW c \in CPU, NEW p \in Slot, Yield(c, p)
      PROVE  CpuInv'
  <2>1. Sched(c, p, "yield", 0) /\ plock = NULL
    BY <1>24, YieldSched
  <2>2. cpuproc[c] = p /\ cpuproc' = cpuproc /\ plock \in {NULL, c}
    BY <1>24, <2>1 DEF Yield, Runs
  <2>3. state' = [state EXCEPT ![p] = "RUNNABLE"]
    BY <1>24 DEF Yield
  <2>4. plock' = c
    BY <2>1 DEF Sched
  <2>5. state'[p] \in (Alive \cup {"ZOMBIE"}) \ {"RUNNING"} /\ \A s \in Slot \ {p} : StaysOff(s)
    BY <2>3 DEF StaysOff, Alive, Domains
  <2> QED
    BY <2>2, <2>4, <2>5, CpuSched
<1>25. ASSUME Wakeup
      PROVE  CpuInv'
  <2>1. UNCHANGED <<cpuproc, plock>>
    BY <1>25 DEF Wakeup, cpuVars
  <2>2. \A s \in Slot : StaysOff(s)
    BY <1>25 DEF Wakeup, wakeup1, StaysOff, Alive, Domains
  <2> QED
    BY <2>1, <2>2, CpuOthers
<1>26. ASSUME NEW p \in Slot, PanicLoop(p)
      PROVE  CpuInv'
  BY <1>26, CpuSame DEF PanicLoop, vars, procVars, cpuVars
<1>27. CASE UNCHANGED vars
  BY <1>27, CpuSame DEF vars, procVars, cpuVars
<1> QED
  BY <1>1, <1>2, <1>3, <1>4, <1>5, <1>6, <1>7, <1>8, <1>9, <1>10, <1>11, <1>12, <1>13, <1>14,
     <1>15, <1>16, <1>17, <1>18, <1>19, <1>20, <1>21, <1>22, <1>23, <1>24, <1>25, <1>26, <1>27, Zenon
     DEF Next, Scheduler, Return, KernelStep, Tick
=============================================================================
