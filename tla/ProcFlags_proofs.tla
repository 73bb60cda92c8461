-------------------------- MODULE ProcFlags_proofs --------------------------
(***************************************************************************)
(* Every step keeps FlagInv and InterruptsKept: whose interrupt flag is in *)
(* a CPU and in what sched() saved.                                        *)
(***************************************************************************)
EXTENDS ProcSched_proofs

\* What runs on a CPU is in the table, and on no other CPU.
LEMMA RunsOn ==
  ASSUME Domains, CpuInv, InterruptsKept, NEW c \in CPU, NEW p \in Slot, cpuproc[c] = p
  PROVE  /\ \A d \in CPU \ {c} : cpuproc[d] # p
         /\ plock # c /\ loc[p] \notin {"exit", "initexit", "panic"} => intr[c] = 1
  BY NullAssumption DEF CpuInv, InterruptsKept

\* A step of others keeps FlagInv.
LEMMA FlagSame == FlagInv /\ UNCHANGED <<state, context, loc, saved>> => FlagInv'
  BY DEF FlagInv

\* The flag that sched() keeps for a process is that of the process.
LEMMA FlagStep ==
  ASSUME TypeOK, CpuInv, SlotInv, ForkInv, CliInv, FlagInv, InterruptsKept, [Next]_vars
  PROVE  FlagInv'
<1>0. Domains
  BY TypeDomains
<1> USE <1>0
<1>1. ASSUME NEW c \in CPU, SchedAcquire(c)
      PROVE  FlagInv'
  BY <1>1, FlagSame DEF SchedAcquire, procVars
<1>2. ASSUME NEW c \in CPU, SchedRun(c)
      PROVE  FlagInv'
  <2>1. PICK p \in Slot : state[p] = "RUNNABLE" /\ state' = [state EXCEPT ![p] = "RUNNING"]
                         /\ (kstack[p] /\ pgdir[p] = "valid" /\ context[p] # "zombie" => loc' = loc)
    BY <1>2, Zenon DEF SchedRun, IsFirst
  <2>2. loc' = loc
    BY <2>1 DEF SlotInv, Alive
  <2>3. UNCHANGED <<context, saved>>
    BY <1>2 DEF SchedRun
  <2> QED
    BY <2>1, <2>2, <2>3 DEF FlagInv, Alive, Domains
<1>3. ASSUME NEW c \in CPU, SchedRelease(c)
      PROVE  FlagInv'
  BY <1>3, FlagSame DEF SchedRelease, procVars
<1>4. ASSUME NEW c \in CPU, Swtch(c)
      PROVE  FlagInv'
  BY <1>4, FlagSame DEF Swtch, procVars
<1>5. ASSUME NEW c \in CPU, InitExit(c)
      PROVE  FlagInv'
  BY <1>5, InitSlot DEF InitExit, Goto, FlagInv, Domains
<1>6. ASSUME NEW c \in CPU, NEW p \in Slot, Forkret(c, p)
      PROVE  FlagInv'
  BY <1>6, InitSlot DEF Forkret, LeaveSched, FlagInv, Domains
<1>7. ASSUME NEW c \in CPU, NEW p \in Slot, YieldReturn(c, p)
      PROVE  FlagInv'
  BY <1>7, InitSlot DEF YieldReturn, LeaveSched, Goto, FlagInv, Domains
<1>8. ASSUME NEW c \in CPU, NEW p \in Slot, SleepReturn(c, p)
      PROVE  FlagInv'
  BY <1>8, InitSlot DEF SleepReturn, LeaveSched, FlagInv, Domains
<1>9. ASSUME NEW c \in CPU, NEW p \in Slot, Trap(c, p)
      PROVE  FlagInv'
  <2>1. PICK l \in Syscall : loc' = [loc EXCEPT ![p] = l]
    BY <1>9, TrapGoto
  <2>2. loc[p] = "user" /\ UNCHANGED <<state, context, saved>>
    BY <1>9, TrapGoto
  <2> QED
    BY <2>1, <2>2 DEF FlagInv, Domains
<1>10. ASSUME NEW c \in CPU, NEW p \in Slot, Fault(c, p)
      PROVE  FlagInv'
  BY <1>10, InitSlot DEF Fault, Goto, Runs, FlagInv, Domains
<1>11. ASSUME NEW c \in CPU, NEW p \in Slot, SysReturn(c, p)
      PROVE  FlagInv'
  BY <1>11, InitSlot DEF SysReturn, Goto, FlagInv, Domains
<1>12. ASSUME NEW c \in CPU, NEW p \in Slot, Sleep(c, p)
      PROVE  FlagInv'
  <2>1. Sched(c, p, "sleep", intr[c]) /\ plock = NULL
    BY <1>12, SleepSched
  <2>2. state[p] = "RUNNING" /\ state' = [state EXCEPT ![p] = "SLEEPING"]
    BY <1>12 DEF Sleep, Runs
  <2>3. loc[p] \notin {"exit", "initexit"} => intr[c] = 1
    BY <1>12, RunsOn DEF Sleep, Runs
  <2> QED
    BY <2>1, <2>2, <2>3 DEF Sched, FlagInv, Alive, Domains
<1>13. ASSUME NEW c \in CPU, NEW p \in Slot, SleepDone(c, p)
      PROVE  FlagInv'
  BY <1>13, InitSlot DEF SleepDone, Goto, FlagInv, Domains
<1>14. ASSUME NEW c \in CPU, NEW p \in Slot, ForkAlloc(c, p)
      PROVE  FlagInv'
  BY <1>14, InitSlot DEF ForkAlloc, Goto, IsFirst, Alive, FlagInv, Domains
<1>15. ASSUME NEW c \in CPU, NEW p \in Slot, ForkKstack(c, p)
      PROVE  FlagInv'
  BY <1>15, InitSlot DEF ForkKstack, Goto, ForkInv, ForkOwns, InFork, Alive, FlagInv, Domains
<1>16. ASSUME NEW c \in CPU, NEW p \in Slot, ForkCopy(c, p)
      PROVE  FlagInv'
  BY <1>16, InitSlot DEF ForkCopy, Goto, ForkInv, ForkOwns, InFork, Alive, FlagInv, Domains
<1>17. ASSUME NEW c \in CPU, NEW p \in Slot, ForkRun(c, p)
      PROVE  FlagInv'
  BY <1>17, InitSlot DEF ForkRun, Goto, ForkInv, ForkOwns, InFork, Alive, FlagInv, Domains
<1>18. ASSUME NEW c \in CPU, NEW p \in Slot, Exit(c, p)
      PROVE  FlagInv'
  <2>1. Sched(c, p, "zombie", intr[c]) /\ plock = NULL
    BY <1>18, ExitSched
  <2>2. state[p] = "RUNNING" /\ \A s \in Slot : state'[s] \in Alive => state[s] \in Alive
    BY <1>18 DEF Exit, Runs, ExitWakeups, wakeup1, Alive
  <2> QED
    BY <2>1, <2>2 DEF Sched, FlagInv, Alive, Domains
<1>19. ASSUME NEW c \in CPU, NEW p \in Slot, WaitReap(c, p)
      PROVE  FlagInv'
  BY <1>19, InitSlot DEF WaitReap, LeaveSched, Goto, IsFirst, ZombieChildren, Alive, FlagInv, Domains
<1>20. ASSUME NEW c \in CPU, NEW p \in Slot, WaitFail(c, p)
      PROVE  FlagInv'
  BY <1>20, InitSlot DEF WaitFail, LeaveSched, Goto, FlagInv, Domains
<1>21. ASSUME NEW c \in CPU, NEW p \in Slot, WaitSleep(c, p)
      PROVE  FlagInv'
  <2>1. Sched(c, p, "wait", IF plock = c THEN saved[p] ELSE intr[c])
    BY <1>21, WaitSched
  <2>2. state[p] = "RUNNING" /\ state' = [state EXCEPT ![p] = "SLEEPING"]
    BY <1>21 DEF WaitSleep, Runs, InWait, Resumed
  <2>3. (IF plock = c THEN saved[p] ELSE intr[c]) = 1
    <3>1. CASE plock = c
      BY <1>21, <3>1 DEF WaitSleep, InWait, Runs, Resumed, SlotInv, FlagInv, Alive
    <3>2. CASE plock # c
      BY <1>21, <3>2, RunsOn DEF WaitSleep, InWait, Resumed, Runs
    <3> QED
      BY <3>1, <3>2
  <2> QED
    BY <2>1, <2>2, <2>3 DEF Sched, FlagInv, Alive, Domains
<1>22. ASSUME NEW c \in CPU, NEW p \in Slot, Kill(c, p)
      PROVE  FlagInv'
  <2>1. \A s \in Slot : state'[s] \in Alive => state[s] \in Alive
    BY <1>22 DEF Kill, IsFirst, Unblocked, Alive, Domains
  <2>2. loc[p] = "kill" /\ loc' = [loc EXCEPT ![p] = "sysret"] /\ UNCHANGED <<context, saved>>
    BY <1>22 DEF Kill, Goto
  <2> QED
    BY <2>1, <2>2 DEF FlagInv, Domains
<1>23. ASSUME NEW c \in CPU, NEW p \in Slot, InterruptExit(c, p)
      PROVE  FlagInv'
  BY <1>23, InitSlot DEF InterruptExit, Goto, Runs, FlagInv, Domains
<1>24. ASSUME NEW c \in CPU, NEW p \in Slot, Yield(c, p)
      PROVE  FlagInv'
  <2>1. Sched(c, p, "yield", 0) /\ plock = NULL
    BY <1>24, YieldSched
  <2>2. state[p] = "RUNNING" /\ state' = [state EXCEPT ![p] = "RUNNABLE"]
    BY <1>24 DEF Yield, Runs
  <2> QED
    BY <2>1, <2>2 DEF Sched, FlagInv, Alive, Domains
<1>25. ASSUME Wakeup
      PROVE  FlagInv'
  BY <1>25, InitSlot DEF Wakeup, wakeup1, Alive, FlagInv, Domains
<1>26. ASSUME NEW p \in Slot, PanicLoop(p)
      PROVE  FlagInv'
  BY <1>26, FlagSame DEF PanicLoop, procVars, vars
<1>27. CASE UNCHANGED vars
  BY <1>27, FlagSame DEF vars, procVars
<1> QED
  BY <1>1, <1>2, <1>3, <1>4, <1>5, <1>6, <1>7, <1>8, <1>9, <1>10, <1>11, <1>12, <1>13, <1>14,
     <1>15, <1>16, <1>17, <1>18, <1>19, <1>20, <1>21, <1>22, <1>23, <1>24, <1>25, <1>26, <1>27, Zenon
     DEF Next, Scheduler, Return, KernelStep, Tick

\* A step that leaves the CPUs alone keeps InterruptsKept.
LEMMA KeptSame == InterruptsKept /\ UNCHANGED <<cpuproc, plock, loc, intr>> => InterruptsKept'
  BY DEF InterruptsKept

\* So does a step of p on c after which p has interrupts on, holds ptable.lock or
\* is in exit().
LEMMA KeptLocal ==
  ASSUME Domains, CpuInv, InterruptsKept, NEW c \in CPU, NEW p \in Slot, cpuproc[c] = p,
         \A d \in CPU : cpuproc[d] \in Slot \cup {NULL}, UNCHANGED cpuproc,
         \A q \in Slot \ {p} : state[q] # "EMBRYO" => loc'[q] = loc[q],
         \A d \in CPU \ {c} : intr'[d] = intr[d] /\ (plock' # d => plock # d),
         plock' # c /\ loc'[p] \notin {"exit", "initexit", "panic"} => intr'[c] = 1
  PROVE  InterruptsKept'
<1> SUFFICES ASSUME NEW d \in CPU, cpuproc[d] # NULL, plock' # d, loc'[cpuproc[d]] \notin {"exit", "initexit", "panic"}
             PROVE  intr'[d] = 1
  BY DEF InterruptsKept
<1>1. CASE d = c
  BY <1>1
<1>2. CASE d # c
  <2>1. cpuproc[d] \in Slot \ {p}
    BY <1>2, RunsOn
  <2>2. state[cpuproc[d]] # "EMBRYO"
    BY DEF CpuInv, Alive
  <2> QED
    BY <1>2, <2>1, <2>2 DEF InterruptsKept
<1> QED
  BY <1>1, <1>2

\* wait() gives back the lock, and the interrupt flag with it.
LEMMA WaitReleases ==
  ASSUME Domains, CpuInv, SlotInv, CliInv, FlagInv, InterruptsKept,
         NEW c \in CPU, NEW p \in Slot, InWait(c, p), WaitRelease(c, p)
  PROVE  /\ cpuproc[c] = p /\ intr'[c] = 1
         /\ \A d \in CPU \ {c} : intr'[d] = intr[d] /\ (plock' # d => plock # d)
<1>1. cpuproc[c] = p /\ state[p] = "RUNNING"
  BY DEF InWait, Runs, Resumed
<1>2. CASE plock = c
  <2>1. context[p] = "wait"
    BY <1>2 DEF InWait, Runs, Resumed
  <2>2. saved[p] = 1 /\ ncli[c] - 1 = 0
    BY <1>1, <1>2, <2>1 DEF SlotInv, FlagInv, CliInv, Alive
  <2>3. intr' = [intr EXCEPT ![c] = 1]
    BY <1>2, <2>2 DEF WaitRelease, Release, PopFlag, Restored
  <2> QED
    BY <1>1, <1>2, <2>3 DEF Domains
<1>3. CASE plock # c
  <2>1. loc[p] = "wait"
    BY <1>3 DEF InWait, Resumed
  <2>2. UNCHANGED <<plock, intr>>
    BY <1>3 DEF WaitRelease, cliVars
  <2> QED
    BY <1>1, <1>3, <2>1, <2>2, RunsOn
<1> QED
  BY <1>2, <1>3

\* Every process that goes on outside a critical section has interrupts on.
LEMMA KeptStep ==
  ASSUME TypeOK, CpuInv, SlotInv, ForkInv, CliInv, FlagInv, InterruptsKept, [Next]_vars
  PROVE  InterruptsKept'
<1>0. Domains /\ \A d \in CPU : cpuproc[d] \in Slot \cup {NULL}
  BY TypeDomains DEF TypeOK
<1> USE <1>0
<1>1. ASSUME NEW c \in CPU, SchedAcquire(c)
      PROVE  InterruptsKept'
  <2>1. /\ cpuproc'[c] = NULL \/ plock' = c
        /\ \A d \in CPU \ {c} : cpuproc'[d] = cpuproc[d] /\ intr'[d] = intr[d] /\ plock # d
        /\ loc' = loc
    BY <1>1, NullAssumption DEF SchedAcquire, Acquire, procVars, Domains
  <2> QED
    BY <2>1 DEF InterruptsKept
<1>2. ASSUME NEW c \in CPU, SchedRun(c)
      PROVE  InterruptsKept'
  <2>1. PICK p \in Slot : /\ state[p] = "RUNNABLE" /\ cpuproc' = [cpuproc EXCEPT ![c] = p]
                         /\ (kstack[p] /\ pgdir[p] = "valid" /\ context[p] # "zombie" => loc' = loc)
    BY <1>2, Zenon DEF SchedRun, IsFirst
  <2>4. loc' = loc
    BY <2>1 DEF SlotInv, Alive
  <2>2. plock = c /\ UNCHANGED <<plock, intr>>
    BY <1>2 DEF SchedRun, cliVars
  <2>3. \A d \in CPU \ {c} : cpuproc'[d] = cpuproc[d] /\ cpuproc[d] # p
    BY <2>1, <2>2, NullAssumption DEF CpuInv, Domains
  <2> QED
    BY <2>2, <2>3, <2>4 DEF InterruptsKept
<1>3. ASSUME NEW c \in CPU, SchedRelease(c)
      PROVE  InterruptsKept'
  <2>1. /\ cpuproc'[c] = NULL \/ plock' = c
        /\ \A d \in CPU \ {c} : cpuproc'[d] = cpuproc[d] /\ intr'[d] = intr[d] /\ plock # d
        /\ loc' = loc
    BY <1>3, NullAssumption DEF SchedRelease, Release, procVars, Domains
  <2> QED
    BY <2>1 DEF InterruptsKept
<1>4. ASSUME NEW c \in CPU, Swtch(c)
      PROVE  InterruptsKept'
  <2>1. /\ cpuproc'[c] = NULL \/ plock' = c
        /\ \A d \in CPU \ {c} : cpuproc'[d] = cpuproc[d] /\ intr'[d] = intr[d] /\ plock # d
        /\ loc' = loc
    BY <1>4, NullAssumption DEF Swtch, cliVars, procVars, Domains
  <2> QED
    BY <2>1 DEF InterruptsKept
<1>5. ASSUME NEW c \in CPU, InitExit(c)
      PROVE  InterruptsKept'
  <2>1. cpuproc[c] = initproc /\ cpuproc' = cpuproc
    BY <1>5 DEF InitExit, Runs
  <2>2. \A q \in Slot \ {initproc} : loc'[q] = loc[q]
    BY <1>5 DEF InitExit, Goto, Domains
  <2>3. \A d \in CPU \ {c} : intr'[d] = intr[d] /\ plock' = plock
    BY <1>5 DEF InitExit, Domains
  <2>4. loc'[initproc] \notin {"exit", "initexit", "panic"} => intr'[c] = 1
    BY <1>5, InitSlot DEF InitExit, Goto, Domains
  <2> QED
    BY <2>1, <2>2, <2>3, <2>4, KeptLocal, InitSlot
<1>6. ASSUME NEW c \in CPU, NEW p \in Slot, Forkret(c, p)
      PROVE  InterruptsKept'
  <2>1. cpuproc[c] = p /\ cpuproc' = cpuproc
    BY <1>6 DEF Forkret, Resumed
  <2>2. \A q \in Slot \ {p} : loc'[q] = loc[q]
    BY <1>6 DEF Forkret, Goto, Domains
  <2>3. \A d \in CPU \ {c} : intr'[d] = intr[d] /\ plock # d
    BY <1>6 DEF Forkret, Release, Resumed, Domains
  <2>4. loc'[p] \notin {"exit", "initexit", "panic"} => intr'[c] = 1
    BY <1>6 DEF Forkret, Release, Goto, Domains
  <2> QED
    BY <2>1, <2>2, <2>3, <2>4, KeptLocal
<1>7. ASSUME NEW c \in CPU, NEW p \in Slot, YieldReturn(c, p)
      PROVE  InterruptsKept'
  <2>1. cpuproc[c] = p /\ cpuproc' = cpuproc
    BY <1>7, Zenon DEF YieldReturn, Resumed
  <2>2. \A q \in Slot \ {p} : loc'[q] = loc[q]
    BY <1>7 DEF YieldReturn, Goto, Domains
  <2>3. \A d \in CPU \ {c} : intr'[d] = intr[d] /\ plock # d
    BY <1>7 DEF YieldReturn, Release, Resumed, Domains
  <2>4. loc'[p] \notin {"exit", "initexit", "panic"} => intr'[c] = 1
    BY <1>7 DEF YieldReturn, Release, Goto, Domains
  <2> QED
    BY <2>1, <2>2, <2>3, <2>4, KeptLocal
<1>8. ASSUME NEW c \in CPU, NEW p \in Slot, SleepReturn(c, p)
      PROVE  InterruptsKept'
  <2>1. cpuproc[c] = p /\ cpuproc' = cpuproc
    BY <1>8 DEF SleepReturn, Resumed
  <2>2. \A q \in Slot \ {p} : loc'[q] = loc[q]
    BY <1>8 DEF SleepReturn, Goto, Domains
  <2>3. \A d \in CPU \ {c} : intr'[d] = intr[d] /\ plock # d
    BY <1>8 DEF SleepReturn, Release, Resumed, Domains
  <2>4. loc'[p] \notin {"exit", "initexit", "panic"} => intr'[c] = 1
    <3>1. ncli[c] = 1 /\ loc' = loc /\ (loc[p] \notin {"exit", "initexit", "panic"} => saved[p] = 1)
      BY <1>8 DEF SleepReturn, Resumed, CliInv, FlagInv, Alive
    <3> QED
      BY <1>8, <3>1 DEF SleepReturn, Release, PopFlag, Restored, Domains
  <2> QED
    BY <2>1, <2>2, <2>3, <2>4, KeptLocal
<1>9. ASSUME NEW c \in CPU, NEW p \in Slot, Trap(c, p)
      PROVE  InterruptsKept'
  <2>1. cpuproc[c] = p /\ cpuproc' = cpuproc
    BY <1>9 DEF Trap, Runs, cpuVars
  <2>2. \A q \in Slot \ {p} : loc'[q] = loc[q]
    BY <1>9, TrapGoto DEF Domains
  <2>3. UNCHANGED <<plock, intr>>
    BY <1>9 DEF Trap, cpuVars, cliVars
  <2>4. intr'[c] = 1
    BY <1>9, <2>1, <2>3, RunsOn DEF Trap, Runs
  <2> QED
    BY <2>1, <2>2, <2>3, <2>4, KeptLocal
<1>10. ASSUME NEW c \in CPU, NEW p \in Slot, Fault(c, p)
      PROVE  InterruptsKept'
  <2>1. cpuproc[c] = p /\ cpuproc' = cpuproc
    BY <1>10 DEF Fault, Runs
  <2>2. \A q \in Slot \ {p} : loc'[q] = loc[q]
    BY <1>10 DEF Fault, Goto, Domains
  <2>3. \A d \in CPU \ {c} : intr'[d] = intr[d] /\ plock' = plock
    BY <1>10 DEF Fault, Domains
  <2>4. loc'[p] \notin {"exit", "initexit", "panic"} => intr'[c] = 1
    BY <1>10 DEF Fault, Goto, Domains
  <2> QED
    BY <2>1, <2>2, <2>3, <2>4, KeptLocal
<1>11. ASSUME NEW c \in CPU, NEW p \in Slot, SysReturn(c, p)
      PROVE  InterruptsKept'
  <2>1. cpuproc[c] = p /\ cpuproc' = cpuproc
    BY <1>11 DEF SysReturn, Runs
  <2>2. \A q \in Slot \ {p} : loc'[q] = loc[q]
    BY <1>11 DEF SysReturn, Goto, Domains
  <2>3. \A d \in CPU \ {c} : intr'[d] = intr[d] /\ plock' = plock
    BY <1>11 DEF SysReturn, Domains
  <2>4. loc'[p] \notin {"exit", "initexit", "panic"} => intr'[c] = 1
    BY <1>11 DEF SysReturn, Goto, Domains
  <2> QED
    BY <2>1, <2>2, <2>3, <2>4, KeptLocal
<1>12. ASSUME NEW c \in CPU, NEW p \in Slot, Sleep(c, p)
      PROVE  InterruptsKept'
  <2>1. Sched(c, p, "sleep", intr[c]) /\ plock = NULL
    BY <1>12, SleepSched
  <2>2. cpuproc[c] = p /\ cpuproc' = cpuproc /\ plock \in {NULL, c}
    BY <1>12, <2>1 DEF Sleep, Runs
  <2>3. plock' = c /\ loc' = loc
    BY <2>1 DEF Sched
  <2>4. \A d \in CPU \ {c} : intr'[d] = intr[d] /\ plock # d
    BY <2>1, <2>2, NullAssumption DEF Sched, Domains
  <2> QED
    BY <2>2, <2>3, <2>4, KeptLocal
<1>13. ASSUME NEW c \in CPU, NEW p \in Slot, SleepDone(c, p)
      PROVE  InterruptsKept'
  <2>1. cpuproc[c] = p /\ cpuproc' = cpuproc
    BY <1>13 DEF SleepDone, Runs, cpuVars
  <2>2. \A q \in Slot \ {p} : loc'[q] = loc[q]
    BY <1>13 DEF SleepDone, Goto, Domains
  <2>3. UNCHANGED <<plock, intr>>
    BY <1>13 DEF SleepDone, cpuVars, cliVars
  <2>4. intr'[c] = 1
    BY <1>13, <2>1, <2>3, RunsOn DEF SleepDone, Runs
  <2> QED
    BY <2>1, <2>2, <2>3, <2>4, KeptLocal
<1>14. ASSUME NEW c \in CPU, NEW p \in Slot, ForkAlloc(c, p)
      PROVE  InterruptsKept'
  <2>1. cpuproc[c] = p /\ cpuproc' = cpuproc
    BY <1>14 DEF ForkAlloc, Runs, cpuVars
  <2>2. \A q \in Slot \ {p} : loc'[q] = loc[q]
    BY <1>14, Zenon DEF ForkAlloc, Goto, Domains
  <2>3. UNCHANGED <<plock, intr>>
    BY <1>14, Zenon DEF ForkAlloc, cpuVars, cliVars
  <2>4. intr'[c] = 1
    BY <1>14, <2>1, <2>3, RunsOn DEF ForkAlloc, Runs
  <2> QED
    BY <2>1, <2>2, <2>3, <2>4, KeptLocal
<1>15. ASSUME NEW c \in CPU, NEW p \in Slot, ForkKstack(c, p)
      PROVE  InterruptsKept'
  <2>1. cpuproc[c] = p /\ cpuproc' = cpuproc
    BY <1>15 DEF ForkKstack, Runs, cpuVars
  <2>2. \A q \in Slot \ {p} : state[q] # "EMBRYO" => loc'[q] = loc[q]
    BY <1>15 DEF ForkKstack, Goto, ForkInv, ForkOwns, InFork, Domains
  <2>3. UNCHANGED <<plock, intr>>
    BY <1>15 DEF ForkKstack, cpuVars, cliVars
  <2>4. intr'[c] = 1
    BY <1>15, <2>1, <2>3, RunsOn DEF ForkKstack, Runs
  <2> QED
    BY <2>1, <2>2, <2>3, <2>4, KeptLocal
<1>16. ASSUME NEW c \in CPU, NEW p \in Slot, ForkCopy(c, p)
      PROVE  InterruptsKept'
  <2>1. cpuproc[c] = p /\ cpuproc' = cpuproc
    BY <1>16 DEF ForkCopy, Runs, cpuVars
  <2>2. \A q \in Slot \ {p} : loc'[q] = loc[q]
    BY <1>16 DEF ForkCopy, Goto, Domains
  <2>3. UNCHANGED <<plock, intr>>
    BY <1>16 DEF ForkCopy, cpuVars, cliVars
  <2>4. intr'[c] = 1
    BY <1>16, <2>1, <2>3, RunsOn DEF ForkCopy, Runs
  <2> QED
    BY <2>1, <2>2, <2>3, <2>4, KeptLocal
<1>17. ASSUME NEW c \in CPU, NEW p \in Slot, ForkRun(c, p)
      PROVE  InterruptsKept'
  <2>1. cpuproc[c] = p /\ cpuproc' = cpuproc
    BY <1>17, Zenon DEF ForkRun, Runs, cpuVars
  <2>2. \A q \in Slot \ {p} : loc'[q] = loc[q]
    BY <1>17 DEF ForkRun, Goto, Domains
  <2>3. UNCHANGED <<plock, intr>>
    BY <1>17 DEF ForkRun, cpuVars, cliVars
  <2>4. intr'[c] = 1
    BY <1>17, <2>1, <2>3, RunsOn DEF ForkRun, Runs
  <2> QED
    BY <2>1, <2>2, <2>3, <2>4, KeptLocal
<1>18. ASSUME NEW c \in CPU, NEW p \in Slot, Exit(c, p)
      PROVE  InterruptsKept'
  <2>1. Sched(c, p, "zombie", intr[c]) /\ plock = NULL
    BY <1>18, ExitSched
  <2>2. cpuproc[c] = p /\ cpuproc' = cpuproc /\ plock \in {NULL, c}
    BY <1>18, <2>1 DEF Exit, Runs
  <2>3. plock' = c /\ loc' = loc
    BY <2>1 DEF Sched
  <2>4. \A d \in CPU \ {c} : intr'[d] = intr[d] /\ plock # d
    BY <2>1, <2>2, NullAssumption DEF Sched, Domains
  <2> QED
    BY <2>2, <2>3, <2>4, KeptLocal
<1>19. ASSUME NEW c \in CPU, NEW p \in Slot, WaitReap(c, p)
      PROVE  InterruptsKept'
  <2>1. InWait(c, p) /\ WaitRelease(c, p) /\ cpuproc' = cpuproc /\ Goto(p, "sysret")
    BY <1>19, Zenon DEF WaitReap
  <2>2. \A q \in Slot \ {p} : loc'[q] = loc[q]
    BY <2>1 DEF Goto, Domains
  <2>3. /\ cpuproc[c] = p /\ intr'[c] = 1
        /\ \A d \in CPU \ {c} : intr'[d] = intr[d] /\ (plock' # d => plock # d)
    BY <2>1, WaitReleases
  <2> QED
    BY <2>1, <2>2, <2>3, KeptLocal
<1>20. ASSUME NEW c \in CPU, NEW p \in Slot, WaitFail(c, p)
      PROVE  InterruptsKept'
  <2>1. InWait(c, p) /\ WaitRelease(c, p) /\ cpuproc' = cpuproc /\ Goto(p, "sysret")
    BY <1>20, Zenon DEF WaitFail
  <2>2. \A q \in Slot \ {p} : loc'[q] = loc[q]
    BY <2>1 DEF Goto, Domains
  <2>3. /\ cpuproc[c] = p /\ intr'[c] = 1
        /\ \A d \in CPU \ {c} : intr'[d] = intr[d] /\ (plock' # d => plock # d)
    BY <2>1, WaitReleases
  <2> QED
    BY <2>1, <2>2, <2>3, KeptLocal
<1>21. ASSUME NEW c \in CPU, NEW p \in Slot, WaitSleep(c, p)
      PROVE  InterruptsKept'
  <2>1. Sched(c, p, "wait", IF plock = c THEN saved[p] ELSE intr[c])
    BY <1>21, WaitSched, Zenon
  <2>2. cpuproc[c] = p /\ cpuproc' = cpuproc /\ plock \in {NULL, c}
    BY <1>21, <2>1 DEF WaitSleep, Runs, InWait, Resumed
  <2>3. plock' = c /\ loc' = loc
    BY <2>1 DEF Sched
  <2>4. \A d \in CPU \ {c} : intr'[d] = intr[d] /\ plock # d
    BY <2>1, <2>2, NullAssumption DEF Sched, Domains
  <2> QED
    BY <2>2, <2>3, <2>4, KeptLocal
<1>22. ASSUME NEW c \in CPU, NEW p \in Slot, Kill(c, p)
      PROVE  InterruptsKept'
  <2>1. cpuproc[c] = p /\ cpuproc' = cpuproc
    BY <1>22 DEF Kill, Runs, cpuVars
  <2>2. \A q \in Slot \ {p} : loc'[q] = loc[q]
    BY <1>22 DEF Kill, Goto, Domains
  <2>3. UNCHANGED <<plock, intr>>
    BY <1>22 DEF Kill, cpuVars, cliVars
  <2>4. intr'[c] = 1
    BY <1>22, <2>1, <2>3, RunsOn DEF Kill, Runs
  <2> QED
    BY <2>1, <2>2, <2>3, <2>4, KeptLocal
<1>23. ASSUME NEW c \in CPU, NEW p \in Slot, InterruptExit(c, p)
      PROVE  InterruptsKept'
  <2>1. cpuproc[c] = p /\ cpuproc' = cpuproc
    BY <1>23 DEF InterruptExit, Runs
  <2>2. \A q \in Slot \ {p} : loc'[q] = loc[q]
    BY <1>23 DEF InterruptExit, Goto, Domains
  <2>3. \A d \in CPU \ {c} : intr'[d] = intr[d] /\ plock' = plock
    BY <1>23 DEF InterruptExit, Domains
  <2>4. loc'[p] \notin {"exit", "initexit", "panic"} => intr'[c] = 1
    BY <1>23 DEF InterruptExit, Goto, Domains
  <2> QED
    BY <2>1, <2>2, <2>3, <2>4, KeptLocal
<1>24. ASSUME NEW c \in CPU, NEW p \in Slot, Yield(c, p)
      PROVE  InterruptsKept'
  <2>1. Sched(c, p, "yield", 0) /\ plock = NULL
    BY <1>24, YieldSched
  <2>2. cpuproc[c] = p /\ cpuproc' = cpuproc /\ plock \in {NULL, c}
    BY <1>24, <2>1 DEF Yield, Runs
  <2>3. plock' = c /\ loc' = loc
    BY <2>1 DEF Sched
  <2>4. \A d \in CPU \ {c} : intr'[d] = intr[d] /\ plock # d
    BY <2>1, <2>2, NullAssumption DEF Sched, Domains
  <2> QED
    BY <2>2, <2>3, <2>4, KeptLocal
<1>25. ASSUME Wakeup
      PROVE  InterruptsKept'
  BY <1>25, KeptSame DEF Wakeup, cpuVars, cliVars
<1>26. ASSUME NEW p \in Slot, PanicLoop(p)
      PROVE  InterruptsKept'
  BY <1>26, KeptSame, Zenon DEF PanicLoop, cpuVars, cliVars, vars, procVars
<1>27. CASE UNCHANGED vars
  BY <1>27, KeptSame DEF vars, procVars, cpuVars, cliVars
<1> QED
  BY <1>1, <1>2, <1>3, <1>4, <1>5, <1>6, <1>7, <1>8, <1>9, <1>10, <1>11, <1>12, <1>13, <1>14,
     <1>15, <1>16, <1>17, <1>18, <1>19, <1>20, <1>21, <1>22, <1>23, <1>24, <1>25, <1>26, <1>27, Zenon
     DEF Next, Scheduler, Return, KernelStep, Tick
=============================================================================
