-------------------------- MODULE ProcTypes_proofs --------------------------
(***************************************************************************)
(* Proofs about Proc for every number of slots, CPUs, channels and pages:  *)
(* the types, kept by every step.                                          *)
(***************************************************************************)
EXTENDS Proc, TLAPS

\* The types in four parts: the process table, where its threads are, the pages,
\* and the CPUs.
TabType ==
  /\ state \in [Slot -> ProcState] /\ pid \in [Slot -> Nat]
  /\ parent \in [Slot -> Slot \cup {NULL}] /\ chan \in [Slot -> Slot \cup Chan \cup {NULL}]
  /\ killed \in [Slot -> BOOLEAN] /\ np \in [Slot -> Slot \cup {NULL}] /\ nextpid \in Nat
CtxType ==
  context \in [Slot -> Context] /\ loc \in [Slot -> Location] /\ saved \in [Slot -> {0, 1}]
MemType ==
  kstack \in [Slot -> BOOLEAN] /\ pgdir \in [Slot -> {"null", "valid", "stale"}] /\ freepages \in Nat
LockType ==
  /\ plock \in CPU \cup {NULL} /\ ncli \in [CPU -> Int]
  /\ intena \in [CPU -> {0, 1}] /\ intr \in [CPU -> {0, 1}]
CpuType ==
  LockType /\ cpuproc \in [CPU -> Slot \cup {NULL}] /\ scan \in [CPU -> 0 .. NPROC]
TypeParts == TabType /\ CtxType /\ MemType /\ CpuType

\* Together they are TypeOK.
LEMMA TypeSplit == (TypeOK <=> TypeParts) /\ (TypeOK' <=> TypeParts')
  BY Zenon DEF TypeOK, TypeParts, TabType, CtxType, MemType, LockType, CpuType

\* The first slot of the table is init's.
LEMMA InitSlot == initproc \in Slot
  BY NPROCAssumption DEF initproc, Slot

\* Variables that a step leaves alone keep their types.
LEMMA ProcFrame == TabType /\ CtxType /\ UNCHANGED <<procVars, nextpid>> => TabType' /\ CtxType'
  BY DEF TabType, CtxType, procVars

\* The same for the pages.
LEMMA MemFrame == MemType /\ UNCHANGED memVars => MemType'
  BY DEF MemType, memVars

\* The same for the CPUs.
LEMMA CpuFrame == CpuType /\ UNCHANGED cpuVars => CpuType'
  BY DEF CpuType, LockType, cpuVars, cliVars

\* sched() keeps the types, whether or not it panics.
LEMMA EnterSchedType ==
  ASSUME CtxType, NEW c \in CPU, NEW p \in Slot, NEW ctx \in Context, EnterSched(c, p, ctx),
         intena' \in [CPU -> {0, 1}]
  PROVE  CtxType'
<1>1. "panic" \in Location /\ intena'[c] \in {0, 1}
  BY DEF Location
<1> QED
  BY <1>1 DEF CtxType, EnterSched, Goto

\* So do pushcli() and popcli() around ptable.lock.
LEMMA LockStep ==
  ASSUME LockType, CtxType, NEW c \in CPU, NEW p \in Slot, NEW e \in {0, 1}, NEW f \in {0, 1},
         Acquire(c, e) \/ SwapLocks(c) \/ Release(c, e, f) \/ WaitHold(c, p) \/ WaitRelease(c, p)
  PROVE  LockType'
<1> USE DEF LockType
<1>1. saved[p] \in {0, 1} /\ intr[c] \in {0, 1}
  BY DEF CtxType
<1>2. CASE Acquire(c, e)
  BY <1>2 DEF Acquire
<1>3. CASE SwapLocks(c)
  BY <1>1, <1>3 DEF SwapLocks
<1>4. CASE Release(c, e, f)
  BY <1>4 DEF Release
<1>5. CASE WaitHold(c, p)
  BY <1>1, <1>5 DEF WaitHold, Restored, Acquire
<1>6. CASE WaitRelease(c, p)
  BY <1>1, <1>6 DEF WaitRelease, Restored, Release, PopFlag, cliVars
<1> QED
  BY <1>2, <1>3, <1>4, <1>5, <1>6

\* The flags that popcli() may restore.
LEMMA FlagType ==
  ASSUME LockType, CtxType, NEW c \in CPU, NEW p \in Slot
  PROVE  /\ intena[c] \in {0, 1} /\ intr[c] \in {0, 1} /\ Restored(c, p) \in {0, 1}
         /\ PopFlag(c, intena[c]) \in {0, 1} /\ PopFlag(c, Restored(c, p)) \in {0, 1}
         /\ 0 \in {0, 1} /\ 1 \in {0, 1}
  BY DEF LockType, CtxType, PopFlag, Restored

\* Every step keeps the types of the variables of proc.c.
LEMMA TypeStep == TypeOK /\ [Next]_vars => TypeOK'
<1> SUFFICES ASSUME TypeParts, [Next]_vars PROVE TypeParts'
  BY TypeSplit
<1>0. TabType /\ CtxType /\ MemType /\ CpuType /\ LockType
  BY DEF TypeParts, CpuType
<1> USE <1>0
<1>1. ASSUME NEW c \in CPU, SchedAcquire(c)
      PROVE  TypeParts'
  <2>1. CpuType'
    <3>1. LockType'
      BY <1>1, LockStep, FlagType, InitSlot DEF SchedAcquire
    <3> QED
      BY <1>1, <3>1, NPROCAssumption DEF SchedAcquire, CpuType
  <2>2. TabType' /\ CtxType'
    BY <1>1, ProcFrame DEF SchedAcquire
  <2>4. MemType'
    BY <1>1, MemFrame DEF SchedAcquire
  <2> QED
    BY <2>1, <2>2, <2>4 DEF TypeParts
<1>2. ASSUME NEW c \in CPU, SchedRun(c)
      PROVE  TypeParts'
  <2>1. CpuType'
    BY <1>2, NPROCAssumption DEF SchedRun, CpuType, LockType, cliVars, IsFirst, Slot
  <2>2. TabType'
    BY <1>2 DEF SchedRun, TabType, ProcState
  <2>3. CtxType'
    <3>1. PICK q \in Slot : loc' = loc \/ loc' = [loc EXCEPT ![q] = "panic"]
      BY <1>2 DEF SchedRun, Goto
    <3> QED
      BY <1>2, <3>1 DEF SchedRun, CtxType, Location
  <2>4. MemType'
    BY <1>2, MemFrame DEF SchedRun
  <2> QED
    BY <2>1, <2>2, <2>3, <2>4 DEF TypeParts
<1>3. ASSUME NEW c \in CPU, SchedRelease(c)
      PROVE  TypeParts'
  <2>1. CpuType'
    <3>1. LockType'
      BY <1>3, LockStep, FlagType, InitSlot DEF SchedRelease
    <3> QED
      BY <1>3, <3>1, NPROCAssumption DEF SchedRelease, CpuType
  <2>2. TabType' /\ CtxType'
    BY <1>3, ProcFrame DEF SchedRelease
  <2>4. MemType'
    BY <1>3, MemFrame DEF SchedRelease
  <2> QED
    BY <2>1, <2>2, <2>4 DEF TypeParts
<1>4. ASSUME NEW c \in CPU, Swtch(c)
      PROVE  TypeParts'
  <2>1. CpuType'
    BY <1>4, NPROCAssumption DEF Swtch, CpuType, LockType, cliVars, NextSlot, Slot
  <2>2. TabType' /\ CtxType'
    BY <1>4, ProcFrame DEF Swtch
  <2>4. MemType'
    BY <1>4, MemFrame DEF Swtch
  <2> QED
    BY <2>1, <2>2, <2>4 DEF TypeParts
<1>5. ASSUME NEW c \in CPU, InitExit(c)
      PROVE  TypeParts'
  <2>1. CpuType'
    BY <1>5 DEF InitExit, CpuType, LockType
  <2>2. TabType'
    BY <1>5 DEF InitExit, TabType
  <2>3. CtxType'
    BY <1>5, InitSlot DEF InitExit, Goto, CtxType, Location
  <2>4. MemType'
    BY <1>5, MemFrame DEF InitExit
  <2> QED
    BY <2>1, <2>2, <2>3, <2>4 DEF TypeParts
<1>6. ASSUME NEW c \in CPU, NEW p \in Slot, Forkret(c, p)
      PROVE  TypeParts'
  <2>1. CpuType'
    <3>1. LockType'
      BY <1>6, LockStep, FlagType DEF Forkret
    <3> QED
      BY <1>6, <3>1 DEF Forkret, CpuType
  <2>2. TabType'
    BY <1>6 DEF Forkret, TabType
  <2>3. CtxType'
    BY <1>6 DEF Forkret, LeaveSched, CtxType, Context
  <2>4. MemType'
    BY <1>6, MemFrame DEF Forkret
  <2> QED
    BY <2>1, <2>2, <2>3, <2>4 DEF TypeParts
<1>7. ASSUME NEW c \in CPU, NEW p \in Slot, YieldReturn(c, p)
      PROVE  TypeParts'
  <2>1. CpuType'
    <3>1. LockType'
      BY <1>7, LockStep, FlagType DEF YieldReturn
    <3> QED
      BY <1>7, <3>1 DEF YieldReturn, CpuType
  <2>2. TabType'
    BY <1>7 DEF YieldReturn, TabType
  <2>3. CtxType'
    BY <1>7 DEF YieldReturn, LeaveSched, Goto, CtxType, Context, Location, Syscall
  <2>4. MemType'
    BY <1>7, MemFrame DEF YieldReturn
  <2> QED
    BY <2>1, <2>2, <2>3, <2>4 DEF TypeParts
<1>8. ASSUME NEW c \in CPU, NEW p \in Slot, SleepReturn(c, p)
      PROVE  TypeParts'
  <2>1. CpuType'
    <3>1. LockType'
      BY <1>8, LockStep, FlagType DEF SleepReturn
    <3> QED
      BY <1>8, <3>1 DEF SleepReturn, CpuType
  <2>2. TabType'
    BY <1>8 DEF SleepReturn, TabType
  <2>3. CtxType'
    BY <1>8 DEF SleepReturn, LeaveSched, CtxType, Context
  <2>4. MemType'
    BY <1>8, MemFrame DEF SleepReturn
  <2> QED
    BY <2>1, <2>2, <2>3, <2>4 DEF TypeParts
<1>9. ASSUME NEW c \in CPU, NEW p \in Slot, Trap(c, p)
      PROVE  TypeParts'
  <2>1. CpuType'
    BY <1>9, CpuFrame DEF Trap
  <2>2. TabType'
    BY <1>9 DEF Trap, TabType
  <2>3. CtxType'
    <3>1. PICK l \in Location : loc' = [loc EXCEPT ![p] = l]
      BY <1>9, InitCallsAssumption DEF Trap, Goto, Location, Syscall
    <3> QED
      BY <1>9, <3>1 DEF Trap, CtxType
  <2>4. MemType'
    BY <1>9, MemFrame DEF Trap
  <2> QED
    BY <2>1, <2>2, <2>3, <2>4 DEF TypeParts
<1>10. ASSUME NEW c \in CPU, NEW p \in Slot, Fault(c, p)
      PROVE  TypeParts'
  <2>1. CpuType'
    BY <1>10 DEF Fault, CpuType, LockType
  <2>2. TabType'
    BY <1>10 DEF Fault, TabType
  <2>3. CtxType'
    BY <1>10 DEF Fault, Goto, CtxType, Location, Syscall
  <2>4. MemType'
    BY <1>10, MemFrame DEF Fault
  <2> QED
    BY <2>1, <2>2, <2>3, <2>4 DEF TypeParts
<1>11. ASSUME NEW c \in CPU, NEW p \in Slot, SysReturn(c, p)
      PROVE  TypeParts'
  <2>1. CpuType'
    BY <1>11 DEF SysReturn, CpuType, LockType
  <2>2. TabType'
    BY <1>11 DEF SysReturn, TabType
  <2>3. CtxType'
    BY <1>11 DEF SysReturn, Goto, CtxType, Location, Syscall
  <2>4. MemType'
    BY <1>11, MemFrame DEF SysReturn
  <2> QED
    BY <2>1, <2>2, <2>3, <2>4 DEF TypeParts
<1>12. ASSUME NEW c \in CPU, NEW p \in Slot, Sleep(c, p)
      PROVE  TypeParts'
  <2>1. CpuType'
    <3>1. LockType'
      BY <1>12, LockStep, FlagType DEF Sleep
    <3> QED
      BY <1>12, <3>1 DEF Sleep, CpuType
  <2>2. TabType'
    BY <1>12 DEF Sleep, TabType, ProcState
  <2>3. CtxType'
    <3>1. "sleep" \in Context
      BY DEF Context
    <3> QED
      BY <1>12, <2>1, <3>1, EnterSchedType DEF Sleep, CpuType, LockType
  <2>4. MemType'
    BY <1>12, MemFrame DEF Sleep
  <2> QED
    BY <2>1, <2>2, <2>3, <2>4 DEF TypeParts
<1>13. ASSUME NEW c \in CPU, NEW p \in Slot, SleepDone(c, p)
      PROVE  TypeParts'
  <2>1. CpuType'
    BY <1>13, CpuFrame DEF SleepDone
  <2>2. TabType'
    BY <1>13 DEF SleepDone, TabType
  <2>3. CtxType'
    BY <1>13 DEF SleepDone, Goto, CtxType, Location
  <2>4. MemType'
    BY <1>13, MemFrame DEF SleepDone
  <2> QED
    BY <2>1, <2>2, <2>3, <2>4 DEF TypeParts
<1>14. ASSUME NEW c \in CPU, NEW p \in Slot, ForkAlloc(c, p)
      PROVE  TypeParts'
  <2>1. CpuType'
    BY <1>14, CpuFrame DEF ForkAlloc
  <2>2. TabType'
    <3>1. CASE UNCHANGED <<state, pid, nextpid, np>>
      BY <1>14, <3>1 DEF ForkAlloc, TabType
    <3>2. ASSUME NEW s \in Slot, state' = [state EXCEPT ![s] = "EMBRYO"], AllocPid(s),
                 np' = [np EXCEPT ![p] = s]
          PROVE  TabType'
      BY <1>14, <3>2 DEF ForkAlloc, TabType, AllocPid, ProcState
    <3> QED
      BY <1>14, <3>1, <3>2, Zenon DEF ForkAlloc
  <2>3. CtxType'
    BY <1>14, Zenon DEF ForkAlloc, Goto, CtxType, Location
  <2>4. MemType'
    BY <1>14, MemFrame DEF ForkAlloc
  <2> QED
    BY <2>1, <2>2, <2>3, <2>4 DEF TypeParts
<1>15. ASSUME NEW c \in CPU, NEW p \in Slot, ForkKstack(c, p)
      PROVE  TypeParts'
  <2>1. CpuType'
    BY <1>15, CpuFrame DEF ForkKstack
  <2>2. TabType'
    BY <1>15 DEF ForkKstack, TabType, ProcState
  <2>3. CtxType'
    <3>1. context' \in [Slot -> Context]
      BY <1>15 DEF ForkKstack, CtxType, Context
    <3>2. loc' \in [Slot -> Location]
      BY <1>15 DEF ForkKstack, Goto, CtxType, Location, Syscall
    <3> QED
      BY <1>15, <3>1, <3>2 DEF ForkKstack, CtxType
  <2>4. MemType'
    <3>1. freepages' \in Nat
      BY <1>15 DEF ForkKstack, MemType
    <3>2. kstack' \in [Slot -> BOOLEAN]
      BY <1>15, Zenon DEF ForkKstack, MemType
    <3> QED
      BY <1>15, <3>1, <3>2 DEF ForkKstack, MemType
  <2> QED
    BY <2>1, <2>2, <2>3, <2>4 DEF TypeParts
<1>16. ASSUME NEW c \in CPU, NEW p \in Slot, ForkCopy(c, p)
      PROVE  TypeParts'
  <2>1. CpuType'
    BY <1>16, CpuFrame DEF ForkCopy
  <2>2. TabType'
    BY <1>16 DEF ForkCopy, TabType, ProcState
  <2>3. CtxType'
    BY <1>16 DEF ForkCopy, Goto, CtxType, Location
  <2>4. MemType'
    <3>1. freepages' \in Nat
      BY <1>16 DEF ForkCopy, FreeKstack, MemType
    <3>2. kstack' \in [Slot -> BOOLEAN]
      BY <1>16, Zenon DEF ForkCopy, FreeKstack, MemType
    <3> QED
      BY <1>16, <3>1, <3>2 DEF ForkCopy, MemType
  <2> QED
    BY <2>1, <2>2, <2>3, <2>4 DEF TypeParts
<1>17. ASSUME NEW c \in CPU, NEW p \in Slot, ForkRun(c, p)
      PROVE  TypeParts'
  <2>1. CpuType'
    BY <1>17, CpuFrame DEF ForkRun
  <2>2. TabType'
    BY <1>17, Zenon DEF ForkRun, TabType, ProcState
  <2>3. CtxType'
    BY <1>17 DEF ForkRun, Goto, CtxType, Location
  <2>4. MemType'
    BY <1>17, MemFrame DEF ForkRun
  <2> QED
    BY <2>1, <2>2, <2>3, <2>4 DEF TypeParts
<1>18. ASSUME NEW c \in CPU, NEW p \in Slot, Exit(c, p)
      PROVE  TypeParts'
  <2>1. CpuType'
    <3>1. LockType'
      BY <1>18, LockStep, FlagType DEF Exit
    <3> QED
      BY <1>18, <3>1 DEF Exit, CpuType
  <2>2. TabType'
    <3>1. state' \in [Slot -> ProcState]
      BY <1>18 DEF Exit, TabType, ProcState, ExitWakeups, wakeup1
    <3>2. parent' \in [Slot -> Slot \cup {NULL}]
      BY <1>18, InitSlot DEF Exit, TabType, Reparented
    <3> QED
      BY <1>18, <3>1, <3>2 DEF Exit, TabType
  <2>3. CtxType'
    <3>1. "zombie" \in Context
      BY DEF Context
    <3> QED
      BY <1>18, <2>1, <3>1, EnterSchedType DEF Exit, CpuType, LockType
  <2>4. MemType'
    BY <1>18, MemFrame DEF Exit
  <2> QED
    BY <2>1, <2>2, <2>3, <2>4 DEF TypeParts
<1>19. ASSUME NEW c \in CPU, NEW p \in Slot, WaitReap(c, p)
      PROVE  TypeParts'
  <2>1. CpuType'
    <3>1. LockType'
      BY <1>19, LockStep, FlagType DEF WaitReap
    <3> QED
      BY <1>19, <3>1 DEF WaitReap, CpuType
  <2>2. TabType'
    BY <1>19 DEF WaitReap, TabType, ProcState
  <2>3. CtxType'
    BY <1>19 DEF WaitReap, LeaveSched, Goto, CtxType, Context, Location
  <2>4. MemType'
    BY <1>19 DEF WaitReap, MemType
  <2> QED
    BY <2>1, <2>2, <2>3, <2>4 DEF TypeParts
<1>20. ASSUME NEW c \in CPU, NEW p \in Slot, WaitFail(c, p)
      PROVE  TypeParts'
  <2>1. CpuType'
    <3>1. LockType'
      BY <1>20, LockStep, FlagType DEF WaitFail
    <3> QED
      BY <1>20, <3>1 DEF WaitFail, CpuType
  <2>2. TabType'
    BY <1>20 DEF WaitFail, TabType
  <2>3. CtxType'
    BY <1>20 DEF WaitFail, LeaveSched, Goto, CtxType, Context, Location
  <2>4. MemType'
    BY <1>20, MemFrame DEF WaitFail
  <2> QED
    BY <2>1, <2>2, <2>3, <2>4 DEF TypeParts
<1>21. ASSUME NEW c \in CPU, NEW p \in Slot, WaitSleep(c, p)
      PROVE  TypeParts'
  <2>1. CpuType'
    <3>1. LockType'
      BY <1>21, LockStep, FlagType DEF WaitSleep
    <3> QED
      BY <1>21, <3>1 DEF WaitSleep, CpuType
  <2>2. TabType'
    BY <1>21 DEF WaitSleep, TabType, ProcState
  <2>3. CtxType'
    <3>1. "wait" \in Context
      BY DEF Context
    <3> QED
      BY <1>21, <2>1, <3>1, EnterSchedType DEF WaitSleep, CpuType, LockType
  <2>4. MemType'
    BY <1>21, MemFrame DEF WaitSleep
  <2> QED
    BY <2>1, <2>2, <2>3, <2>4 DEF TypeParts
<1>22. ASSUME NEW c \in CPU, NEW p \in Slot, Kill(c, p)
      PROVE  TypeParts'
  <2>1. CpuType'
    BY <1>22, CpuFrame, Zenon DEF Kill
  <2>2. TabType'
    <3>1. \A s \in Slot : Unblocked(state[s]) \in ProcState
      BY DEF TabType, Unblocked, ProcState
    <3> QED
      BY <1>22, <3>1, Zenon DEF Kill, TabType
  <2>3. CtxType'
    BY <1>22 DEF Kill, Goto, CtxType, Location
  <2>4. MemType'
    BY <1>22, MemFrame DEF Kill
  <2> QED
    BY <2>1, <2>2, <2>3, <2>4 DEF TypeParts
<1>23. ASSUME NEW c \in CPU, NEW p \in Slot, InterruptExit(c, p)
      PROVE  TypeParts'
  <2>1. CpuType'
    BY <1>23 DEF InterruptExit, CpuType, LockType
  <2>2. TabType'
    BY <1>23 DEF InterruptExit, TabType
  <2>3. CtxType'
    BY <1>23 DEF InterruptExit, Goto, CtxType, Location, Syscall
  <2>4. MemType'
    BY <1>23, MemFrame, Zenon DEF InterruptExit
  <2> QED
    BY <2>1, <2>2, <2>3, <2>4 DEF TypeParts
<1>24. ASSUME NEW c \in CPU, NEW p \in Slot, Yield(c, p)
      PROVE  TypeParts'
  <2>1. CpuType'
    <3>1. LockType'
      BY <1>24, LockStep, FlagType DEF Yield
    <3> QED
      BY <1>24, <3>1 DEF Yield, CpuType
  <2>2. TabType'
    BY <1>24 DEF Yield, TabType, ProcState
  <2>3. CtxType'
    <3>1. "yield" \in Context
      BY DEF Context
    <3> QED
      BY <1>24, <2>1, <3>1, EnterSchedType DEF Yield, CpuType, LockType
  <2>4. MemType'
    BY <1>24, MemFrame DEF Yield
  <2> QED
    BY <2>1, <2>2, <2>3, <2>4 DEF TypeParts
<1>25. ASSUME Wakeup
      PROVE  TypeParts'
  <2>1. CpuType'
    BY <1>25, CpuFrame DEF Wakeup
  <2>2. TabType'
    BY <1>25 DEF Wakeup, wakeup1, TabType, ProcState
  <2>3. CtxType'
    BY <1>25 DEF Wakeup, CtxType
  <2>4. MemType'
    BY <1>25, MemFrame DEF Wakeup
  <2> QED
    BY <2>1, <2>2, <2>3, <2>4 DEF TypeParts
<1>26. ASSUME NEW p \in Slot, PanicLoop(p)
      PROVE  TypeParts'
  BY <1>26, ProcFrame, MemFrame, CpuFrame DEF PanicLoop, vars, TypeParts
<1>27. CASE UNCHANGED vars
  BY <1>27, ProcFrame, MemFrame, CpuFrame DEF vars, TypeParts
<1> QED
  BY <1>1, <1>2, <1>3, <1>4, <1>5, <1>6, <1>7, <1>8, <1>9, <1>10, <1>11, <1>12, <1>13, <1>14,
     <1>15, <1>16, <1>17, <1>18, <1>19, <1>20, <1>21, <1>22, <1>23, <1>24, <1>25, <1>26, <1>27, Zenon
     DEF Next, Scheduler, Return, KernelStep, Tick

\* Type correctness of the process table, the CPUs and the page pool.
THEOREM TypeCorrect == Spec => []TypeOK
<1>1. Init => TypeOK
  BY NPROCAssumption, NPAGESAssumption
     DEF Init, TypeOK, Slot, initproc, ProcState, Location, Syscall, Context
<1> QED
  BY <1>1, TypeStep, PTL DEF Spec
=============================================================================
