-------------------------- MODULE ProcTable_proofs --------------------------
(***************************************************************************)
(* Every step keeps SlotInv and ForkInv: what the slots of the process     *)
(* table hold, through allocproc(), fork(), exit() and wait().             *)
(***************************************************************************)
EXTENDS ProcSched_proofs

\* The states of the slots stay consistent with their resources.
LEMMA SlotStep ==
  ASSUME TypeOK, CpuInv, SlotInv, ForkInv, CliInv, [Next]_vars
  PROVE  SlotInv'
<1>0. Domains
  BY TypeDomains
<1> USE <1>0, NullAssumption DEF Domains, SlotInv, Alive, procVars, memVars, cpuVars, cliVars, Goto
<1>1. ASSUME NEW c \in CPU, SchedAcquire(c)
      PROVE  SlotInv'
  BY <1>1, InitSlot DEF SchedAcquire
<1>2. ASSUME NEW c \in CPU, SchedRun(c)
      PROVE  SlotInv'
  BY <1>2, InitSlot DEF SchedRun, IsFirst
<1>3. ASSUME NEW c \in CPU, SchedRelease(c)
      PROVE  SlotInv'
  BY <1>3, InitSlot DEF SchedRelease
<1>4. ASSUME NEW c \in CPU, Swtch(c)
      PROVE  SlotInv'
  BY <1>4, InitSlot DEF Swtch
<1>5. ASSUME NEW c \in CPU, InitExit(c)
      PROVE  SlotInv'
  BY <1>5, InitSlot DEF InitExit
<1>6. ASSUME NEW c \in CPU, NEW p \in Slot, Forkret(c, p)
      PROVE  SlotInv'
  BY <1>6, InitSlot DEF Forkret, Resumed, LeaveSched
<1>7. ASSUME NEW c \in CPU, NEW p \in Slot, YieldReturn(c, p)
      PROVE  SlotInv'
  BY <1>7, InitSlot DEF YieldReturn, Resumed, LeaveSched
<1>8. ASSUME NEW c \in CPU, NEW p \in Slot, SleepReturn(c, p)
      PROVE  SlotInv'
  BY <1>8, InitSlot DEF SleepReturn, Resumed, LeaveSched
<1>9. ASSUME NEW c \in CPU, NEW p \in Slot, Trap(c, p)
      PROVE  SlotInv'
  <2>1. /\ loc[p] = "user"
        /\ UNCHANGED <<state, pid, parent, chan, killed, context, np, saved, memVars, cpuVars, nextpid>>
    BY <1>9, TrapGoto
  <2>2. PICK l \in Syscall : loc' = [loc EXCEPT ![p] = l]
    BY <1>9, TrapGoto
  <2> QED
    BY <2>1, <2>2 DEF Syscall
<1>10. ASSUME NEW c \in CPU, NEW p \in Slot, Fault(c, p)
      PROVE  SlotInv'
  BY <1>10, InitSlot DEF Fault, Runs
<1>11. ASSUME NEW c \in CPU, NEW p \in Slot, SysReturn(c, p)
      PROVE  SlotInv'
  BY <1>11, InitSlot DEF SysReturn
<1>12. ASSUME NEW c \in CPU, NEW p \in Slot, Sleep(c, p)
      PROVE  SlotInv'
  <2>1. Sched(c, p, "sleep", intr[c]) /\ plock = NULL
    BY <1>12, SleepSched
  <2> QED
    BY <1>12, <2>1, InitSlot DEF Sleep, Runs, Sched
<1>13. ASSUME NEW c \in CPU, NEW p \in Slot, SleepDone(c, p)
      PROVE  SlotInv'
  BY <1>13, InitSlot DEF SleepDone
<1>14. ASSUME NEW c \in CPU, NEW p \in Slot, ForkAlloc(c, p)
      PROVE  SlotInv'
  BY <1>14, InitSlot DEF ForkAlloc, Runs, IsFirst
<1>15. ASSUME NEW c \in CPU, NEW p \in Slot, ForkKstack(c, p)
      PROVE  SlotInv'
  BY <1>15, InitSlot DEF ForkKstack, Runs, ForkInv, ForkOwns, InFork
<1>16. ASSUME NEW c \in CPU, NEW p \in Slot, ForkCopy(c, p)
      PROVE  SlotInv'
  <2>1. /\ np[p] \in Slot /\ state[np[p]] = "EMBRYO" /\ state[p] = "RUNNING"
        /\ np[p] # initproc
    BY <1>16, InitSlot DEF ForkCopy, Runs, ForkInv, ForkOwns, InFork
  <2>2. CASE /\ pgdir' = [pgdir EXCEPT ![np[p]] = "valid"]
             /\ parent' = [parent EXCEPT ![np[p]] = p]
             /\ loc' = [loc EXCEPT ![p] = "fork_run"]
             /\ UNCHANGED <<state, kstack, context>>
    <3>1. loc[p] = "fork_copy"
      BY <1>16 DEF ForkCopy
    <3> QED
      BY <2>1, <2>2, <3>1, InitSlot
  <2>3. CASE /\ kstack' = [kstack EXCEPT ![np[p]] = FALSE]
             /\ pgdir' = [pgdir EXCEPT ![np[p]] = "null"]
             /\ state' = [state EXCEPT ![np[p]] = "UNUSED"]
             /\ loc' = [loc EXCEPT ![p] = "sysret"]
             /\ UNCHANGED <<parent, context>>
    <3>1. loc[p] = "fork_copy" /\ parent[np[p]] = NULL
      BY <1>16 DEF ForkCopy, ForkInv, ForkOwns, InFork
    <3> QED
      BY <2>1, <2>3, <3>1, InitSlot
  <2> QED
    BY <1>16, <2>2, <2>3 DEF ForkCopy, FreeKstack
<1>17. ASSUME NEW c \in CPU, NEW p \in Slot, ForkRun(c, p)
      PROVE  SlotInv'
  BY <1>17, InitSlot DEF ForkRun, Runs, ForkInv, ForkOwns, InFork
<1>18. ASSUME NEW c \in CPU, NEW p \in Slot, Exit(c, p)
      PROVE  SlotInv'
  <2>1. /\ state[p] = "RUNNING" /\ p # initproc
        /\ UNCHANGED <<loc, kstack, pgdir>>
        /\ context' = [context EXCEPT ![p] = "zombie"]
    <3>1. Sched(c, p, "zombie", intr[c])
      BY <1>18, ExitSched
    <3> QED
      BY <1>18, <3>1 DEF Exit, Runs, Sched
  <2>2. /\ \A s \in Slot \ {p} : \/ state'[s] = state[s]
                                 \/ state[s] = "SLEEPING" /\ state'[s] = "RUNNABLE"
        /\ state'[p] = "ZOMBIE"
    BY <1>18 DEF Exit, ExitWakeups, wakeup1
  <2>3. \A s \in Slot : parent'[s] = IF parent[s] = p THEN initproc ELSE parent[s]
    BY <1>18 DEF Exit, Reparented
  <2>4. state'[initproc] \in Alive /\ parent'[initproc] = NULL
    BY <2>1, <2>2, <2>3, InitSlot
  <2>5. \A s \in Slot : parent'[s] # s
    BY <2>3, InitSlot
  <2>6. \A s \in Slot : state'[s] = "UNUSED" => state[s] = "UNUSED" /\ parent'[s] = NULL
    <3>1. \A s \in Slot : state'[s] = "UNUSED" => state[s] = "UNUSED"
      BY <2>2
    <3>2. \A s \in Slot : state[s] = "UNUSED" => parent[s] = NULL /\ NULL # p
      OBVIOUS
    <3> QED
      BY <2>3, <3>1, <3>2
  <2>7. \A s \in Slot : state'[s] \in Alive => state[s] \in Alive /\ s # p
    BY <2>2
  <2>8. \A s \in Slot : state'[s] \in Alive \cup {"ZOMBIE"} => state[s] \in Alive \cup {"ZOMBIE"}
    BY <2>1, <2>2
  <2> QED
    BY <2>1, <2>4, <2>5, <2>6, <2>7, <2>8
<1>19. ASSUME NEW c \in CPU, NEW p \in Slot, WaitReap(c, p)
      PROVE  SlotInv'
  BY <1>19, InitSlot DEF WaitReap, LeaveSched, InWait, Runs, Resumed, IsFirst, ZombieChildren
<1>20. ASSUME NEW c \in CPU, NEW p \in Slot, WaitFail(c, p)
      PROVE  SlotInv'
  BY <1>20, InitSlot DEF WaitFail, LeaveSched, InWait, Runs, Resumed
<1>21. ASSUME NEW c \in CPU, NEW p \in Slot, WaitSleep(c, p)
      PROVE  SlotInv'
  <2>1. Sched(c, p, "wait", IF plock = c THEN saved[p] ELSE intr[c])
    BY <1>21, WaitSched
  <2> QED
    BY <1>21, <2>1, InitSlot DEF WaitSleep, InWait, Runs, Resumed, Sched
<1>22. ASSUME NEW c \in CPU, NEW p \in Slot, Kill(c, p)
      PROVE  SlotInv'
  BY <1>22, InitSlot DEF Kill, IsFirst, Unblocked
<1>23. ASSUME NEW c \in CPU, NEW p \in Slot, InterruptExit(c, p)
      PROVE  SlotInv'
  BY <1>23, InitSlot DEF InterruptExit
<1>24. ASSUME NEW c \in CPU, NEW p \in Slot, Yield(c, p)
      PROVE  SlotInv'
  <2>1. Sched(c, p, "yield", 0) /\ plock = NULL
    BY <1>24, YieldSched
  <2> QED
    BY <1>24, <2>1, InitSlot DEF Yield, Runs, Sched
<1>25. ASSUME Wakeup
      PROVE  SlotInv'
  BY <1>25, InitSlot DEF Wakeup, wakeup1
<1>26. ASSUME NEW p \in Slot, PanicLoop(p)
      PROVE  SlotInv'
  <2>1. UNCHANGED vars
    BY <1>26 DEF PanicLoop
  <2> QED
    BY <2>1 DEF vars
<1>27. CASE UNCHANGED vars
  BY <1>27 DEF vars
<1> HIDE DEF Domains, SlotInv, Alive, procVars, memVars, cpuVars, cliVars, Goto
<1> QED
  BY <1>1, <1>2, <1>3, <1>4, <1>5, <1>6, <1>7, <1>8, <1>9, <1>10, <1>11, <1>12, <1>13, <1>14,
     <1>15, <1>16, <1>17, <1>18, <1>19, <1>20, <1>21, <1>22, <1>23, <1>24, <1>25, <1>26, <1>27, Zenon
     DEF Next, Scheduler, Return, KernelStep, Tick

\* A step of others: it leaves the EMBRYO slots alone, and so do the processes in
\* the middle of fork().
ForkUntouched ==
  /\ \A s \in Slot : state[s] = "EMBRYO" =>
       /\ state'[s] = "EMBRYO" /\ kstack'[s] = kstack[s] /\ pgdir'[s] = pgdir[s]
       /\ parent'[s] = parent[s] /\ context'[s] = context[s]
  /\ \A q \in Slot : loc'[q] \in InFork =>
       /\ loc'[q] = loc[q] /\ np'[q] = np[q]
       /\ state[q] \in {"RUNNING", "RUNNABLE"} => state'[q] \in {"RUNNING", "RUNNABLE"}

\* Such a step keeps ForkInv.
LEMMA ForkFrame ==
  ASSUME ForkInv, ForkUntouched
  PROVE  ForkInv'
<1>1. ASSUME NEW q \in Slot, loc'[q] \in InFork
      PROVE  ForkOwns(q)'
  <2>1. /\ loc'[q] = loc[q] /\ np'[q] = np[q] /\ ForkOwns(q)
        /\ state[q] \in {"RUNNING", "RUNNABLE"} => state'[q] \in {"RUNNING", "RUNNABLE"}
    BY <1>1 DEF ForkInv, ForkUntouched
  <2>2. np[q] \in Slot /\ state[np[q]] = "EMBRYO"
    BY <2>1 DEF ForkOwns
  <2>3. /\ state'[np[q]] = "EMBRYO" /\ kstack'[np[q]] = kstack[np[q]] /\ pgdir'[np[q]] = pgdir[np[q]]
        /\ parent'[np[q]] = parent[np[q]] /\ context'[np[q]] = context[np[q]]
    BY <2>2 DEF ForkUntouched
  <2> QED
    BY <2>1, <2>2, <2>3 DEF ForkOwns
<1>2. ASSUME NEW q \in Slot, NEW r \in Slot, loc'[q] \in InFork, loc'[r] \in InFork, np'[q] = np'[r]
      PROVE  q = r
  BY <1>2 DEF ForkInv, ForkUntouched
<1> QED
  BY <1>1, <1>2 DEF ForkInv

\* fork() owns its embryo until it is RUNNABLE or given back.
LEMMA ForkStep ==
  ASSUME TypeOK, CpuInv, SlotInv, ForkInv, CliInv, [Next]_vars
  PROVE  ForkInv'
<1>0. Domains
  BY TypeDomains
<1> USE <1>0, NullAssumption DEF Domains, ForkInv, ForkOwns, InFork, Alive, procVars, memVars, cpuVars, cliVars, Goto
<1>1. ASSUME NEW c \in CPU, SchedAcquire(c)
      PROVE  ForkInv'
  <2> HIDE DEF ForkInv, ForkOwns
  <2>1. ForkUntouched
    BY <1>1 DEF ForkUntouched, SchedAcquire
  <2> QED
    BY <2>1, ForkFrame
<1>2. ASSUME NEW c \in CPU, SchedRun(c)
      PROVE  ForkInv'
  <2> HIDE DEF ForkInv, ForkOwns
  <2>1. ForkUntouched
    BY <1>2 DEF ForkUntouched, SchedRun, IsFirst
  <2> QED
    BY <2>1, ForkFrame
<1>3. ASSUME NEW c \in CPU, SchedRelease(c)
      PROVE  ForkInv'
  <2> HIDE DEF ForkInv, ForkOwns
  <2>1. ForkUntouched
    BY <1>3 DEF ForkUntouched, SchedRelease
  <2> QED
    BY <2>1, ForkFrame
<1>4. ASSUME NEW c \in CPU, Swtch(c)
      PROVE  ForkInv'
  <2> HIDE DEF ForkInv, ForkOwns
  <2>1. ForkUntouched
    BY <1>4 DEF ForkUntouched, Swtch
  <2> QED
    BY <2>1, ForkFrame
<1>5. ASSUME NEW c \in CPU, InitExit(c)
      PROVE  ForkInv'
  <2>1. /\ loc[initproc] = "exit" /\ loc' = [loc EXCEPT ![initproc] = "initexit"]
        /\ UNCHANGED <<state, np, kstack, pgdir, parent, context>>
    BY <1>5 DEF InitExit
  <2>8. ASSUME NEW q \in Slot, loc'[q] \in InFork
        PROVE  ForkOwns(q)'
    BY <2>1, <2>8, InitSlot
  <2>9. ASSUME NEW q \in Slot, NEW r \in Slot, loc'[q] \in InFork, loc'[r] \in InFork, np'[q] = np'[r]
        PROVE  q = r
    BY <2>1, <2>9, InitSlot
  <2> QED
    BY <2>8, <2>9
<1>6. ASSUME NEW c \in CPU, NEW p \in Slot, Forkret(c, p)
      PROVE  ForkInv'
  <2> HIDE DEF ForkInv, ForkOwns
  <2>1. ForkUntouched
    BY <1>6 DEF ForkUntouched, Forkret, Resumed, LeaveSched
  <2> QED
    BY <2>1, ForkFrame
<1>7. ASSUME NEW c \in CPU, NEW p \in Slot, YieldReturn(c, p)
      PROVE  ForkInv'
  <2> HIDE DEF ForkInv, ForkOwns
  <2>1. ForkUntouched
    BY <1>7 DEF ForkUntouched, YieldReturn, Resumed, LeaveSched
  <2> QED
    BY <2>1, ForkFrame
<1>8. ASSUME NEW c \in CPU, NEW p \in Slot, SleepReturn(c, p)
      PROVE  ForkInv'
  <2> HIDE DEF ForkInv, ForkOwns
  <2>1. ForkUntouched
    BY <1>8 DEF ForkUntouched, SleepReturn, Resumed, LeaveSched
  <2> QED
    BY <2>1, ForkFrame
<1>9. ASSUME NEW c \in CPU, NEW p \in Slot, Trap(c, p)
      PROVE  ForkInv'
  <2>1. /\ loc[p] = "user"
        /\ UNCHANGED <<state, pid, parent, chan, killed, context, np, saved, memVars, cpuVars, nextpid>>
    BY <1>9, TrapGoto
  <2>2. PICK l \in Syscall : loc' = [loc EXCEPT ![p] = l]
    BY <1>9, TrapGoto
  <2> QED
    BY <2>1, <2>2 DEF Syscall
<1>10. ASSUME NEW c \in CPU, NEW p \in Slot, Fault(c, p)
      PROVE  ForkInv'
  <2> HIDE DEF ForkInv, ForkOwns
  <2>1. ForkUntouched
    BY <1>10 DEF ForkUntouched, Fault, Runs
  <2> QED
    BY <2>1, ForkFrame
<1>11. ASSUME NEW c \in CPU, NEW p \in Slot, SysReturn(c, p)
      PROVE  ForkInv'
  <2> HIDE DEF ForkInv, ForkOwns
  <2>1. ForkUntouched
    BY <1>11 DEF ForkUntouched, SysReturn
  <2> QED
    BY <2>1, ForkFrame
<1>12. ASSUME NEW c \in CPU, NEW p \in Slot, Sleep(c, p)
      PROVE  ForkInv'
  <2> HIDE DEF ForkInv, ForkOwns
  <2>1. ForkUntouched
    <3>1. Sched(c, p, "sleep", intr[c])
      BY <1>12, SleepSched
    <3>2. state[p] = "RUNNING" /\ loc[p] \in {"sleep", "exit"}
      BY <1>12 DEF Sleep, Runs
    <3>3. state' = [state EXCEPT ![p] = "SLEEPING"] /\ UNCHANGED <<np, parent, memVars>>
      BY <1>12, Zenon DEF Sleep
    <3> QED
      BY <3>1, <3>2, <3>3 DEF ForkUntouched, Sched
  <2> QED
    BY <2>1, ForkFrame
<1>13. ASSUME NEW c \in CPU, NEW p \in Slot, SleepDone(c, p)
      PROVE  ForkInv'
  <2> HIDE DEF ForkInv, ForkOwns
  <2>1. ForkUntouched
    BY <1>13 DEF ForkUntouched, SleepDone
  <2> QED
    BY <2>1, ForkFrame
<1>14. ASSUME NEW c \in CPU, NEW p \in Slot, ForkAlloc(c, p)
      PROVE  ForkInv'
  <2>1. CASE \A s \in Slot : state[s] # "UNUSED"
    <3> HIDE DEF ForkInv, ForkOwns
    <3>1. /\ UNCHANGED <<state, np, parent, context, kstack, pgdir>>
          /\ loc' = [loc EXCEPT ![p] = "sysret"]
      BY <1>14, <2>1 DEF ForkAlloc, IsFirst, memVars
    <3>2. ForkUntouched
      BY <3>1 DEF ForkUntouched
    <3> QED
      BY <3>2, ForkFrame
  <2>2. ASSUME NEW s \in Slot, state[s] = "UNUSED",
               state' = [state EXCEPT ![s] = "EMBRYO"],
               np' = [np EXCEPT ![p] = s],
               loc' = [loc EXCEPT ![p] = "fork_kstack"]
        PROVE  ForkInv'
    <3>1. /\ state[p] = "RUNNING" /\ loc[p] = "fork"
          /\ UNCHANGED <<parent, context, kstack, pgdir>>
      BY <1>14 DEF ForkAlloc, Runs
    <3>2. ASSUME NEW q \in Slot, loc'[q] \in InFork
          PROVE  ForkOwns(q)'
      <4>1. CASE q = p
        BY <2>2, <3>1, <4>1 DEF SlotInv
      <4>2. CASE q # p
        BY <2>2, <3>1, <3>2, <4>2
      <4> QED
        BY <4>1, <4>2, Zenon
    <3>3. ASSUME NEW q \in Slot, NEW r \in Slot,
                 loc'[q] \in InFork, loc'[r] \in InFork, np'[q] = np'[r]
          PROVE  q = r
      BY <2>2, <3>1, <3>3
    <3> QED
      BY <3>2, <3>3
  <2> QED
    BY <1>14, <2>1, <2>2 DEF ForkAlloc, IsFirst
<1>15. ASSUME NEW c \in CPU, NEW p \in Slot, ForkKstack(c, p)
      PROVE  ForkInv'
  <2>1. loc[p] = "fork_kstack"
    BY <1>15, Zenon DEF ForkKstack
  <2>2. ForkOwns(p) /\ p # np[p]
    BY <2>1
  <2>3. \A q \in Slot : q # p /\ loc[q] \in InFork => q # np[p] /\ np[q] # np[p] /\ np[q] # p
    BY <2>1, <2>2
  <2> DEFINE Done == /\ kstack' = [kstack EXCEPT ![np[p]] = TRUE]
                     /\ context' = [context EXCEPT ![np[p]] = "forkret"]
                     /\ loc' = [loc EXCEPT ![p] = "fork_copy", ![np[p]] = "user"]
                     /\ UNCHANGED <<state, np, parent, pgdir>>
             Failed == /\ kstack' = [kstack EXCEPT ![np[p]] = FALSE]
                       /\ state' = [state EXCEPT ![np[p]] = "UNUSED"]
                       /\ np' = [np EXCEPT ![p] = NULL]
                       /\ loc' = [loc EXCEPT ![p] = "sysret"]
                       /\ UNCHANGED <<context, parent, pgdir>>
  <2>4. Done \/ Failed
    BY <1>15 DEF ForkKstack
  <2>5. CASE Done
    <3>1. ASSUME NEW q \in Slot, loc'[q] \in InFork
          PROVE  ForkOwns(q)'
      <4>1. CASE q = p
        BY <2>1, <2>2, <2>5, <4>1
      <4>2. CASE q # p
        BY <2>2, <2>3, <2>5, <3>1, <4>2
      <4> QED
        BY <4>1, <4>2
    <3>2. ASSUME NEW q \in Slot, NEW r \in Slot, loc'[q] \in InFork, loc'[r] \in InFork, np'[q] = np'[r]
          PROVE  q = r
      <4>1. loc[q] \in InFork /\ loc[r] \in InFork /\ np[q] = np[r]
        BY <2>1, <2>2, <2>5, <3>2, Zenon
      <4> QED
        BY <4>1
    <3> QED
      BY <3>1, <3>2
  <2>6. CASE Failed
    <3>1. ASSUME NEW q \in Slot, loc'[q] \in InFork
          PROVE  q # p /\ loc[q] \in InFork /\ ForkOwns(q)'
      <4>1. q # p /\ loc[q] \in InFork /\ loc'[q] = loc[q]
        BY <2>6, <3>1
      <4> QED
        BY <2>2, <2>3, <2>6, <4>1
    <3>2. ASSUME NEW q \in Slot, NEW r \in Slot, loc'[q] \in InFork, loc'[r] \in InFork, np'[q] = np'[r]
          PROVE  q = r
      <4>1. q # p /\ r # p /\ loc[q] \in InFork /\ loc[r] \in InFork
        BY <3>1, <3>2, Zenon
      <4>2. np[q] = np[r]
        BY <2>6, <3>2, <4>1
      <4> QED
        BY <4>1, <4>2
    <3> QED
      BY <3>1, <3>2
  <2> QED
    BY <2>4, <2>5, <2>6
<1>16. ASSUME NEW c \in CPU, NEW p \in Slot, ForkCopy(c, p)
      PROVE  ForkInv'
  <2>1. loc[p] = "fork_copy"
    BY <1>16, Zenon DEF ForkCopy
  <2>2. ForkOwns(p) /\ p # np[p]
    BY <2>1
  <2>3. \A q \in Slot : q # p /\ loc[q] \in InFork => q # np[p] /\ np[q] # np[p] /\ np[q] # p
    BY <2>1, <2>2
  <2> DEFINE Done == /\ pgdir' = [pgdir EXCEPT ![np[p]] = "valid"]
                     /\ parent' = [parent EXCEPT ![np[p]] = p]
                     /\ loc' = [loc EXCEPT ![p] = "fork_run"]
                     /\ UNCHANGED <<state, np, kstack, context>>
             Failed == /\ kstack' = [kstack EXCEPT ![np[p]] = FALSE]
                       /\ pgdir' = [pgdir EXCEPT ![np[p]] = "null"]
                       /\ state' = [state EXCEPT ![np[p]] = "UNUSED"]
                       /\ np' = [np EXCEPT ![p] = NULL]
                       /\ loc' = [loc EXCEPT ![p] = "sysret"]
                       /\ UNCHANGED <<context, parent>>
  <2>4. Done \/ Failed
    BY <1>16 DEF ForkCopy, FreeKstack
  <2>5. CASE Done
    <3>1. ASSUME NEW q \in Slot, loc'[q] \in InFork
          PROVE  ForkOwns(q)'
      <4>1. CASE q = p
        BY <2>1, <2>2, <2>5, <4>1
      <4>2. CASE q # p
        BY <2>2, <2>3, <2>5, <3>1, <4>2
      <4> QED
        BY <4>1, <4>2
    <3>2. ASSUME NEW q \in Slot, NEW r \in Slot, loc'[q] \in InFork, loc'[r] \in InFork, np'[q] = np'[r]
          PROVE  q = r
      <4>1. loc[q] \in InFork /\ loc[r] \in InFork /\ np[q] = np[r]
        BY <2>1, <2>2, <2>5, <3>2
      <4> QED
        BY <4>1
    <3> QED
      BY <3>1, <3>2
  <2>6. CASE Failed
    <3>1. ASSUME NEW q \in Slot, loc'[q] \in InFork
          PROVE  q # p /\ loc[q] \in InFork /\ ForkOwns(q)'
      <4>1. q # p /\ loc[q] \in InFork /\ loc'[q] = loc[q]
        BY <2>6, <3>1
      <4> QED
        BY <2>2, <2>3, <2>6, <4>1
    <3>2. ASSUME NEW q \in Slot, NEW r \in Slot, loc'[q] \in InFork, loc'[r] \in InFork, np'[q] = np'[r]
          PROVE  q = r
      <4>1. q # p /\ r # p /\ loc[q] \in InFork /\ loc[r] \in InFork
        BY <3>1, <3>2
      <4>2. np[q] = np[r]
        BY <2>6, <3>2, <4>1
      <4> QED
        BY <4>1, <4>2
    <3> QED
      BY <3>1, <3>2
  <2> QED
    BY <2>4, <2>5, <2>6, Zenon
<1>17. ASSUME NEW c \in CPU, NEW p \in Slot, ForkRun(c, p)
      PROVE  ForkInv'
  <2>1. /\ loc[p] = "fork_run" /\ state' = [state EXCEPT ![np[p]] = "RUNNABLE"]
        /\ np' = [np EXCEPT ![p] = NULL] /\ loc' = [loc EXCEPT ![p] = "sysret"]
        /\ UNCHANGED <<parent, context, kstack, pgdir>>
    BY <1>17, Zenon DEF ForkRun
  <2>2. \A q \in Slot : loc'[q] \in InFork =>
          q # p /\ loc'[q] = loc[q] /\ np'[q] = np[q] /\ np[q] # np[p]
    BY <2>1
  <2>8. ASSUME NEW q \in Slot, loc'[q] \in InFork
        PROVE  ForkOwns(q)'
    <3>1. ForkOwns(p) /\ ForkOwns(q) /\ loc'[q] = loc[q] /\ np'[q] = np[q] /\ np[q] # np[p]
      BY <2>1, <2>2, <2>8
    <3>2. q # np[p] /\ state'[q] = state[q] /\ state'[np[q]] = state[np[q]]
      BY <2>1, <3>1
    <3> QED
      BY <2>1, <3>1, <3>2
  <2>9. ASSUME NEW q \in Slot, NEW r \in Slot, loc'[q] \in InFork, loc'[r] \in InFork, np'[q] = np'[r]
        PROVE  q = r
    <3>1. loc[q] \in InFork /\ loc[r] \in InFork /\ np[q] = np[r]
      BY <2>2, <2>9, Zenon
    <3> QED
      BY <3>1
  <2> QED
    BY <2>8, <2>9
<1>18. ASSUME NEW c \in CPU, NEW p \in Slot, Exit(c, p)
      PROVE  ForkInv'
  <2>1. /\ loc[p] = "exit" /\ state[p] = "RUNNING"
        /\ UNCHANGED <<loc, np, kstack, pgdir>>
        /\ context' = [context EXCEPT ![p] = "zombie"]
    <3>1. Sched(c, p, "zombie", intr[c])
      BY <1>18, ExitSched, Zenon
    <3> QED
      BY <1>18, <3>1 DEF Exit, Runs, Sched
  <2>2. /\ \A s \in Slot \ {p} : state[s] # "SLEEPING" => state'[s] = state[s]
        /\ \A s \in Slot : parent[s] # p => parent'[s] = parent[s]
    BY <1>18, Zenon DEF Exit, ExitWakeups, wakeup1, Reparented
  <2>8. ASSUME NEW q \in Slot, loc'[q] \in InFork
        PROVE  ForkOwns(q)'
    <3>1. ForkOwns(q) /\ q # p /\ np[q] # p
      BY <2>1, <2>8, Zenon
    <3>2. state'[q] = state[q] /\ state'[np[q]] = state[np[q]]
      BY <2>2, <3>1, Zenon
    <3>a. parent[np[q]] \in {NULL, q} /\ NULL # p
      BY <2>1, <2>8, <3>1
    <3>3. parent'[np[q]] = parent[np[q]] /\ context'[np[q]] = context[np[q]]
      BY <2>1, <2>2, <3>1, <3>a
    <3> QED
      BY <2>1, <3>1, <3>2, <3>3
  <2>9. ASSUME NEW q \in Slot, NEW r \in Slot, loc'[q] \in InFork, loc'[r] \in InFork, np'[q] = np'[r]
        PROVE  q = r
    <3>1. loc[q] \in InFork /\ loc[r] \in InFork /\ np[q] = np[r]
      BY <2>1, <2>9, Zenon
    <3> QED
      BY <3>1
  <2> QED
    BY <2>8, <2>9
<1>19. ASSUME NEW c \in CPU, NEW p \in Slot, WaitReap(c, p)
      PROVE  ForkInv'
  <2> HIDE DEF ForkInv, ForkOwns
  <2>1. PICK z \in Slot :
          /\ state[z] = "ZOMBIE" /\ state' = [state EXCEPT ![z] = "UNUSED"]
          /\ kstack' = [kstack EXCEPT ![z] = FALSE] /\ pgdir' = [pgdir EXCEPT ![z] = "stale"]
          /\ parent' = [parent EXCEPT ![z] = NULL]
    BY <1>19, Zenon DEF WaitReap, IsFirst, ZombieChildren
  <2>2. /\ state[p] = "RUNNING" /\ context' = [context EXCEPT ![p] = "none"]
        /\ loc' = [loc EXCEPT ![p] = "sysret"] /\ np' = np
    BY <1>19 DEF WaitReap, LeaveSched, InWait, Runs, Resumed
  <2>3. ForkUntouched
    BY <2>1, <2>2, Zenon DEF ForkUntouched
  <2> QED
    BY <2>3, ForkFrame, Zenon
<1>20. ASSUME NEW c \in CPU, NEW p \in Slot, WaitFail(c, p)
      PROVE  ForkInv'
  <2> HIDE DEF ForkInv, ForkOwns
  <2>1. ForkUntouched
    BY <1>20 DEF ForkUntouched, WaitFail, LeaveSched, InWait, Runs, Resumed
  <2> QED
    BY <2>1, ForkFrame
<1>21. ASSUME NEW c \in CPU, NEW p \in Slot, WaitSleep(c, p)
      PROVE  ForkInv'
  <2>1. /\ loc[p] = "wait" /\ state[p] = "RUNNING"
        /\ UNCHANGED <<loc, np, kstack, pgdir, parent>>
        /\ state' = [state EXCEPT ![p] = "SLEEPING"]
        /\ context' = [context EXCEPT ![p] = "wait"]
    <3>1. Sched(c, p, "wait", IF plock = c THEN saved[p] ELSE intr[c])
      BY <1>21, WaitSched, Zenon
    <3>2. loc[p] = "wait" /\ state[p] = "RUNNING"
      BY <1>21 DEF WaitSleep, InWait, Runs, Resumed, SlotInv
    <3> QED
      BY <1>21, <3>1, <3>2 DEF WaitSleep, Sched
  <2>8. ASSUME NEW q \in Slot, loc'[q] \in InFork
        PROVE  ForkOwns(q)'
    BY <2>1, <2>8
  <2>9. ASSUME NEW q \in Slot, NEW r \in Slot, loc'[q] \in InFork, loc'[r] \in InFork, np'[q] = np'[r]
        PROVE  q = r
    BY <2>1, <2>9
  <2> QED
    BY <2>8, <2>9
<1>22. ASSUME NEW c \in CPU, NEW p \in Slot, Kill(c, p)
      PROVE  ForkInv'
  <2> HIDE DEF ForkInv, ForkOwns
  <2>1. ForkUntouched
    BY <1>22 DEF ForkUntouched, Kill, IsFirst, Unblocked
  <2> QED
    BY <2>1, ForkFrame
<1>23. ASSUME NEW c \in CPU, NEW p \in Slot, InterruptExit(c, p)
      PROVE  ForkInv'
  <2> HIDE DEF ForkInv, ForkOwns
  <2>1. ForkUntouched
    BY <1>23 DEF ForkUntouched, InterruptExit
  <2> QED
    BY <2>1, ForkFrame
<1>24. ASSUME NEW c \in CPU, NEW p \in Slot, Yield(c, p)
      PROVE  ForkInv'
  <2> HIDE DEF ForkInv, ForkOwns
  <2>1. ForkUntouched
    <3>1. Sched(c, p, "yield", 0)
      BY <1>24, YieldSched
    <3>2. state[p] = "RUNNING"
      BY <1>24 DEF Yield, Runs
    <3>3. state' = [state EXCEPT ![p] = "RUNNABLE"] /\ UNCHANGED <<np, parent, memVars>>
      BY <1>24, Zenon DEF Yield
    <3> QED
      BY <3>1, <3>2, <3>3 DEF ForkUntouched, Sched
  <2> QED
    BY <2>1, ForkFrame
<1>25. ASSUME Wakeup
      PROVE  ForkInv'
  <2> HIDE DEF ForkInv, ForkOwns
  <2>1. UNCHANGED <<loc, np, kstack, pgdir, parent, context>>
    BY <1>25 DEF Wakeup
  <2>2. \A s \in Slot : state[s] # "SLEEPING" => state'[s] = state[s]
    BY <1>25 DEF Wakeup, wakeup1
  <2>3. ForkUntouched
    BY <2>1, <2>2 DEF ForkUntouched
  <2> QED
    BY <2>3, ForkFrame
<1>26. ASSUME NEW p \in Slot, PanicLoop(p)
      PROVE  ForkInv'
  <2>1. UNCHANGED vars
    BY <1>26, Zenon DEF PanicLoop
  <2> QED
    BY <2>1, Zenon DEF vars
<1>27. CASE UNCHANGED vars
  BY <1>27 DEF vars
<1> HIDE DEF Domains, ForkInv, ForkOwns, InFork, Alive, procVars, memVars, cpuVars, cliVars, Goto
<1> QED
  BY <1>1, <1>2, <1>3, <1>4, <1>5, <1>6, <1>7, <1>8, <1>9, <1>10, <1>11, <1>12, <1>13, <1>14,
     <1>15, <1>16, <1>17, <1>18, <1>19, <1>20, <1>21, <1>22, <1>23, <1>24, <1>25, <1>26, <1>27, Zenon
     DEF Next, Scheduler, Return, KernelStep, Tick
=============================================================================
