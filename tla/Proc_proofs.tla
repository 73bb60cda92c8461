----------------------------- MODULE Proc_proofs ----------------------------
(***************************************************************************)
(* Parents, children and pids; then the inductive invariant IInv of Proc   *)
(* and the theorems that follow from it.                                   *)
(***************************************************************************)
EXTENDS ProcTable_proofs, ProcFlags_proofs

\* exit() and wait() leave no process without a living parent.
LEMMA ParentStep ==
  ASSUME TypeOK, CpuInv, SlotInv, ForkInv, ParentAlive, [Next]_vars
  PROVE  ParentAlive'
<1>0. Domains
  BY TypeDomains
<1> USE <1>0, NullAssumption DEF Domains, ParentAlive, Alive, procVars, memVars, cpuVars, cliVars, Goto
<1>1. ASSUME NEW c \in CPU, SchedAcquire(c)
      PROVE  ParentAlive'
  BY <1>1, InitSlot DEF SchedAcquire
<1>2. ASSUME NEW c \in CPU, SchedRun(c)
      PROVE  ParentAlive'
  BY <1>2, InitSlot DEF SchedRun, IsFirst
<1>3. ASSUME NEW c \in CPU, SchedRelease(c)
      PROVE  ParentAlive'
  BY <1>3, InitSlot DEF SchedRelease
<1>4. ASSUME NEW c \in CPU, Swtch(c)
      PROVE  ParentAlive'
  BY <1>4, InitSlot DEF Swtch
<1>5. ASSUME NEW c \in CPU, InitExit(c)
      PROVE  ParentAlive'
  BY <1>5, InitSlot DEF InitExit
<1>6. ASSUME NEW c \in CPU, NEW p \in Slot, Forkret(c, p)
      PROVE  ParentAlive'
  BY <1>6, InitSlot DEF Forkret, Resumed
<1>7. ASSUME NEW c \in CPU, NEW p \in Slot, YieldReturn(c, p)
      PROVE  ParentAlive'
  BY <1>7, InitSlot DEF YieldReturn, Resumed
<1>8. ASSUME NEW c \in CPU, NEW p \in Slot, SleepReturn(c, p)
      PROVE  ParentAlive'
  BY <1>8, InitSlot DEF SleepReturn, Resumed
<1>9. ASSUME NEW c \in CPU, NEW p \in Slot, Trap(c, p)
      PROVE  ParentAlive'
  BY <1>9, InitSlot DEF Trap
<1>10. ASSUME NEW c \in CPU, NEW p \in Slot, Fault(c, p)
      PROVE  ParentAlive'
  BY <1>10, InitSlot DEF Fault, Runs
<1>11. ASSUME NEW c \in CPU, NEW p \in Slot, SysReturn(c, p)
      PROVE  ParentAlive'
  BY <1>11, InitSlot DEF SysReturn
<1>12. ASSUME NEW c \in CPU, NEW p \in Slot, Sleep(c, p)
      PROVE  ParentAlive'
  BY <1>12, InitSlot DEF Sleep, Runs
<1>13. ASSUME NEW c \in CPU, NEW p \in Slot, SleepDone(c, p)
      PROVE  ParentAlive'
  BY <1>13, InitSlot DEF SleepDone
<1>14. ASSUME NEW c \in CPU, NEW p \in Slot, ForkAlloc(c, p)
      PROVE  ParentAlive'
  BY <1>14, InitSlot DEF ForkAlloc, Runs, IsFirst
<1>15. ASSUME NEW c \in CPU, NEW p \in Slot, ForkKstack(c, p)
      PROVE  ParentAlive'
  <2>1. /\ np[p] \in Slot /\ state[np[p]] = "EMBRYO" /\ state[p] = "RUNNING"
    BY <1>15 DEF ForkKstack, Runs, ForkInv, ForkOwns, InFork
  <2>2. parent' = parent /\ (state' = state \/ state' = [state EXCEPT ![np[p]] = "UNUSED"])
    BY <1>15 DEF ForkKstack
  <2> QED
    BY <2>1, <2>2
<1>16. ASSUME NEW c \in CPU, NEW p \in Slot, ForkCopy(c, p)
      PROVE  ParentAlive'
  <2>1. /\ np[p] \in Slot /\ state[np[p]] = "EMBRYO" /\ state[p] = "RUNNING"
    BY <1>16 DEF ForkCopy, Runs, ForkInv, ForkOwns, InFork
  <2>2. /\ parent' = parent \/ parent' = [parent EXCEPT ![np[p]] = p]
        /\ state' = state \/ state' = [state EXCEPT ![np[p]] = "UNUSED"]
    BY <1>16 DEF ForkCopy
  <2> QED
    BY <2>1, <2>2
<1>17. ASSUME NEW c \in CPU, NEW p \in Slot, ForkRun(c, p)
      PROVE  ParentAlive'
  <2>1. /\ np[p] \in Slot /\ state[np[p]] = "EMBRYO" /\ parent[np[p]] = p /\ state[p] = "RUNNING"
    BY <1>17 DEF ForkRun, Runs, ForkInv, ForkOwns, InFork
  <2>2. parent' = parent /\ state' = [state EXCEPT ![np[p]] = "RUNNABLE"]
    BY <1>17 DEF ForkRun
  <2> QED
    BY <2>1, <2>2
<1>18. ASSUME NEW c \in CPU, NEW p \in Slot, Exit(c, p)
      PROVE  ParentAlive'
  <2>1. state[p] = "RUNNING" /\ p # initproc
    BY <1>18 DEF Exit, Runs
  <2>2. /\ \A s \in Slot \ {p} : \/ state'[s] = state[s]
                                 \/ state[s] = "SLEEPING" /\ state'[s] = "RUNNABLE"
        /\ state'[p] = "ZOMBIE"
    BY <1>18 DEF Exit, ExitWakeups, wakeup1
  <2>3. \A s \in Slot : parent'[s] = IF parent[s] = p THEN initproc ELSE parent[s]
    BY <1>18 DEF Exit, Reparented
  <2> QED
    <3>1. state[initproc] \in Alive /\ state'[initproc] \in Alive
      BY <2>1, <2>2, InitSlot DEF SlotInv
    <3>2. \A s \in Slot : state'[s] \in Alive \cup {"ZOMBIE"} => state[s] \in Alive \cup {"ZOMBIE"}
      BY <2>1, <2>2
    <3>3. \A s \in Slot : s # p /\ state[s] \in Alive => state'[s] \in Alive
      BY <2>2
    <3> QED
      BY <2>3, <3>1, <3>2, <3>3, InitSlot
<1>19. ASSUME NEW c \in CPU, NEW p \in Slot, WaitReap(c, p)
      PROVE  ParentAlive'
  <2>1. PICK z \in Slot :
          /\ state[z] = "ZOMBIE" /\ state' = [state EXCEPT ![z] = "UNUSED"]
          /\ parent' = [parent EXCEPT ![z] = NULL]
    BY <1>19, Zenon DEF WaitReap, IsFirst, ZombieChildren
  <2> QED
    BY <2>1
<1>20. ASSUME NEW c \in CPU, NEW p \in Slot, WaitFail(c, p)
      PROVE  ParentAlive'
  BY <1>20, InitSlot DEF WaitFail, InWait, Runs, Resumed
<1>21. ASSUME NEW c \in CPU, NEW p \in Slot, WaitSleep(c, p)
      PROVE  ParentAlive'
  BY <1>21, InitSlot DEF WaitSleep, InWait, Runs, Resumed
<1>22. ASSUME NEW c \in CPU, NEW p \in Slot, Kill(c, p)
      PROVE  ParentAlive'
  BY <1>22, InitSlot DEF Kill, IsFirst, Unblocked
<1>23. ASSUME NEW c \in CPU, NEW p \in Slot, InterruptExit(c, p)
      PROVE  ParentAlive'
  BY <1>23, InitSlot DEF InterruptExit
<1>24. ASSUME NEW c \in CPU, NEW p \in Slot, Yield(c, p)
      PROVE  ParentAlive'
  BY <1>24, InitSlot DEF Yield, Runs
<1>25. ASSUME Wakeup
      PROVE  ParentAlive'
  BY <1>25, InitSlot DEF Wakeup, wakeup1
<1>26. ASSUME NEW p \in Slot, PanicLoop(p)
      PROVE  ParentAlive'
  <2>1. UNCHANGED vars
    BY <1>26 DEF PanicLoop
  <2> QED
    BY <2>1 DEF vars
<1>27. CASE UNCHANGED vars
  BY <1>27 DEF vars
<1> HIDE DEF Domains, ParentAlive, Alive, procVars, memVars, cpuVars, cliVars, Goto
<1> QED
  BY <1>1, <1>2, <1>3, <1>4, <1>5, <1>6, <1>7, <1>8, <1>9, <1>10, <1>11, <1>12, <1>13, <1>14,
     <1>15, <1>16, <1>17, <1>18, <1>19, <1>20, <1>21, <1>22, <1>23, <1>24, <1>25, <1>26, <1>27, Zenon
     DEF Next, Scheduler, Return, KernelStep, Tick

\* No order of exit(), kill(), fork() and wait() loses the wakeup of a parent.
LEMMA MissedStep ==
  ASSUME TypeOK, CpuInv, SlotInv, ForkInv, MissedInv, [Next]_vars
  PROVE  MissedInv'
<1>0. Domains
  BY TypeDomains
<1> USE <1>0, NullAssumption DEF Domains, MissedInv, procVars, memVars, cpuVars, cliVars, Goto
<1>1. ASSUME NEW c \in CPU, SchedAcquire(c)
      PROVE  MissedInv'
  BY <1>1 DEF SchedAcquire
<1>2. ASSUME NEW c \in CPU, SchedRun(c)
      PROVE  MissedInv'
  BY <1>2 DEF SchedRun, IsFirst
<1>3. ASSUME NEW c \in CPU, SchedRelease(c)
      PROVE  MissedInv'
  BY <1>3 DEF SchedRelease
<1>4. ASSUME NEW c \in CPU, Swtch(c)
      PROVE  MissedInv'
  BY <1>4 DEF Swtch
<1>5. ASSUME NEW c \in CPU, InitExit(c)
      PROVE  MissedInv'
  BY <1>5 DEF InitExit
<1>6. ASSUME NEW c \in CPU, NEW p \in Slot, Forkret(c, p)
      PROVE  MissedInv'
  BY <1>6 DEF Forkret, Resumed
<1>7. ASSUME NEW c \in CPU, NEW p \in Slot, YieldReturn(c, p)
      PROVE  MissedInv'
  BY <1>7 DEF YieldReturn, Resumed
<1>8. ASSUME NEW c \in CPU, NEW p \in Slot, SleepReturn(c, p)
      PROVE  MissedInv'
  BY <1>8 DEF SleepReturn, Resumed
<1>9. ASSUME NEW c \in CPU, NEW p \in Slot, Trap(c, p)
      PROVE  MissedInv'
  BY <1>9 DEF Trap
<1>10. ASSUME NEW c \in CPU, NEW p \in Slot, Fault(c, p)
      PROVE  MissedInv'
  BY <1>10 DEF Fault, Runs
<1>11. ASSUME NEW c \in CPU, NEW p \in Slot, SysReturn(c, p)
      PROVE  MissedInv'
  BY <1>11 DEF SysReturn
<1>12. ASSUME NEW c \in CPU, NEW p \in Slot, Sleep(c, p)
      PROVE  MissedInv'
  <2>1. PICK ch \in Chan : chan' = [chan EXCEPT ![p] = ch]
    BY <1>12, Zenon DEF Sleep
  <2>2. state' = [state EXCEPT ![p] = "SLEEPING"] /\ UNCHANGED <<parent, killed>>
    BY <1>12 DEF Sleep
  <2>3. state[p] = "RUNNING"
    BY <1>12 DEF Sleep, Runs
  <2> QED
    BY <2>1, <2>2, <2>3, ChanAssumption
<1>13. ASSUME NEW c \in CPU, NEW p \in Slot, SleepDone(c, p)
      PROVE  MissedInv'
  BY <1>13 DEF SleepDone
<1>14. ASSUME NEW c \in CPU, NEW p \in Slot, ForkAlloc(c, p)
      PROVE  MissedInv'
  BY <1>14 DEF ForkAlloc, Runs, IsFirst
<1>15. ASSUME NEW c \in CPU, NEW p \in Slot, ForkKstack(c, p)
      PROVE  MissedInv'
  <2>1. /\ np[p] \in Slot /\ state[np[p]] = "EMBRYO"
    BY <1>15 DEF ForkKstack, ForkInv, ForkOwns, InFork
  <2>2. /\ UNCHANGED <<chan, killed, parent>>
        /\ state' = state \/ state' = [state EXCEPT ![np[p]] = "UNUSED"]
    BY <1>15 DEF ForkKstack
  <2>3. \A s \in Slot : state'[s] = state[s] \/ state'[s] = "UNUSED"
    BY <2>1, <2>2
  <2> QED
    BY <2>2, <2>3
<1>16. ASSUME NEW c \in CPU, NEW p \in Slot, ForkCopy(c, p)
      PROVE  MissedInv'
  <2>1. /\ np[p] \in Slot /\ state[np[p]] = "EMBRYO" /\ parent[np[p]] = NULL
        /\ state[p] = "RUNNING"
    BY <1>16 DEF ForkCopy, Runs, ForkInv, ForkOwns, InFork
  <2>2. /\ UNCHANGED <<chan, killed>>
        /\ parent' = parent \/ parent' = [parent EXCEPT ![np[p]] = p]
        /\ state' = state \/ state' = [state EXCEPT ![np[p]] = "UNUSED"]
    BY <1>16 DEF ForkCopy
  <2>3. /\ \A q \in Slot : state'[q] = "SLEEPING" => state[q] = "SLEEPING" /\ q # p
        /\ \A s \in Slot : state'[s] = "ZOMBIE" => state[s] = "ZOMBIE" /\ s # np[p]
    BY <2>1, <2>2
  <2>4. /\ \A s \in Slot : s # np[p] => parent'[s] = parent[s]
        /\ \A q \in Slot : parent[np[p]] # q
    BY <2>1, <2>2
  <2>5. ASSUME NEW q \in Slot, state'[q] = "SLEEPING", chan'[q] = q
        PROVE  /\ \E s \in Slot : parent'[s] = q
               /\ \A s \in Slot : parent'[s] = q => state'[s] # "ZOMBIE"
               /\ ~killed'[q]
    <3>1. state[q] = "SLEEPING" /\ chan[q] = q
      BY <2>2, <2>3, <2>5
    <3>2. /\ \E s \in Slot : parent[s] = q
          /\ \A s \in Slot : parent[s] = q => state[s] # "ZOMBIE"
          /\ ~killed[q]
      BY <3>1
    <3> HIDE DEF MissedInv
    <3> QED
      BY <2>2, <2>3, <2>4, <3>2
  <2> QED
    BY <2>5
<1>17. ASSUME NEW c \in CPU, NEW p \in Slot, ForkRun(c, p)
      PROVE  MissedInv'
  <2>1. state' = [state EXCEPT ![np[p]] = "RUNNABLE"] /\ UNCHANGED <<parent, chan, killed>>
    BY <1>17 DEF ForkRun
  <2> QED
    BY <2>1
<1>18. ASSUME NEW c \in CPU, NEW p \in Slot, Exit(c, p)
      PROVE  MissedInv'
  <2>1. /\ state[p] = "RUNNING" /\ p # initproc
        /\ UNCHANGED <<chan, killed>>
    BY <1>18 DEF Exit, Runs
  <2>2. \A s \in Slot : parent'[s] = IF parent[s] = p THEN initproc ELSE parent[s]
    BY <1>18 DEF Exit, Reparented
  <2>3. ASSUME NEW q \in Slot, state'[q] = "SLEEPING", chan[q] = q
        PROVE  /\ q # p /\ state[q] = "SLEEPING"
               /\ parent[p] # q
               /\ q = initproc => \A s \in Slot : parent[s] = p => state[s] # "ZOMBIE"
    BY <1>18, <2>3 DEF Exit, ExitWakeups, wakeup1, Children, ZombieChildren
  <2>4. \A s \in Slot \ {p} : state'[s] = "ZOMBIE" => state[s] = "ZOMBIE"
    BY <1>18 DEF Exit, ExitWakeups, wakeup1
  <2>5. parent[p] # p /\ \A q \in Slot : state[q] \in {"SLEEPING"} => q # p
    BY <2>1 DEF SlotInv
  <2>6. ASSUME NEW q \in Slot, state'[q] = "SLEEPING", chan'[q] = q
        PROVE  /\ \E s \in Slot : parent'[s] = q
               /\ \A s \in Slot : parent'[s] = q => state'[s] # "ZOMBIE"
               /\ ~killed'[q]
    <3>1. /\ q # p /\ state[q] = "SLEEPING" /\ chan[q] = q /\ parent[p] # q
          /\ q = initproc => \A s \in Slot : parent[s] = p => state[s] # "ZOMBIE"
      BY <2>1, <2>3, <2>6
    <3>2. /\ \E s \in Slot : parent[s] = q
          /\ \A s \in Slot : parent[s] = q => state[s] # "ZOMBIE"
          /\ ~killed[q]
      BY <3>1
    <3> HIDE DEF MissedInv
    <3>3. \E s \in Slot : parent'[s] = q
      BY <2>2, <3>1, <3>2
    <3>4. ASSUME NEW s \in Slot, parent'[s] = q PROVE state'[s] # "ZOMBIE"
      <4>1. s # p
        BY <2>2, <2>5, <3>1, <3>4
      <4>2. state[s] # "ZOMBIE"
        BY <2>2, <3>1, <3>2, <3>4
      <4> QED
        BY <2>4, <4>1, <4>2
    <3> QED
      BY <2>1, <3>2, <3>3, <3>4
  <2> QED
    BY <2>6
<1>19. ASSUME NEW c \in CPU, NEW p \in Slot, WaitReap(c, p)
      PROVE  MissedInv'
  <2>1. PICK z \in Slot :
          /\ state[z] = "ZOMBIE" /\ parent[z] = p
          /\ state' = [state EXCEPT ![z] = "UNUSED"]
          /\ parent' = [parent EXCEPT ![z] = NULL] /\ killed' = [killed EXCEPT ![z] = FALSE]
    BY <1>19, Zenon DEF WaitReap, IsFirst, ZombieChildren, Children
  <2>2. state[p] = "RUNNING" /\ chan' = [chan EXCEPT ![p] = NULL]
    BY <1>19 DEF WaitReap, InWait, Runs, Resumed
  <2>3. ASSUME NEW q \in Slot, state'[q] = "SLEEPING", chan'[q] = q
        PROVE  /\ \E s \in Slot : parent'[s] = q
               /\ \A s \in Slot : parent'[s] = q => state'[s] # "ZOMBIE"
               /\ ~killed'[q]
    <3>1. state[q] = "SLEEPING" /\ q # p /\ q # z /\ chan[q] = q
      BY <2>1, <2>2, <2>3
    <3>2. PICK s \in Slot : parent[s] = q /\ s # z
      BY <2>1, <3>1, Zenon
    <3>3. parent'[s] = q
      BY <2>1, <3>2
    <3>4. \A t \in Slot : parent'[t] = q => parent[t] = q /\ t # z
      BY <2>1
    <3>5. ~killed[q] /\ \A t \in Slot : parent[t] = q => state[t] # "ZOMBIE"
      BY <3>1
    <3> HIDE DEF MissedInv
    <3> QED
      BY <2>1, <3>1, <3>3, <3>4, <3>5
  <2> QED
    BY <2>3
<1>20. ASSUME NEW c \in CPU, NEW p \in Slot, WaitFail(c, p)
      PROVE  MissedInv'
  BY <1>20 DEF WaitFail, InWait, Runs, Resumed, Children, ZombieChildren
<1>21. ASSUME NEW c \in CPU, NEW p \in Slot, WaitSleep(c, p)
      PROVE  MissedInv'
  <2>1. /\ chan' = [chan EXCEPT ![p] = p] /\ state' = [state EXCEPT ![p] = "SLEEPING"]
        /\ UNCHANGED <<parent, killed>>
    BY <1>21 DEF WaitSleep
  <2>2. /\ \E s \in Slot : parent[s] = p
        /\ \A s \in Slot : parent[s] = p => state[s] # "ZOMBIE"
        /\ ~killed[p]
    BY <1>21 DEF WaitSleep, Children, ZombieChildren
  <2> QED
    BY <2>1, <2>2
<1>22. ASSUME NEW c \in CPU, NEW p \in Slot, Kill(c, p)
      PROVE  MissedInv'
  BY <1>22 DEF Kill, IsFirst, Unblocked
<1>23. ASSUME NEW c \in CPU, NEW p \in Slot, InterruptExit(c, p)
      PROVE  MissedInv'
  BY <1>23 DEF InterruptExit
<1>24. ASSUME NEW c \in CPU, NEW p \in Slot, Yield(c, p)
      PROVE  MissedInv'
  <2>1. /\ state' = [state EXCEPT ![p] = "RUNNABLE"]
        /\ UNCHANGED <<chan, killed, parent>>
    BY <1>24 DEF Yield
  <2> QED
    BY <2>1
<1>25. ASSUME Wakeup
      PROVE  MissedInv'
  <2>1. /\ UNCHANGED <<chan, killed, parent>>
        /\ \A s \in Slot : state'[s] = state[s] \/ state'[s] = "RUNNABLE"
    BY <1>25 DEF Wakeup, wakeup1
  <2> QED
    BY <2>1
<1>26. ASSUME NEW p \in Slot, PanicLoop(p)
      PROVE  MissedInv'
  <2>1. UNCHANGED vars
    BY <1>26 DEF PanicLoop
  <2> QED
    BY <2>1 DEF vars
<1>27. CASE UNCHANGED vars
  BY <1>27 DEF vars
<1> HIDE DEF Domains, MissedInv, procVars, memVars, cpuVars, cliVars, Goto
<1> QED
  BY <1>1, <1>2, <1>3, <1>4, <1>5, <1>6, <1>7, <1>8, <1>9, <1>10, <1>11, <1>12, <1>13, <1>14,
     <1>15, <1>16, <1>17, <1>18, <1>19, <1>20, <1>21, <1>22, <1>23, <1>24, <1>25, <1>26, <1>27, Zenon
     DEF Next, Scheduler, Return, KernelStep, Tick

\* A step that gives no slot a new process, nor a process a new pid, keeps PidsUnique.
LEMMA PidFrame ==
  ASSUME PidsUnique, nextpid' = nextpid,
         \A s \in Slot : state'[s] # "UNUSED" => state[s] # "UNUSED" /\ pid'[s] = pid[s]
  PROVE  PidsUnique'
  BY DEF PidsUnique

\* A pid is handed out once.
LEMMA PidStep ==
  ASSUME TypeOK, ForkInv, PidsUnique, [Next]_vars
  PROVE  PidsUnique'
<1>0. Domains
  BY TypeDomains
<1> USE <1>0, NullAssumption DEF Domains, PidsUnique, procVars, memVars, cpuVars, cliVars
<1>1. ASSUME NEW c \in CPU, SchedAcquire(c)
      PROVE  PidsUnique'
  BY <1>1 DEF SchedAcquire
<1>2. ASSUME NEW c \in CPU, SchedRun(c)
      PROVE  PidsUnique'
  <2>1. nextpid' = nextpid /\ \A s \in Slot : state'[s] # "UNUSED" => state[s] # "UNUSED" /\ pid'[s] = pid[s]
    BY <1>2 DEF SchedRun, IsFirst
  <2> QED
    BY <2>1, PidFrame
<1>3. ASSUME NEW c \in CPU, SchedRelease(c)
      PROVE  PidsUnique'
  BY <1>3 DEF SchedRelease
<1>4. ASSUME NEW c \in CPU, Swtch(c)
      PROVE  PidsUnique'
  BY <1>4, Zenon DEF Swtch
<1>5. ASSUME NEW c \in CPU, InitExit(c)
      PROVE  PidsUnique'
  BY <1>5 DEF InitExit
<1>6. ASSUME NEW c \in CPU, NEW p \in Slot, Forkret(c, p)
      PROVE  PidsUnique'
  BY <1>6, Zenon DEF Forkret, Resumed
<1>7. ASSUME NEW c \in CPU, NEW p \in Slot, YieldReturn(c, p)
      PROVE  PidsUnique'
  BY <1>7 DEF YieldReturn, Resumed
<1>8. ASSUME NEW c \in CPU, NEW p \in Slot, SleepReturn(c, p)
      PROVE  PidsUnique'
  BY <1>8 DEF SleepReturn, Resumed
<1>9. ASSUME NEW c \in CPU, NEW p \in Slot, Trap(c, p)
      PROVE  PidsUnique'
  BY <1>9 DEF Trap
<1>10. ASSUME NEW c \in CPU, NEW p \in Slot, Fault(c, p)
      PROVE  PidsUnique'
  BY <1>10 DEF Fault, Runs
<1>11. ASSUME NEW c \in CPU, NEW p \in Slot, SysReturn(c, p)
      PROVE  PidsUnique'
  BY <1>11 DEF SysReturn
<1>12. ASSUME NEW c \in CPU, NEW p \in Slot, Sleep(c, p)
      PROVE  PidsUnique'
  BY <1>12 DEF Sleep, Runs
<1>13. ASSUME NEW c \in CPU, NEW p \in Slot, SleepDone(c, p)
      PROVE  PidsUnique'
  BY <1>13 DEF SleepDone
<1>14. ASSUME NEW c \in CPU, NEW p \in Slot, ForkAlloc(c, p)
      PROVE  PidsUnique'
  <2>1. CASE UNCHANGED <<state, pid, nextpid>>
    BY <2>1
  <2>2. ASSUME NEW s \in Slot, state' = [state EXCEPT ![s] = "EMBRYO"],
               pid' = [pid EXCEPT ![s] = nextpid], nextpid' = nextpid + 1
        PROVE  PidsUnique'
    <3>1. nextpid \in Nat /\ \A t \in Slot : pid[t] \in Nat
      BY DEF TypeOK
    <3>2. state[p] = "RUNNING"
      BY <1>14 DEF ForkAlloc, Runs
    <3>3. nextpid > 0
      <4>1. pid[p] \in 1 .. nextpid - 1
        BY <3>2
      <4> HIDE DEF PidsUnique
      <4> QED
        BY <3>1, <4>1
    <3> QED
      BY <2>2, <3>1, <3>3
  <2> QED
    BY <1>14, <2>1, <2>2, Zenon DEF ForkAlloc, AllocPid
<1>15. ASSUME NEW c \in CPU, NEW p \in Slot, ForkKstack(c, p)
      PROVE  PidsUnique'
  <2>1. nextpid' = nextpid /\ \A s \in Slot : state'[s] # "UNUSED" => state[s] # "UNUSED" /\ pid'[s] = pid[s]
    BY <1>15 DEF ForkKstack, Runs
  <2> QED
    BY <2>1, PidFrame
<1>16. ASSUME NEW c \in CPU, NEW p \in Slot, ForkCopy(c, p)
      PROVE  PidsUnique'
  <2>1. nextpid' = nextpid /\ \A s \in Slot : state'[s] # "UNUSED" => state[s] # "UNUSED" /\ pid'[s] = pid[s]
    BY <1>16 DEF ForkCopy, Runs
  <2> QED
    BY <2>1, PidFrame
<1>17. ASSUME NEW c \in CPU, NEW p \in Slot, ForkRun(c, p)
      PROVE  PidsUnique'
  <2>1. nextpid' = nextpid /\ \A s \in Slot : state'[s] # "UNUSED" => state[s] # "UNUSED" /\ pid'[s] = pid[s]
    BY <1>17 DEF ForkRun, Runs, ForkInv, ForkOwns, InFork
  <2> QED
    BY <2>1, PidFrame
<1>18. ASSUME NEW c \in CPU, NEW p \in Slot, Exit(c, p)
      PROVE  PidsUnique'
  <2>1. nextpid' = nextpid /\ \A s \in Slot : state'[s] # "UNUSED" => state[s] # "UNUSED" /\ pid'[s] = pid[s]
    BY <1>18, Zenon DEF Exit, Runs, ExitWakeups, wakeup1
  <2> QED
    BY <2>1, PidFrame
<1>19. ASSUME NEW c \in CPU, NEW p \in Slot, WaitReap(c, p)
      PROVE  PidsUnique'
  <2>1. nextpid' = nextpid /\ \A s \in Slot : state'[s] # "UNUSED" => state[s] # "UNUSED" /\ pid'[s] = pid[s]
    BY <1>19 DEF WaitReap, InWait, Runs, Resumed, IsFirst, ZombieChildren
  <2> QED
    BY <2>1, PidFrame
<1>20. ASSUME NEW c \in CPU, NEW p \in Slot, WaitFail(c, p)
      PROVE  PidsUnique'
  BY <1>20 DEF WaitFail, InWait, Runs, Resumed
<1>21. ASSUME NEW c \in CPU, NEW p \in Slot, WaitSleep(c, p)
      PROVE  PidsUnique'
  BY <1>21 DEF WaitSleep, InWait, Runs, Resumed
<1>22. ASSUME NEW c \in CPU, NEW p \in Slot, Kill(c, p)
      PROVE  PidsUnique'
  <2>1. \A s \in Slot : state'[s] = "UNUSED" <=> state[s] = "UNUSED"
    <3>1. state' = state \/ \E t \in Slot : state' = [state EXCEPT ![t] = Unblocked(@)]
      BY <1>22, Zenon DEF Kill
    <3> QED
      BY <3>1 DEF Unblocked
  <2> QED
    BY <1>22, <2>1 DEF Kill
<1>23. ASSUME NEW c \in CPU, NEW p \in Slot, InterruptExit(c, p)
      PROVE  PidsUnique'
  BY <1>23 DEF InterruptExit
<1>24. ASSUME NEW c \in CPU, NEW p \in Slot, Yield(c, p)
      PROVE  PidsUnique'
  BY <1>24 DEF Yield, Runs
<1>25. ASSUME Wakeup
      PROVE  PidsUnique'
  BY <1>25 DEF Wakeup, wakeup1
<1>26. ASSUME NEW p \in Slot, PanicLoop(p)
      PROVE  PidsUnique'
  BY <1>26 DEF PanicLoop, vars
<1>27. CASE UNCHANGED vars
  BY <1>27 DEF vars
<1> HIDE DEF Domains, PidsUnique, procVars, memVars, cpuVars, cliVars
<1> QED
  BY <1>1, <1>2, <1>3, <1>4, <1>5, <1>6, <1>7, <1>8, <1>9, <1>10, <1>11, <1>12, <1>13, <1>14,
     <1>15, <1>16, <1>17, <1>18, <1>19, <1>20, <1>21, <1>22, <1>23, <1>24, <1>25, <1>26, <1>27, Zenon
     DEF Next, Scheduler, Return, KernelStep, Tick

\* The inductive invariant.
IInv ==
  /\ TypeOK /\ CpuInv /\ SlotInv /\ ForkInv
  /\ CliInv /\ FlagInv /\ InterruptsKept
  /\ ParentAlive /\ MissedInv /\ PidsUnique

\* It holds once userinit() has made the first process.
LEMMA InitIInv == Init => IInv
<1> SUFFICES ASSUME Init PROVE IInv
  OBVIOUS
<1> USE NPROCAssumption, NPAGESAssumption, NullAssumption, InitSlot DEF Init
<1>1. TypeOK
  BY DEF TypeOK, Slot, initproc, ProcState, Location, Syscall, Context
<1>2. CpuInv
  BY DEF CpuInv
<1>3. SlotInv
  BY Zenon DEF SlotInv, Alive
<1>4. ForkInv
  BY DEF ForkInv, InFork
<1>5. ParentAlive /\ MissedInv
  BY DEF ParentAlive, MissedInv, Alive
<1>6. PidsUnique
  BY DEF PidsUnique
<1>7. CliInv /\ FlagInv /\ InterruptsKept
  BY DEF CliInv, FlagInv, InterruptsKept
<1> QED
  BY <1>1, <1>2, <1>3, <1>4, <1>5, <1>6, <1>7 DEF IInv

\* Every step preserves it.
LEMMA StepIInv == IInv /\ [Next]_vars => IInv'
  BY TypeStep, CpuStep, SlotStep, ForkStep, CliStep, FlagStep, KeptStep, ParentStep, MissedStep, PidStep, Zenon
     DEF IInv

\* It holds in every reachable state.
THEOREM Inductive == Spec => []IInv
  BY InitIInv, StepIInv, PTL DEF Spec

\* scheduler(), sched() and swtch(): no process ever runs on two CPUs, for any
\* number of CPUs and slots.
THEOREM OneCpu == Spec => []RunsOnOneCpu
<1>1. IInv => RunsOnOneCpu
  BY DEF IInv, CpuInv, RunsOnOneCpu
<1> QED
  BY <1>1, Inductive, PTL

\* wait() frees no kernel stack or page table that a CPU is still using.
THEOREM StackSafe == Spec => []StackInUse
<1>1. IInv => StackInUse
  <2> SUFFICES ASSUME IInv, NEW c \in CPU, cpuproc[c] # NULL
               PROVE  kstack[cpuproc[c]] /\ pgdir[cpuproc[c]] = "valid"
    BY DEF StackInUse
  <2>1. cpuproc[c] \in Slot
    BY DEF IInv, TypeOK
  <2>2. state[cpuproc[c]] \in Alive \cup {"ZOMBIE"}
    BY DEF IInv, CpuInv
  <2> QED
    BY <2>1, <2>2 DEF IInv, SlotInv
<1> QED
  BY <1>1, Inductive, PTL

\* sched() never fails one of its four tests, switchuvm() finds what it needs, and
\* exit() does not return from sched(): none of them reaches its panic.
THEOREM SchedNeverPanics == Spec => []NoPanic
<1>1. IInv => NoPanic
  BY DEF IInv, SlotInv, NoPanic
<1> QED
  BY <1>1, Inductive, PTL

\* exit(): somebody who has not exited can always wait() for a process.
THEOREM NoOrphan == Spec => []ParentAlive
<1>1. IInv => ParentAlive
  BY DEF IInv
<1> QED
  BY <1>1, Inductive, PTL

\* exit(), kill() and wait(): no parent sleeps through the exit of a child.
THEOREM NoLostExit == Spec => []NoMissedExit
<1>1. MissedInv => NoMissedExit
  BY DEF MissedInv, NoMissedExit, Children, ZombieChildren
<1>2. IInv => NoMissedExit
  BY <1>1 DEF IInv
<1> QED
  BY <1>2, Inductive, PTL

\* allocproc(): two processes never share a pid.
THEOREM UniquePids == Spec => []PidsUnique
<1>1. IInv => PidsUnique
  BY DEF IInv
<1> QED
  BY <1>1, Inductive, PTL

\* pushcli(), popcli() and sched(): a process that is not in exit() or in a critical
\* section runs with interrupts on, whatever ran on its CPU before.
THEOREM KeepsInterrupts == Spec => []InterruptsKept
<1>1. IInv => InterruptsKept
  BY DEF IInv
<1> QED
  BY <1>1, Inductive, PTL
=============================================================================
