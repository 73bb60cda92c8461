-------------------------- MODULE ProcPages_proofs --------------------------
(***************************************************************************)
(* Proof about Proc that needs the theory of finite sets: the pages of the *)
(* pool are counted. It rests on the inductive invariant of Proc_proofs.   *)
(***************************************************************************)
EXTENDS Proc_proofs, FiniteSetTheorems

\* The slots that have a kernel stack and those that have an address space.
Stacks == {s \in Slot : kstack[s]}
Spaces == {s \in Slot : pgdir[s] = "valid"}

\* Both are finite, so an element added or removed counts for one.
LEMMA PageSets ==
  ASSUME TypeOK, NEW s \in Slot
  PROVE  /\ Cardinality(Stacks) \in Nat /\ Cardinality(Spaces) \in Nat
         /\ s \notin Stacks => Cardinality(Stacks \cup {s}) = Cardinality(Stacks) + 1
         /\ s \notin Spaces => Cardinality(Spaces \cup {s}) = Cardinality(Spaces) + 1
         /\ s \in Stacks => Cardinality(Stacks \ {s}) = Cardinality(Stacks) - 1
         /\ s \in Spaces => Cardinality(Spaces \ {s}) = Cardinality(Spaces) - 1
<1>1. IsFiniteSet(Slot)
  BY NPROCAssumption, FS_Interval DEF Slot
<1>2. IsFiniteSet(Stacks) /\ IsFiniteSet(Spaces)
  BY <1>1, FS_Subset DEF Stacks, Spaces
<1> QED
  BY <1>2, FS_AddElement, FS_RemoveElement, FS_CardinalityType

\* kalloc(), copyuvm(), kfree() and freevm() move pages, they lose none.
LEMMA PageStep ==
  ASSUME TypeOK, SlotInv, ForkInv, PagesConserved, [Next]_vars
  PROVE  PagesConserved'
<1> USE DEF Stacks, Spaces
<1>1. freepages + Cardinality(Stacks) + Cardinality(Spaces) = NPAGES
  BY DEF PagesConserved
<1>2. SUFFICES freepages' + Cardinality(Stacks') + Cardinality(Spaces') = NPAGES
  BY DEF PagesConserved
<1>2a. freepages \in Nat
  BY DEF TypeOK
<1> HIDE DEF Stacks, Spaces
<1>3. ASSUME UNCHANGED memVars
      PROVE  freepages' + Cardinality(Stacks') + Cardinality(Spaces') = NPAGES
  BY <1>1, <1>3 DEF memVars, Stacks, Spaces
<1>4. ASSUME NEW c \in CPU, NEW p \in Slot, ForkKstack(c, p)
      PROVE  freepages' + Cardinality(Stacks') + Cardinality(Spaces') = NPAGES
  <2>1. np[p] \in Slot /\ np[p] \notin Stacks
    BY <1>4 DEF ForkKstack, ForkInv, ForkOwns, InFork, Stacks
  <2>2. Spaces' = Spaces
    BY <1>4 DEF ForkKstack, Spaces
  <2>3. CASE freepages > 0
    <3>1. Stacks' = Stacks \cup {np[p]} /\ freepages' = freepages - 1
      <4>1. kstack' = [kstack EXCEPT ![np[p]] = TRUE] /\ freepages' = freepages - 1
        BY <1>4, <2>3 DEF ForkKstack
      <4>2. DOMAIN kstack = Slot
        BY DEF TypeOK
      <4> QED
        BY <2>1, <4>1, <4>2 DEF Stacks
    <3>2. /\ Cardinality(Stacks \cup {np[p]}) = Cardinality(Stacks) + 1
          /\ Cardinality(Stacks) \in Nat /\ Cardinality(Spaces) \in Nat
      BY <2>1, PageSets, Zenon
    <3> QED
      BY <1>1, <1>2a, <2>2, <3>1, <3>2
  <2>4. CASE freepages = 0
    <3>1. Stacks' = Stacks /\ freepages' = freepages
      <4>1. kstack' = [kstack EXCEPT ![np[p]] = FALSE] /\ freepages' = freepages
        BY <1>4, <2>4 DEF ForkKstack
      <4>2. DOMAIN kstack = Slot
        BY DEF TypeOK
      <4> QED
        BY <2>1, <4>1, <4>2 DEF Stacks
    <3> QED
      BY <1>1, <2>2, <3>1
  <2> QED
    BY <2>3, <2>4 DEF TypeOK
<1>5. ASSUME NEW c \in CPU, NEW p \in Slot, ForkCopy(c, p)
      PROVE  freepages' + Cardinality(Stacks') + Cardinality(Spaces') = NPAGES
  <2>1. np[p] \in Slot /\ np[p] \in Stacks /\ np[p] \notin Spaces
    BY <1>5 DEF ForkCopy, ForkInv, ForkOwns, InFork, Stacks, Spaces
  <2>2. CASE freepages > 0
    <3>1. Stacks' = Stacks /\ Spaces' = Spaces \cup {np[p]} /\ freepages' = freepages - 1
      <4>1. /\ kstack' = kstack /\ pgdir' = [pgdir EXCEPT ![np[p]] = "valid"]
            /\ freepages' = freepages - 1
        BY <1>5, <2>2 DEF ForkCopy
      <4>2. DOMAIN pgdir = Slot
        BY DEF TypeOK
      <4> QED
        BY <2>1, <4>1, <4>2 DEF Stacks, Spaces
    <3>2. /\ Cardinality(Spaces \cup {np[p]}) = Cardinality(Spaces) + 1
          /\ Cardinality(Stacks) \in Nat /\ Cardinality(Spaces) \in Nat
      BY <2>1, PageSets, Zenon
    <3> QED
      BY <1>1, <1>2a, <3>1, <3>2
  <2>3. CASE freepages = 0
    <3>1. Stacks' = Stacks \ {np[p]} /\ Spaces' = Spaces /\ freepages' = freepages + 1
      <4>1. /\ kstack' = [kstack EXCEPT ![np[p]] = FALSE] /\ pgdir' = [pgdir EXCEPT ![np[p]] = "null"]
            /\ freepages' = freepages + 1
        BY <1>5, <2>3 DEF ForkCopy, FreeKstack
      <4>2. DOMAIN kstack = Slot /\ DOMAIN pgdir = Slot
        BY DEF TypeOK
      <4>3. Stacks' = Stacks \ {np[p]}
        BY <2>1, <4>1, <4>2 DEF Stacks
      <4>4. Spaces' = Spaces
        BY <2>1, <4>1, <4>2 DEF Spaces
      <4> QED
        BY <4>1, <4>3, <4>4
    <3>2. /\ Cardinality(Stacks \ {np[p]}) = Cardinality(Stacks) - 1
          /\ Cardinality(Stacks) \in Nat /\ Cardinality(Spaces) \in Nat
      BY <2>1, PageSets, Zenon
    <3> QED
      BY <1>1, <1>2a, <3>1, <3>2
  <2> QED
    BY <2>2, <2>3 DEF TypeOK
<1>6. ASSUME NEW c \in CPU, NEW p \in Slot, WaitReap(c, p)
      PROVE  freepages' + Cardinality(Stacks') + Cardinality(Spaces') = NPAGES
  <2>1. PICK z \in Slot : /\ state[z] = "ZOMBIE"
                         /\ freepages' = freepages + 2
                         /\ kstack' = [kstack EXCEPT ![z] = FALSE]
                         /\ pgdir' = [pgdir EXCEPT ![z] = "stale"]
    BY <1>6, Zenon DEF WaitReap, IsFirst, ZombieChildren
  <2>2. z \in Stacks /\ z \in Spaces
    BY <2>1 DEF SlotInv, Stacks, Spaces
  <2>3. Stacks' = Stacks \ {z} /\ Spaces' = Spaces \ {z}
    BY <2>1, <2>2 DEF Stacks, Spaces, TypeOK
  <2>4. /\ Cardinality(Stacks \ {z}) = Cardinality(Stacks) - 1
        /\ Cardinality(Spaces \ {z}) = Cardinality(Spaces) - 1
        /\ Cardinality(Stacks) \in Nat /\ Cardinality(Spaces) \in Nat
    BY <2>2, PageSets, Zenon
  <2> QED
    BY <1>1, <1>2a, <2>1, <2>3, <2>4
<1>7. ASSUME NEW c \in CPU, SchedAcquire(c)
      PROVE  UNCHANGED memVars
  BY <1>7 DEF SchedAcquire
<1>8. ASSUME NEW c \in CPU, SchedRun(c)
      PROVE  UNCHANGED memVars
  BY <1>8 DEF SchedRun
<1>9. ASSUME NEW c \in CPU, SchedRelease(c)
      PROVE  UNCHANGED memVars
  BY <1>9 DEF SchedRelease
<1>10. ASSUME NEW c \in CPU, Swtch(c)
      PROVE  UNCHANGED memVars
  BY <1>10 DEF Swtch
<1>11. ASSUME NEW c \in CPU, InitExit(c)
      PROVE  UNCHANGED memVars
  BY <1>11 DEF InitExit
<1>12. ASSUME NEW c \in CPU, NEW p \in Slot, Forkret(c, p)
      PROVE  UNCHANGED memVars
  BY <1>12 DEF Forkret
<1>13. ASSUME NEW c \in CPU, NEW p \in Slot, YieldReturn(c, p)
      PROVE  UNCHANGED memVars
  BY <1>13 DEF YieldReturn
<1>14. ASSUME NEW c \in CPU, NEW p \in Slot, SleepReturn(c, p)
      PROVE  UNCHANGED memVars
  BY <1>14 DEF SleepReturn
<1>15. ASSUME NEW c \in CPU, NEW p \in Slot, Trap(c, p)
      PROVE  UNCHANGED memVars
  BY <1>15 DEF Trap
<1>16. ASSUME NEW c \in CPU, NEW p \in Slot, Fault(c, p)
      PROVE  UNCHANGED memVars
  BY <1>16 DEF Fault
<1>17. ASSUME NEW c \in CPU, NEW p \in Slot, SysReturn(c, p)
      PROVE  UNCHANGED memVars
  BY <1>17 DEF SysReturn
<1>18. ASSUME NEW c \in CPU, NEW p \in Slot, Sleep(c, p)
      PROVE  UNCHANGED memVars
  BY <1>18 DEF Sleep
<1>19. ASSUME NEW c \in CPU, NEW p \in Slot, SleepDone(c, p)
      PROVE  UNCHANGED memVars
  BY <1>19 DEF SleepDone
<1>20. ASSUME NEW c \in CPU, NEW p \in Slot, ForkAlloc(c, p)
      PROVE  UNCHANGED memVars
  BY <1>20 DEF ForkAlloc
<1>21. ASSUME NEW c \in CPU, NEW p \in Slot, ForkRun(c, p)
      PROVE  UNCHANGED memVars
  BY <1>21 DEF ForkRun
<1>22. ASSUME NEW c \in CPU, NEW p \in Slot, Exit(c, p)
      PROVE  UNCHANGED memVars
  BY <1>22 DEF Exit
<1>23. ASSUME NEW c \in CPU, NEW p \in Slot, WaitFail(c, p)
      PROVE  UNCHANGED memVars
  BY <1>23 DEF WaitFail
<1>24. ASSUME NEW c \in CPU, NEW p \in Slot, WaitSleep(c, p)
      PROVE  UNCHANGED memVars
  BY <1>24 DEF WaitSleep
<1>25. ASSUME NEW c \in CPU, NEW p \in Slot, Kill(c, p)
      PROVE  UNCHANGED memVars
  BY <1>25 DEF Kill
<1>26. ASSUME NEW c \in CPU, NEW p \in Slot, InterruptExit(c, p)
      PROVE  UNCHANGED memVars
  BY <1>26 DEF InterruptExit
<1>27. ASSUME NEW c \in CPU, NEW p \in Slot, Yield(c, p)
      PROVE  UNCHANGED memVars
  BY <1>27 DEF Yield
<1>28. ASSUME Wakeup
      PROVE  UNCHANGED memVars
  BY <1>28 DEF Wakeup
<1>29. ASSUME NEW p \in Slot, PanicLoop(p)
      PROVE  UNCHANGED memVars
  BY <1>29 DEF PanicLoop, vars
<1>30. CASE UNCHANGED vars
  BY <1>3, <1>30 DEF vars
<1> QED
  BY <1>3, <1>4, <1>5, <1>6, <1>7, <1>8, <1>9, <1>10, <1>11, <1>12, <1>13, <1>14, <1>15, <1>16, <1>17, <1>18, <1>19, <1>20, <1>21, <1>22, <1>23, <1>24, <1>25, <1>26, <1>27, <1>28, <1>29, <1>30
     DEF Next, Scheduler, Return, KernelStep, Tick

\* userinit() has given the first process its two pages.
LEMMA PageInit == Init => PagesConserved
<1> SUFFICES ASSUME Init PROVE PagesConserved
  OBVIOUS
<1>1. {s \in Slot : kstack[s]} = {initproc} /\ {s \in Slot : pgdir[s] = "valid"} = {initproc}
  BY InitSlot, Zenon DEF Init
<1>2. Cardinality({initproc}) = 1
  BY FS_Singleton
<1>3. freepages = NPAGES - 2 /\ NPAGES \in Nat
  BY NPAGESAssumption DEF Init
<1>4. freepages + 1 + 1 = NPAGES
  BY <1>3
<1> QED
  BY <1>1, <1>2, <1>4, Zenon DEF PagesConserved

\* fork(), exit() and wait() neither leak a page nor free one twice.
THEOREM NoPageLeak == Spec => []PagesConserved
<1>1. IInv /\ PagesConserved /\ [Next]_vars => PagesConserved'
  BY PageStep, Zenon DEF IInv
<1> QED
  BY <1>1, PageInit, Inductive, PTL DEF Spec
=============================================================================
