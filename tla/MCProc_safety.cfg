SPECIFICATION Spec
CONSTANTS
  NPROC = 3
  CPU = {c1, c2}
  Chan = {ticks}
  NULL = NULL
  NPAGES = 6
  MaxPid = 3
  KillPids = {2, 3}
  InitCalls = {"fork", "wait", "sleep", "exit"}
SYMMETRY Symmetry
INVARIANTS
  TypeOK
  StackInUse
  RunsOnOneCpu
  NoPanic
  InterruptsKept
  ParentAlive
  NoMissedExit
