SPECIFICATION Spec
CONSTANTS
  NPROC = 4
  CPU = {c1, c2}
  Chan = {ticks}
  NULL = NULL
  NPAGES = 5
  MaxPid = 5
  KillPids = {2, 3}
  InitCalls = {"fork", "wait", "sleep", "exit"}
SYMMETRY Symmetry
INVARIANTS
  PidsUnique
  PagesConserved
