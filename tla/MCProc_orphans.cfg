SPECIFICATION Spec
CONSTANTS
  NPROC = 4
  CPU = {c1}
  Chan = {}
  NULL = NULL
  NPAGES = 8
  MaxPid = 4
  KillPids = {}
  InitCalls = {"fork", "wait"}
INVARIANTS
  NoMissedExit
