SPECIFICATION Spec
CONSTANTS
  NPROC = 3
  CPU = {c1}
  Chan = {}
  NULL = NULL
  NPAGES = 4
  MaxPid = 4
  KillPids = {0}
  InitCalls = {"fork", "wait"}
PROPERTY BornUnkilled
