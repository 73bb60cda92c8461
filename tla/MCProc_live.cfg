SPECIFICATION FairSpec
CONSTANTS
  NPROC = 3
  CPU = {c1}
  Chan = {}
  NULL = NULL
  NPAGES = 6
  MaxPid = 3
  KillPids = {2, 3}
  InitCalls = {"fork", "wait"}
PROPERTIES
  RunnableRuns
  OrphansReaped
  KilledExits
