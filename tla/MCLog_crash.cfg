SPECIFICATION Spec
CONSTANTS
  Proc = {p1, p2}
  Block = {b1, b2, b3}
  Val = {v0, v1}
  None = None
  MAXOPBLOCKS = 4
  LOGSIZE = 8
  LogSize = 8
  After <- MCAfter
  InodeBlock = b1
  OpBlocks = 2
SYMMETRY Symmetry
INVARIANTS
  TypeOK
  CommitAlone
  SleeperHasWaker
  CommitDurable
PROPERTY Atomic
