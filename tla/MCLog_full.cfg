SPECIFICATION Spec
CONSTANTS
  Proc = {p1, p2}
  Block = {b1, b2, b3, b4}
  Val = {v0}
  None = None
  MAXOPBLOCKS = 2
  LOGSIZE = 4
  LogSize = 4
  After <- MCAfter
  InodeBlock = b1
  OpBlocks = 2
SYMMETRY Symmetry
INVARIANT LogFits
