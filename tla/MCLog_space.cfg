SPECIFICATION Spec
CONSTANTS
  Proc = {p1, p2, p3}
  Block = {b1, b2, b3, b4, b5, b6}
  Val = {v0}
  None = None
  MAXOPBLOCKS = 3
  LOGSIZE = 6
  LogSize = 6
  After <- MCAfter
  InodeBlock = b1
  OpBlocks = 1
SYMMETRY Symmetry
INVARIANT LogFits
