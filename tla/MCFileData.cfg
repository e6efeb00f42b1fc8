CONSTANTS
  p1 = p1 p2 = p2
  Proc = {p1, p2}
  Inode = {1, 2}
  File = {1, 2}
  Byte = {1, 2}
  NBLOCKS = 5
  BSIZE = 2
  BPB = 1
  NDIRECT = 1
  MAXOPBLOCKS = 6
  Counts = {1, 4}
  Opened <- BothOpen
  MaxCalls = 4
SPECIFICATION Spec
INVARIANTS BlocksOwnedOnce ChunkFitsLog
PROPERTY ImplementsByteFile
SYMMETRY Symmetric
CHECK_DEADLOCK FALSE
