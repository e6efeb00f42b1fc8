CONSTANTS
  p1 = p1 p2 = p2 p3 = p3 b1 = b1 b2 = b2 b3 = b3 b4 = b4 b5 = b5 v1 = v1 v2 = v2
  Proc <- ThreeProcs
  Block <- FiveBlocks
  Val = {v1}
  ROOTDEV = 1
  SECONDARYDEV = 2
  LOGSIZE = 5
  MAXOPBLOCKS = 2
  nlog = 6
  OpBlocks = 1
SPECIFICATION Spec
INVARIANTS LogFits NoStrandedWaiter
SYMMETRY Symmetric
