CONSTANTS
  p1 = p1 p2 = p2 p3 = p3 b1 = b1 b2 = b2 b3 = b3 b4 = b4 b5 = b5 v1 = v1 v2 = v2
  Proc <- TwoProcs
  Block <- TwoBlocks
  Val = {v1, v2}
  ROOTDEV = 1
  SECONDARYDEV = 2
  LOGSIZE = 8
  MAXOPBLOCKS = 4
  nlog = 8
  OpBlocks = 2
SPECIFICATION Spec
INVARIANTS QuiescentDurable
PROPERTIES GroupCommitAtomic
SYMMETRY Symmetric
