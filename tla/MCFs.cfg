CONSTANTS
  p1 = p1 p2 = p2
  Proc = {p1, p2}
  NINODES = 4
  NINODE = 3
  Name = {"a", "b"}
  Path <- PathSet
  Starts <- StartSet
  MaxCalls = 2
SPECIFICATION Spec
INVARIANTS RefTracksPointers HeldAllocated LinksCoverEntries LockOrder UnlinkedFreed
SYMMETRY Symmetric
CHECK_DEADLOCK FALSE
