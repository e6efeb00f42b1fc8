CONSTANTS
  p1 = p1
  p2 = p2
  Proc = {p1, p2}
  NFILE = 3
  NOFILE = 3
  PIPESIZE = 2
  WRAP = 4
  Sizes = {1, 3}
  MaxBytes = 4
  MaxCalls = 5
  Starts <- StartSet
SPECIFICATION Spec
INVARIANTS PageWhileOpen BytesInOrder NoLostWakeup
CHECK_DEADLOCK FALSE
