CONSTANTS
  NPROC = 3
  CPU <- TwoCPUs
  CHAR_MIN = 0
  CHAR_MAX = 4
  Killers = {}
  BadCallers = {}
  MaxPid = 3
SPECIFICATION Spec
INVARIANT RemovesQueued
CHECK_DEADLOCK FALSE
