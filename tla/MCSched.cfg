CONSTANTS
  NPROC = 3
  CPU <- OneCPU
  CHAR_MIN = 0
  CHAR_MAX = 4
  Killers = {3}
  BadCallers = {2}
  MaxPid = 3
SPECIFICATION Spec
INVARIANTS QueuesExclusive ProcessPlaced NoMissedExit ParentAlive
CHECK_DEADLOCK FALSE
