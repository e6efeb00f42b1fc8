CONSTANTS
  NPROC = 3
  CPU <- OneCPU
  CHAR_MIN = 0
  CHAR_MAX = 4
  Killers = {}
  BadCallers = {}
  MaxPid = 3
SPECIFICATION Spec
INVARIANT WakesSleepersOnly
CHECK_DEADLOCK FALSE
