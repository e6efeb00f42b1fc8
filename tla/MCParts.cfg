CONSTANTS
  Cpu = {c1, c2}
  Lock = {l1, l2}
  NoCpu = NoCpu
  Depth = 2
  Proc = {p1, p2}
SPECIFICATION PartsSpec
INVARIANTS
  MutualExclusion NoSelfDeadlock OnlyMisusePanics PagesOwned  SleepersWoken SleepsLongEnough
  ParsedAsMeant PipesWired FunctionsExact HeapSound GrepExact ImageSound
PROPERTIES
  ImplementsLineInput TextKept KeysMeant
CHECK_DEADLOCK FALSE
