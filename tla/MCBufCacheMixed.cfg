CONSTANTS
  p1 = p1 p2 = p2 p3 = p3 v1 = v1 v2 = v2 k1 = k1 k2 = k2 k3 = k3
  Proc <- ThreeProcs
  NBUF = 3
  Key <- SecondDisk
  Val = {v1, v2}
  Outcome = {TRUE}
SPECIFICATION Spec
INVARIANTS BreadReturnsBlock
CHECK_DEADLOCK FALSE
