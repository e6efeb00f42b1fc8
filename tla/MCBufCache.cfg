CONSTANTS
  p1 = p1 p2 = p2 p3 = p3 v1 = v1 v2 = v2 k1 = k1 k2 = k2 k3 = k3
  Proc <- ThreeProcs
  NBUF = 2
  Key <- TwoDisks
  Val = {v1, v2}
  Outcome = {TRUE, FALSE}
SPECIFICATION Spec
INVARIANTS OneBufferPerBlock BlockKept CacheCoherent
PROPERTIES PinnedKept
SYMMETRY Symmetric
CHECK_DEADLOCK FALSE
