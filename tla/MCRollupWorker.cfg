SPECIFICATION Spec
CONSTANTS
  w1 = w1
  w2 = w2
  s1 = s1
  s2 = s2
  None = None
  Workers = {w1, w2}
  RegionStats = TRUE
  Stamps = {s1, s2}
  MaxRevision = 2
  MaxFaults = 2
SYMMETRY WorkerSymmetry
INVARIANT SupersededIsOld
PROPERTY GenerationImmutable
CHECK_DEADLOCK FALSE
