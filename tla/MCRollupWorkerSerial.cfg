SPECIFICATION FairSpec
CONSTANTS
  w1 = w1
  w2 = w2
  s1 = s1
  s2 = s2
  None = None
  Workers = {w1}
  RegionStats = TRUE
  Stamps = {s1, s2}
  MaxRevision = 3
  MaxFaults = 4
INVARIANT ActiveReadable
INVARIANT FailureIsForUnbuilt
PROPERTY CurrentUnlessOrphaned
CHECK_DEADLOCK FALSE
