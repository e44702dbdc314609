SPECIFICATION FairSpec
CONSTANTS
  m1 = m1
  m2 = m2
  None = None
  Messages = {m1, m2}
  Jobs <- SampleJobs
  MaxReceive = 3
  MaxFaults = 1
  MaxSlow = 1
INVARIANT AcknowledgedAccounted
INVARIANT ManifestBacked
PROPERTY PersistedNotRejudged
PROPERTY RegisterSpec
PROPERTY PersistedIsDelivered
CHECK_DEADLOCK FALSE
