SPECIFICATION FairSpec
CONSTANTS
  FirstCode = "first"
  FirstConfig = "base"
  Releases = {"a"}
  Promotions = {"cdn"}
  Supported <- SupportsAll
  Serialized = TRUE
  MaxAttempts = 3
  MaxFaults = 1
  MaxRollbacks = 1
CHECK_DEADLOCK FALSE
INVARIANT ConfirmedConfigurationStays
PROPERTY EveryInvocationSettles
PROPERTY LoneReleaseGoesLive
