SPECIFICATION Spec
CONSTANTS
  FirstCode = "first"
  FirstConfig = "base"
  Releases = {"a", "b"}
  Promotions = {"cdn"}
  Supported <- OnlyReleaseB
  Serialized = FALSE
  MaxAttempts = 1
  MaxFaults = 0
  MaxRollbacks = 1
CHECK_DEADLOCK FALSE
PROPERTY ConfigurationKeepsCode
PROPERTY PromotesSupported
PROPERTY OvertakenNeverPromotes
PROPERTY ReleaseIsLive
