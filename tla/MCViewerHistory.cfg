SPECIFICATION Spec
CONSTANTS
  w1 = w1
  w2 = w2
  Samples = {}
  Replays <- HistoryReplays
  Workers = {w1, w2}
  Definitions <- SampleDefinitions
  Limits <- SampleLimits
  RootFields <- SampleRoot
  LongStrings = {"long"}
  Valid <- SampleValid
  IntegerOf <- SampleIntegers
  Extrapolate <- SampleExtrapolate
  ByteBits = 2
  Float32Bits = 3
  MaxSafe = 63
  MaxDepth = 6
  KeyframeInterval = 3
  Interval = 3
  Projected <- ProjectedText
  Refused <- Rejected
  SafeMeta <- MetadataIsSafe
  ProjectedMeta <- MetadataProjection
  Encode <- EncodeChunk
  Decode <- DecodeChunk
  Digest <- Semantic
  Bulky <- SampleBulky
  MaxTicks = 9
  MaxAttempts = 1
  MaxFaults = 0
INVARIANT LegalReplaysComplete
CHECK_DEADLOCK FALSE
