SPECIFICATION FairSpec
CONSTANTS
  w1 = w1
  w2 = w2
  Samples = {0, 2, 4, 6, 8, 10, 12, 14, 16, 18, 20, 22, 24, 26, 28, 30, 32, 34, 36, 38, 40, 42, 44, 46, 48, 50, 52, 54, 56, 58, 60, 62, 64, 66, 68, 70, 72, 74, 76, 78, 80, 82, 84, 86, 88, 90, 92, 94, 96, 98, 100, 102, 104, 106, 108, 110, 112, 114, 116, 118, 120, 122, 124, 126, 128, 130, 132, 134, 136, 138, 140, 142, 144, 146, 148, 150, 152, 154, 156, 158}
  Replays <- SampleReplays
  Workers = {w1, w2}
  Definitions <- SampleDefinitions
  Limits <- SampleLimits
  RootFields <- SampleRoot
  LongStrings = {"long"}
  Valid <- SampleValid
  IntegerOf <- SampleIntegers
  Extrapolate <- SampleExtrapolate
  ByteBits = 2
  Float32Bits = 3
  MaxSafe = 63
  MaxDepth = 6
  KeyframeInterval = 3
  Interval = 3
  Projected <- ProjectedText
  Refused <- Rejected
  SafeMeta <- MetadataIsSafe
  ProjectedMeta <- MetadataProjection
  Encode <- EncodeChunk
  Decode <- DecodeChunk
  Digest <- Semantic
  Bulky <- SampleBulky
  MaxTicks = 9
  MaxAttempts = 2
  MaxFaults = 1
INVARIANT ProjectorsAgree
INVARIANT LegalReplaysComplete
INVARIANT OutputReplays
PROPERTY WriterTerminates
CHECK_DEADLOCK FALSE
