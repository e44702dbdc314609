SPECIFICATION Spec
CONSTANTS
  Films <- SampleFilms
  Batch = 2
  PoolEntries = 2
  PoolBytes = 30
  ValidObject <- SampleValidObject
  ValidSpawns <- SampleValidSpawns
  ValidNode <- SampleValidNode
  Stride = 2
  TimerAt <- SampleTimers
  Rigs <- SampleRigs
  MaxPlayers = 2
  PositionOf <- SamplePositions
  Rigid <- SampleRigid
  Step = 3
  PoseError = 1
  MaxQuantum = 12
  MaxNesting = 6
  MaxSlots = 6
  Definitions <- SampleDefinitions
  Limits <- SampleLimits
  RootFields <- SampleRoot
  LongStrings = {"long"}
  Valid <- SampleValid
  IntegerOf <- SampleIntegers
  Extrapolate <- SampleExtrapolate
  ByteBits = 2
  Float32Bits = 4
  MaxSafe = 63
  MaxDepth = 8
  KeyframeInterval = 3
INVARIANT FramesHoldTheirTick
PROPERTY IncrementalIsGeneric
PROPERTY PosesReplay
PROPERTY HeapSpec
