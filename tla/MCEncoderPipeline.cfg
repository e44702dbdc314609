SPECIFICATION FairSpec
CONSTANTS
  Batch = 2
  Frames = 4
  Interval = 4
  Total = 15
  MaxFaults = 2
INVARIANT NoMutualWait
INVARIANT EncoderErrorTold
INVARIANT OkMeansCompressed
PROPERTY StreamSpec
PROPERTY Termination
CHECK_DEADLOCK FALSE
