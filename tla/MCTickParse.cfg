SPECIFICATION FairSpec
CONSTANTS
  w1 = w1
  w2 = w2
  w3 = w3
  Workers = {w1, w2, w3}
  Window = 1
  Total = 4
  Replays <- SampleReplays
  Viewer = TRUE
  IngestCapacity = 1
  MaxPanics = 1
INVARIANT EarliestErrorReported
INVARIANT OkMeansComplete
PROPERTY StreamSpec
PROPERTY Termination
CHECK_DEADLOCK FALSE
