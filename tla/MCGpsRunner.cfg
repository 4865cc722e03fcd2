SPECIFICATION FairSpec
CONSTANTS
  Wrap = 8
  EnableRetry = 2
  PollInterval = 1
  Recheck = 1
  EnableTimeout = 1
  FirstColdStart = 2
  ColdStartRetry = 2
  MaxBlock = 1
  GpsAutostart = TRUE
INVARIANTS TypeOK SeenIsOn RunnerKeepsTime
PROPERTIES ColdStartsGoOn ReceiverComesUp
