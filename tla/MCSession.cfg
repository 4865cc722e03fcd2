SPECIFICATION FairSpec
CONSTANTS
  Wrap = 6
  ReconnectEvery = 1
  TelemetryEvery = 1
  StateEvery = 2
  KeepAlive = 3
  After = 2
  WakeInterval = 1
  Window = 1
  MaxBlock = 1
  MaxTrouble = 1
  MaxDepth = 1
  Topics <- MCTopics
INVARIANTS TypeOK HearsAgainInTime SessionIsFed
PROPERTIES StateIsTold
