SPECIFICATION FairSpec
CONSTANTS
  After = 3
  WakeInterval = 15
  Window = 7
  Retry = 10
  Period = 10
  MaxBringUp = 3
  MaxCommand = 0
  Topics = 6
  MaxInbox = 1
  Message = {}
  Consoles = {}
  Transports = {"wifi"}
  GpsAutostart = TRUE
  Reliable = TRUE
PROPERTIES OpenPageWakes
