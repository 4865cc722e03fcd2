SPECIFICATION Spec
CONSTANTS
  After = 3
  WakeInterval = 2
  Window = 2
  Retry = 2
  Period = 1
  MaxBringUp = 1
  MaxCommand = 1
  Topics = 6
  MaxInbox = 1
  Message = {"to_wifi", "to_lte"}
  Consoles = {}
  Transports = {"wifi", "lte"}
  GpsAutostart = TRUE
  Reliable = TRUE
PROPERTIES SwitchKeepsControl
