SPECIFICATION FairSpec
CONSTANTS
  After = 3
  WakeInterval = 3
  Window = 2
  Retry = 2
  Period = 1
  MaxBringUp = 1
  MaxCommand = 1
  Topics = 6
  MaxInbox = 1
  Message = {"command", "to_wifi", "to_lte", "unsigned"}
  Consoles = {"usb", "wifi"}
  Transports = {"wifi", "lte"}
  GpsAutostart = TRUE
  Reliable = FALSE
INVARIANTS TypeOK AwakeIsRestored
PROPERTIES OpenPageKeepsAwake UnusedDeviceSleeps ControlRegained
