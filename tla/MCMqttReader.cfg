SPECIFICATION Spec
CHECK_DEADLOCK FALSE
CONSTANTS
  Base = 4
  Word = 64
  Packets <- MCPackets
  Refused <- MCRefused
INVARIANTS TypeOK 
PROPERTIES InStep
