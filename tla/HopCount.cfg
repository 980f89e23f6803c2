SPECIFICATION Spec
CONSTANTS
  near = near
  long = long
  Source <- MCSource
  Contains <- MCContains
  TTLs = {50, 60, 64}
  HOPLIFETIME = 2
  PERIOD = 3
  QueueSize = 2
  MaxPackets = 4
  MaxRestarts = 1
  MaxTime = 5
INVARIANTS
  TypeOK
  DroppedForACause
PROPERTIES
  ForgivenAfterBan
CHECK_DEADLOCK FALSE
