SPECIFICATION Spec
CONSTANTS
  Cleaner = cleaner
  EXPIRATION = 2
  GRACE = 1
  Hosts = {66, 130}
  PUBLICIPRANGESTART = 195
  PUBLICIPRANGEEND = 196
  Client = {c1}
  MaxRequests = 3
  MaxTime = 8
  MaxRestarts = 0
INVARIANTS
  LiveMappingTranslates
CHECK_DEADLOCK FALSE
