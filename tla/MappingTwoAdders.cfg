SPECIFICATION Spec
CONSTANTS
  Cleaner = cleaner
  EXPIRATION = 2
  GRACE = 1
  Hosts = {66}
  PUBLICIPRANGESTART = 195
  PUBLICIPRANGEEND = 195
  Client = {c1, c2}
  MaxRequests = 3
  MaxTime = 4
  MaxRestarts = 1
SYMMETRY ClientSymmetry
INVARIANTS
  RulesOwned
  SharedByFew
  GraceProtectsMatch
CHECK_DEADLOCK FALSE
