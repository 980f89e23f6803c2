SPECIFICATION Spec
CONSTANTS
  Cleaner = cleaner
  EXPIRATION = 2
  GRACE = 1
  Client = {c1, c2}
  IPs = {ip1, ip2}
  MaxRequests = 4
  MaxTime = 5
  MaxRestarts = 1
SYMMETRY BanSymmetry
INVARIANTS
  BanEnforced
  BanKept
  NoForgottenBan
CHECK_DEADLOCK FALSE
