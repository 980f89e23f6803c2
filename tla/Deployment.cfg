SPECIFICATION Spec
CONSTANTS
  t1 = t1
  t2 = t2
  t3 = t3
  p1 = p1
  p2 = p2
  Thread = {t1, t2, t3}
  Prefixes = {p1, p2}
  IspOf <- MCIspOf
  PublicIPs = {ip1}
  EXPIRATION = 2
  GRACE = 2
  MaxCalls = 3
  MaxTime = 5
INVARIANTS
  AddressesApart
PROPERTIES
  ConnectsToLease
CHECK_DEADLOCK FALSE
