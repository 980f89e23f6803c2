SPECIFICATION FairSpec
CONSTANTS
  Cleaner = cleaner
  EXPIRATION = 2
  GRACE = 1
  Hosts = {65, 66, 130}
  PUBLICIPRANGESTART = 195
  PUBLICIPRANGEEND = 196
  Client = {c1}
  MaxRequests = 3
  MaxTime = 4
  MaxRestarts = 0
INVARIANTS
  TypeOK
  RulesInstalled
  AnswerBacked
PROPERTIES
  EstablishedBeforeRemoval
  SecondOnlyAtExpiry
  ImplementsLeaseService
  DueMappingExpires
  AddAnswered
CHECK_DEADLOCK FALSE
