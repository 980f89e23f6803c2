SPECIFICATION FairSpec
CONSTANTS
  f = f
  l = l
  Filter = {f}
  Listener = {l}
  MaxRequests = 3
  MaxTimeouts = 2
  LongAddress <- MCLongAddress
  MayClose = TRUE
  Window = 6
  WindowBack = 5
  WindowUnread = 3
CONSTRAINT NoTokenRace
INVARIANTS
  TypeOK
  
PROPERTIES
  LagBounded
  AnswersInOrder
  JamIsForGood
  EveryRequestRead
CHECK_DEADLOCK FALSE
