SPECIFICATION Spec
CONSTANTS
  Filter = {f1, f2}
  Listener = {}
  MaxRequests = 1
  MaxTimeouts = 0
  LongAddress = {}
  MayClose = FALSE
  Window = 12
  WindowBack = 12
  WindowUnread = 12
INVARIANTS
  TokensOfOwnRequest
CHECK_DEADLOCK FALSE
