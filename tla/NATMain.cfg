SPECIFICATION FairSpec
CONSTANTS
  Main = main
  Peer = {"server", "dns", "stranger"}
  MaxStarts = 3
INVARIANTS
  NeverLockedOut
  NoStrangerServed
  CleanExit
  AtMostOneMore
PROPERTIES
  QuitHonoured
CHECK_DEADLOCK FALSE
