SPECIFICATION FairSpec
CONSTANTS
  Thread = {t1, t2}
  Host = {h1, h2}
  TTLs = {0, 1}
  MaxCalls = 5
  MaxTime = 2
  Names <- MCNames
INVARIANTS
  NoFreshAnswerLost
  OneFreshAnswer
  NothingFreedIsUsed
  EntriesGivenBack
  QueriesAreRead
PROPERTIES
  TrialEnds
CHECK_DEADLOCK FALSE
