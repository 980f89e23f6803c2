SPECIFICATION Spec
CONSTANTS
  Client = {c1, c2}
  Cleaner = cleaner
  CleanerLock = "copy"
  MaxInserts = 3
INVARIANTS
  InsertedUnderLock
CHECK_DEADLOCK FALSE
