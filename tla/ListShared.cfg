SPECIFICATION Spec
CONSTANTS
  Client = {c1, c2, c3}
  Cleaner = cleaner
  CleanerLock = "list"
  MaxInserts = 5
SYMMETRY ClientSymmetry
INVARIANTS
  TypeOK
  Intact
  PointersAlive
PROPERTIES
  ImplementsQueue
CHECK_DEADLOCK TRUE
