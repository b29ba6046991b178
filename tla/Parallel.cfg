SPECIFICATION FairSpec
CONSTANTS
  MaxLen = 4
  MaxThreads = 2
  NullChecks = TRUE
  Unset = Unset
INVARIANTS SameAsOneThread CellsApart NoOrphans
PROPERTIES CallsReturn
CHECK_DEADLOCK FALSE
