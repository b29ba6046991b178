SPECIFICATION Spec
CONSTANTS
  Entries <- MCEntries
  Unknown = {8}
  Occurs <- MCOccurs
  Needles = {"phone"}
  Size <- MCSize
  HeaderSize = 21
  FirstEntry = 47
  Vector = 3
  HashOf <- MCHashOf
  Slots = 3
  Buckets = {1, 2}
  Limits <- MCNoLimit
  None = None
INVARIANTS EqualsFindsEqual
CHECK_DEADLOCK FALSE
