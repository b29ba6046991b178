SPECIFICATION FairSpec
CONSTANTS
  Entries <- MCEntries
  Unknown = {8}
  Occurs <- MCOccurs
  Needles = {"phone", "name", ""}
  Size <- MCSize
  HeaderSize = 21
  FirstEntry = 47
  Vector = 3
  HashOf <- MCHashOf
  Slots = 3
  Buckets = {1, 2}
  Limits <- MCLimits
  None = None
INVARIANTS AnswersRight CacheIsLRU
PROPERTIES OperationsEnd
CHECK_DEADLOCK FALSE
