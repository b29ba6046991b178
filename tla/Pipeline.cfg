SPECIFICATION Spec
CONSTANTS
  Bits <- MCBits
  NaN = 1000
  Unset = Unset
  Undetermined = 7
  RootKey = 4
  Ids <- MCIds
  BlockSize = 4
  Source <- MCSource
  MaxTokens = 5
  Long <- MCLong
  Documents <- MCDocuments
  Masks <- MCMasks
  StaleOids = {0, 1}
INVARIANTS DocumentsRead Nested NoArrayOfArrays
INVARIANTS ColumnsRepresent RecordSorted ReadersAgree IterationExact ConvertsBack
PROPERTIES MismatchStays
CHECK_DEADLOCK FALSE
