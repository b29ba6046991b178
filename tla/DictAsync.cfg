SPECIFICATION FairSpec
CONSTANTS
  s1 = s1
  s2 = s2
  s3 = s3
  Null = Null
  NoId = NoId
  Nobody = Nobody
  NumCarriers = 2
  ThreadLimit = 2
  LocalLimit = 3
  MaxBatch = 2
  Clients = {c1,c2}
  Leftovers = {1}
  NestedCalls = FALSE
  Strings <- MCStrings
  CarrierOf <- MCCarrierOf
INVARIANTS CollectsOwnWork
PROPERTIES ImplementsDictionary HoldersReturn
