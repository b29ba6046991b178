SPECIFICATION FairSpec
CONSTANTS
  a = a
  b = b
  c = c
  Null = Null
  NoId = NoId
  Buckets = {1}
  Capacity = 1
  MaxBatch = 3
  BitsPerString = 22
  BitmapLimit = 66
  Strings <- MCStrings
  Hash <- MCHash
  Bucket <- MCBucket
  SliceCapacity = 2
  MaxHash = 3
INVARIANTS FreelistExact IndexExact IdsResolve
PROPERTIES ImplementsDictionary CallsReturn
