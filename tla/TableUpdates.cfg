SPECIFICATION Spec
CONSTANTS
  k1 = k1
  k2 = k2
  k3 = k3
  k4 = k4
  Values = {1, 2}
  NoValue = NoValue
  InitialCapacity = 4
  MaxCapacity = 8
  Keys <- MCKeys
  Hash <- MCHash
INVARIANTS LatestWins
