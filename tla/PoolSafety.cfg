SPECIFICATION FairSpec
CONSTANTS
  Addrs = {a1, a2, a3}
  NullAdr = NullAdr
  NumPos = 3
  MaxLive = 3
  Sizes = {1, 2}
  MayFail = TRUE
  GrowOnly = FALSE
  CounterMod = 1
INVARIANTS TypeOK FreelistExact HandleResolves NoAliasing LedgerMatchesHeap
PROPERTIES WalkEnds
