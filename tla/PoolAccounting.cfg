SPECIFICATION Spec
CONSTANTS
  Addrs = {a1, a2, a3}
  NullAdr = NullAdr
  NumPos = 3
  MaxLive = 2
  Sizes = {1, 2}
  MayFail = FALSE
  GrowOnly = TRUE
  CounterMod = 3
INVARIANTS RequestBacked
PROPERTIES BalanceKept
