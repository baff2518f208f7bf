SPECIFICATION MCSpec
CONSTANTS
  v1 = v1
  v2 = v2
  NoOne = NoOne
  k1 = k1
  k2 = k2
  Contracts = {k1, k2}
  Page = 3
  Amounts = {1, 2}
  Writers = {v1, v2}
  MaxBlock = 2
  Native <- MCNative
  Tokens <- MCTokens
  Price = 1
  MaxClock = 3
INVARIANTS TotalHasSnapshot HoldingsShown
PROPERTIES AloneWritesAll SyncedAtForward WriterEnds
CHECK_DEADLOCK FALSE
