SPECIFICATION FairSpec
CONSTANTS
  h1 = h1
  h2 = h2
  h3 = h3
  w1 = w1
  w2 = w2
  w3 = w3
  a1 = a1
  a2 = a2
  a3 = a3
  Nothing = Nothing
  Handlers = {h1, h2}
  Wallets = {w1, w2, w3}
  Address <- MCAddress
  Alerts = {a1, a2, a3}
  WalletOf <- MCWalletOf
  WalletQuota = 1
  AlertQuota = 1
INVARIANTS OneRowPerAddress ChangesHit
PROPERTIES ImplementsBook RequestEnds
CHECK_DEADLOCK FALSE
