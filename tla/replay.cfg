SPECIFICATION Spec
CONSTANTS
  l1 = l1
  l2 = l2
  d1 = d1
  NoData = NoData
  Logins = {l1}
  InitData = {d1}
  Skews = {1}
  MaxAge = 5
  Ahead = 1
  NonceTtl = 5
  Delay = 0
  MaxTime = 7
INVARIANTS ReplayBlocked
CHECK_DEADLOCK FALSE
