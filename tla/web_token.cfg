SPECIFICATION FairSpec
CONSTANTS
  l1 = l1
  l2 = l2
  d1 = d1
  NoData = NoData
  Logins = {l1, l2}
  InitData = {d1}
  Skews = {0, 1}
  MaxAge = 1
  Ahead = 1
  NonceTtl = 4
  Delay = 1
  MaxTime = 6
PROPERTIES StaysSignedIn
CHECK_DEADLOCK FALSE
