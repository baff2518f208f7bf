SPECIFICATION MCSpec
CONSTANTS
  l1 = l1
  l2 = l2
  d1 = d1
  NoData = NoData
  Logins = {l1, l2}
  InitData = {d1}
  Skews = {0, 1}
  MaxAge = 3
  Ahead = 1
  NonceTtl = 3
  Delay = 1
  MaxTime = 7
  c1 = c1
  c2 = c2
  p1 = p1
  p2 = p2
  Clients = {c1, c2}
  Proxies = {p1, p2}
  Trusting = TRUE
  MaxHops = 4
  r1 = r1
  r2 = r2
  r3 = r3
  r4 = r4
  Requests = {r1, r2, r3, r4}
  Capacity = 2
  Second = 2
  Window = 3
  CallDelay = 1
  LastTick = 5
  MaxRestarts = 1
SYMMETRY RequestSymmetry
INVARIANTS PassesBounded KeyIsOutside WindowBound
PROPERTIES PassesApart RetryAfterSuffices
CHECK_DEADLOCK FALSE
