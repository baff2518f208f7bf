SPECIFICATION FairSpec
CONSTANTS
  h1 = h1
  h2 = h2
  s1 = s1
  s2 = s2
  s3 = s3
  NoOne = NoOne
  Handlers = {h1, h2}
  Sessions = {s1, s2, s3}
  Quota = 1
  MaxExpired = 1
INVARIANTS SessionsBounded RevokesAll
PROPERTIES RequestEnds
CHECK_DEADLOCK FALSE
