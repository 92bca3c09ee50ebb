CONSTANTS
  s1 = s1
  s3 = s3
  s4 = s4
  n1 = n1
  n2 = n2
  d1 = d1
  d2 = d2
  c1 = c1
  c2 = c2
  None = None
  Providers = {s1, s3, s4}
  Numbers = {n1, n2, d1}
  Dids = {d1}
  Ids = {1}
  Patterns <- MCPatterns
  Offered <- MCOffered
  Calls = {c1, c2}
  Trees = {"dialplan", "conf"}
SPECIFICATION FairSpec
\* routes and calls are bounded
CHECK_DEADLOCK FALSE
INVARIANTS
  TypeOK
  FollowsRoute
PROPERTY CallsEnd
