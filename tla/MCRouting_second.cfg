CONSTANTS
  s1 = s1
  s3 = s3
  s4 = s4
  n1 = n1
  n2 = n2
  d1 = d1
  d2 = d2
  c1 = c1
  c2 = c2
  None = None
  Providers = {s1, s3, s4}
  Numbers = {n1, n2, d1, d2}
  Dids = {d1, d2}
  Ids = {1, 2}
  Patterns <- ApartPatterns
  Offered <- ApartOffered
  Calls = {c1}
  Trees = {"dialplan"}
SPECIFICATION FairSpec
\* routes and calls are bounded
CHECK_DEADLOCK FALSE
PROPERTY RoutesServe
