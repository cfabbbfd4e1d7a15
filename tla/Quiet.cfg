SPECIFICATION FairSpec
CONSTANTS
  c1 = c1
  c2 = c2
  w1 = w1
  w2 = w2
  r1 = r1
  r2 = r2
  g1 = g1
  Clients = {c1, c2}
  Groups = {g1}
  Sessions = {s1, s2}
  Writers = {w1, w2}
  ClientOf <- MCOneEach
  Limits = {1}
  LimitCap = 1
  DefaultMaxInFlight = 1
  QuietClients = {}
  None = None
  Requests = {r1, r2}
  PendingSize = 1
  GroupOfCall <- MCGroupOfCall
  Preferred <- MCNoPreference
  ClaimGroup <- MCClaimGroup
  ClaimLimit <- MCClaimLimit
  Impatient = {r1}
  Faults = {}
CHECK_DEADLOCK FALSE
INVARIANTS
  JobAccounted
  LoadWithinLimit
PROPERTIES
  Served
