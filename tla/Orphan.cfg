SPECIFICATION FairSpec
CONSTANTS
  c1 = c1
  c2 = c2
  w1 = w1
  w2 = w2
  r1 = r1
  r2 = r2
  g1 = g1
  Clients = {c1}
  Groups = {g1}
  Sessions = {s1, s2, s3}
  Writers = {w1, w2}
  ClientOf <- MCReconnecting
  Limits = {1}
  LimitCap = 1
  DefaultMaxInFlight = 1
  QuietClients = {}
  None = None
  Requests = {r1}
  PendingSize = 1
  GroupOfCall <- MCGroupOfCall
  Preferred <- MCNoPreference
  ClaimGroup <- MCClaimGroup
  ClaimLimit <- MCClaimLimit
  Impatient = {}
  Faults = {"socket"}
CHECK_DEADLOCK FALSE
PROPERTIES
  Served
