SPECIFICATION Spec
CONSTANTS
  c1 = c1
  c2 = c2
  w1 = w1
  w2 = w2
  r1 = r1
  r2 = r2
  g1 = g1
  Clients = {c1}
  Groups = {g1}
  Sessions = {s1, s2, s3}
  Writers = {w1, w2}
  ClientOf <- MCReconnecting
  Limits = {1, 2}
  LimitCap = 2
  DefaultMaxInFlight = 1
  QuietClients = {}
  None = None
  Requests = {r1, r2}
  PendingSize = 2
  GroupOfCall <- MCGroupOfCall
  Preferred <- MCNoPreference
  ClaimGroup <- MCClaimGroup
  ClaimLimit <- MCClaimGrowing
  Impatient = {r1}
  Faults = {"socket"}
CHECK_DEADLOCK FALSE
INVARIANTS
  SlotsCovered
  NoStrayConnection
  NoLostWakeup
