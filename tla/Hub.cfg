\* Two devices, one writer, two calls: one routed round-robin, one to a named
\* device, queues of one job; one may fall silent.  Asked limits 0 and 2 both
\* come to 1, the default and the cap.
SPECIFICATION HubSpec
CONSTANTS
  c1 = c1
  c2 = c2
  w1 = w1
  r1 = r1
  r2 = r2
  g1 = g1
  Clients = {c1, c2}
  Groups = {g1}
  Sessions = {s1, s2}
  Writers = {w1}
  ClientOf <- MCClientOf
  Limits = {0, 2}
  LimitCap = 1
  DefaultMaxInFlight = 1
  QuietClients = {c2}
  None = None
  Requests = {r1, r2}
  PendingSize = 1
  GroupOfCall <- MCGroupOfCall
  Preferred <- MCPreferred
SYMMETRY MCSymmetry
INVARIANTS
  RegTypeOK
  HubTypeOK
  NoStrandedCaller
  LedgerMatchesVerdict
  JobInOnePlace
  QueuesAtHome
  NoSleepOnJobs
PROPERTIES
  LedgerForward
