\* Four devices that join one of two groups, move to the other, leave, come
\* back and fill up in every order.
SPECIFICATION RRSpec
CONSTANTS
  Clients = {c1, c2, c3, c4}
  Groups = {g1, g2}
  Sessions = {s1, s2, s3, s4}
  Writers = {}
  ClientOf <- MCClientOf
  Limits = {1}
  LimitCap = 1
  DefaultMaxInFlight = 1
  QuietClients = {}
  None = None
SYMMETRY MCSymmetry
INVARIANTS
  NoOvertaking
  BoundedWait
  RosterInv
  CursorInv
