SPECIFICATION Spec
CONSTANTS
  None = None
  Devices = {d1}
  Ops = {o1, o2, o3}
  MaxKeys = 2
SYMMETRY OpSymmetry
INVARIANTS
  RosterTypeOK
  ApiModeHasKey
  RevokedStaysRevoked
  OnlineWasListed
  FailedBeatRetried
PROPERTIES
  DeletionSparesOnline
