\* Two calls written without a failure, a trim that leaves one row, a restart.
SPECIFICATION FairSpec
CONSTANTS
  Requests = {r1, r2}
  Workers = {w1}
  QueueSize = 2
  BatchSize = 3
  KeepLatest = 1
  Refused = {}
  Misnamed = {}
  MaxFailures = 0
  MaxRestarts = 1
CHECK_DEADLOCK FALSE
PROPERTIES
  AggregatesKept
