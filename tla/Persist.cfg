\* Three calls, one with a name too long for its record and for the metrics,
\* one worker, a channel of two tasks and batches of three; one statement may
\* fail, one restart may happen.
SPECIFICATION FairSpec
CONSTANTS
  Requests = {r1, r2, r3}
  Workers = {w1}
  QueueSize = 2
  BatchSize = 3
  KeepLatest = 1
  Refused = {r2}
  Misnamed = {r2}
  MaxFailures = 1
  MaxRestarts = 1
CHECK_DEADLOCK FALSE
INVARIANTS
  PersistTypeOK
  CountedOnce
PROPERTIES
  Isolated
