\* One server process from its start to its end: two requests, a signal at any
\* moment, a deadline that may pass at any moment after it.
SPECIFICATION FairLifeSpec
CONSTANTS
  r1 = r1
  r2 = r2
  k1 = k1
  k2 = k2
  Free = Free
  Request = {r1, r2}
  Closer = {closer}
  Key = {k1, k2}
  Body <- MCBody
  BodyBytes <- MCBodyBytes
  BatchSize = 2
  QueueSize = 2
  MaxQueueBytes = 3
  MaxAttempts = 2
INVARIANTS
  ClosedOnlyLate
  TimelyExitDrains
PROPERTY SignalEnds
CHECK_DEADLOCK FALSE
