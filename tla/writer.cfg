\* The ingest writer: three concurrent calls of Enqueue, two of Close, a store that
\* may fail any attempt, goroutines scheduled fairly.
SPECIFICATION FairSpec
CONSTANTS
  r1 = r1
  r2 = r2
  r3 = r3
  k1 = k1
  k2 = k2
  Free = Free
  Request = {r1, r2, r3}
  Closer = {c1, c2}
  Key = {k1, k2}
  Body <- MCBody
  BodyBytes <- MCBodyBytes
  BatchSize = 2
  QueueSize = 3
  MaxQueueBytes = 5
  MaxAttempts = 3
INVARIANTS
  InFlightExact
  BudgetRespected
  SendNeverBlocks
  Accounting
  DrainedOnExit
  StoreFollowsLog
PROPERTIES
  ImplementsPromise
  AcceptedSettles
  CloseDrains
CHECK_DEADLOCK FALSE
