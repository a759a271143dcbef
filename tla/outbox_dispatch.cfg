SPECIFICATION FairSpec
CONSTANTS
  Events = {e1}
  Workers = {w1, w2}
  None = none
  BatchSize = 1
  MaxRetries = 2
  LockTables = TRUE
  MaxQueued = 4
INVARIANTS TypeOK OneDeliveryPerQueueing LogIsTrue DeadLetterIffExhausted
PROPERTIES LiveLeaseRespected ClaimedRowSettles
CHECK_DEADLOCK FALSE
