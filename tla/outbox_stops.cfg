SPECIFICATION FairSpec
CONSTANTS
  Events = {e1}
  Workers = {w1}
  None = none
  BatchSize = 1
  MaxRetries = 1
  LockTables = TRUE
  MaxQueued = 1
PROPERTIES QueuedRowIsClaimed
CHECK_DEADLOCK FALSE
