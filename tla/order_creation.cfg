SPECIFICATION FairSpec
CONSTANTS
  NumProducts = 2
  Sized = {1}
  Calls = {c1, c2}
  Admins = {s1}
  None = none
  u1 = u1
  u2 = u2
  k1 = k1
  Requests <- MCRequests
  Statuses = {"ORDER_PLACED", "CANCELLED"}
  StartStock = 2
  StockForms = {1}
  StartLimit = 1
  UserLimit = 1
  LimitForms = {1, 2}
  MaxEdits = 1
  MaxRetries = 2
  Pools = {2, 3}
INVARIANTS TypeOK StockBalance EveryUseCounted CreationsDoNotDeadlock
PROPERTIES RedeemsWithinLimit LedgerHolds CallIsAnswered
CHECK_DEADLOCK FALSE
