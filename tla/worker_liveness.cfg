SPECIFICATION FairSpec
CONSTANTS
  Attempts = {a1}
  NoAttempt = none
  Procs = {p1, p2}
  MaxRecon = 1
  Targets <- OrderStatus
  MaxHeld = 1
  BatchSize = 1
  Ops = {"initiate", "reconcile", "expiry", "status"}
PROPERTIES UnpaidOrderIsResolved
CHECK_DEADLOCK FALSE
