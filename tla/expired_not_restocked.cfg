SPECIFICATION Spec
CONSTANTS
  Attempts = {a1}
  NoAttempt = none
  Procs = {p1}
  MaxRecon = 1
  Targets = {}
  MaxHeld = 1
  Ops = {"initiate", "expiry"}
INVARIANTS ExpiredOrderIsRestocked
CHECK_DEADLOCK FALSE
