SPECIFICATION Spec
CONSTANTS
  Attempts = {a1, a2}
  NoAttempt = none
  Procs = {p1, p2}
  MaxRecon = 1
  Targets = {}
  MaxHeld = 1
  Ops = {"initiate", "expiry", "courier", "adminReconcile"}
SYMMETRY Symmetry
INVARIANTS ExpiredOrderUnconfirmed
CHECK_DEADLOCK FALSE
