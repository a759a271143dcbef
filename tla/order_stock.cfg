SPECIFICATION Spec
CONSTANTS
  Attempts = {a1, a2}
  NoAttempt = none
  Procs = {p1, p2}
  MaxRecon = 1
  Targets = {}
  MaxHeld = 2
  Ops = {"initiate", "retry", "fail", "expiry", "reject"}
SYMMETRY Symmetry
INVARIANTS ActiveOrderHoldsStock
CHECK_DEADLOCK FALSE
