SPECIFICATION Spec
CONSTANTS
  Attempts = {a1}
  NoAttempt = none
  Procs = {p1, p2}
  MaxRecon = 1
  Targets = {"CANCELLED"}
  MaxHeld = 1
  Ops = {"initiate", "retry", "fail", "cancel", "reconcile", "expiry", "hold", "status",
         "approve", "reject", "adminReconcile"}
SYMMETRY Symmetry
INVARIANTS TypeOK PaidMeansCaptured OneConsequence PaidOrderIsAnnounced
PROPERTIES PaidStays
CHECK_DEADLOCK FALSE
