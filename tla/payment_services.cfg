SPECIFICATION ServicesSpec
CONSTANTS
  Items = {e1}
  Workers = {w1, w2}
  None = none
  MaxRetries = 2
  Keys = {auto, k1, k2}
  Automatic = auto
  Amount = 3
INVARIANTS ServicesTypeOK ProcessedWasConfirmed ReturnsWithinPayment OrderTellsRefunds
PROPERTIES LiveLeaseNotClaimed AcknowledgedIsHandled
CHECK_DEADLOCK FALSE
