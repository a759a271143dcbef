SPECIFICATION StripeFairSpec
CONSTANTS
  Intents = {a1}
  Bare = bare
  Own = own
  Requests = {r1, r2}
  Nobody = nobody
  MaxAnnounced = 2
INVARIANTS StripeSafety ExpiryLeavesNoOpenIntent
PROPERTIES CapturedIsRecorded
CHECK_DEADLOCK FALSE
