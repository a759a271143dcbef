SPECIFICATION PartSpec
CONSTANTS
  Checkouts = {c1, c2}
  Forms <- MCForms
  AddressBits = 2
  Spellings = {"plain", "zeros"}
  Entries <- MCEntries
  Histories <- MCHistories
  Processors = {w1, w2}
  BatchSize = 2
  MaxAttempts = 1
  MaxClaims = 3
  LockTables = TRUE
INVARIANTS RiskSafety GivenUpWhenExhausted
PROPERTIES NoOrderOfBlocked
CHECK_DEADLOCK FALSE
