SPECIFICATION FairSpec
CONSTANTS
  w1 = w1
  w2 = w2
  m1 = m1
  m2 = m2
  Workers = {w1, w2}
  Ids = {m1, m2}
  Unreadable = {}
  MaxRetries = 0
  MaxBatch = 1
  Timeouts = {}
  Limit = 2
  AutoClaim = TRUE
  ClientDrops = TRUE
  MaxEntries = 2
  MaxClaims = 0
  FaultKinds = {"crash"}
  MaxFaults = 1
CHECK_DEADLOCK FALSE
PROPERTY StrandedRecovered
