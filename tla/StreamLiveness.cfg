SPECIFICATION FairSpec
CONSTANTS
  w1 = w1
  w2 = w2
  m1 = m1
  m2 = m2
  Workers = {w1, w2}
  Ids = {m1, m2}
  Unreadable = {}
  MaxRetries = 0
  MaxBatch = 2
  Timeouts = {1000}
  Limit = 2
  AutoClaim = FALSE
  ClientDrops = FALSE
  MaxEntries = 2
  MaxClaims = 0
  FaultKinds = {"refused", "reply_lost", "crash"}
  MaxFaults = 1
CHECK_DEADLOCK FALSE
PROPERTY StrandedRecovered
PROPERTY WaitingEnds
