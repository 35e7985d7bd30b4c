SPECIFICATION Spec
CONSTANTS
  w1 = w1
  w2 = w2
  m1 = m1
  m2 = m2
  Workers = {w1, w2}
  Ids = {m1, m2}
  Unreadable = {}
  MaxRetries = 1
  MaxBatch = 2
  Timeouts = {}
  Limit = 2
  AutoClaim = TRUE
  ClientDrops = FALSE
  MaxEntries = 3
  MaxClaims = 2
  FaultKinds = {"refused", "reply_lost", "crash"}
  MaxFaults = 1
CHECK_DEADLOCK FALSE
SYMMETRY Symmetry
INVARIANT TypeOK
INVARIANT NeverLost
INVARIANT CopiesHaveCauses
