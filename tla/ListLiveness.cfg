SPECIFICATION FairSpec
CONSTANTS
  w1 = w1
  w2 = w2
  m1 = m1
  m2 = m2
  m3 = m3
  Workers = {w1, w2}
  Ids = {m1, m2, m3}
  Unreadable = {m3}
  MaxRetries = 0
  MaxBatch = 1
  Limit = 2
  BlocksForever = FALSE
  FaultKinds = {"crash"}
  MaxFaults = 1
PROPERTY CallsReturn
PROPERTY StrandedRecovered
