SPECIFICATION FairSpec
CONSTANTS
  w1 = w1
  w2 = w2
  t1 = t1
  t2 = t2
  i1 = i1
  i2 = i2
  Workers = {w1, w2}
  Tasks = {t1, t2}
  Ids = {i1, i2}
  IdOf <- DistinctIds
  Unreadable = {t1}
  Limit = 2
  MaxTime = 2
  FaultKinds = {"refused", "reply_lost", "crash"}
  MaxFaults = 2
CHECK_DEADLOCK FALSE
INVARIANT TypeOK
INVARIANT LossPerFault
INVARIANT DuplicatePerFault
INVARIANT DebrisPerFault
PROPERTY NeverEarly
PROPERTY DueReleased
