SPECIFICATION Spec
CONSTANTS
  w1 = w1
  w2 = w2
  t1 = t1
  t2 = t2
  i1 = i1
  i2 = i2
  Workers = {w1, w2}
  Tasks = {t1, t2}
  Ids = {i1, i2}
  IdOf <- OneId
  Unreadable = {}
  Limit = 2
  MaxTime = 2
  FaultKinds = {}
  MaxFaults = 0
CHECK_DEADLOCK FALSE
PROPERTY NeverEarly
