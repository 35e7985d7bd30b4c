SPECIFICATION PubFairSpec
CONSTANTS
  c1 = c1
  c2 = c2
  s1 = s1
  s2 = s2
  k1 = k1
  Tasks = {c1, c2}
  Schedulers = {s1, s2}
  Workers <- MCWorkers
  Ids = {c1, c2}
  IdOf <- OwnId
  Unreadable = {}
  DedupKeys = {k1}
  KeyOf <- OneKey
  MaxExpiries = 1
  Limit = 1
  MaxTime = 2
  FaultKinds = {"refused", "reply_lost", "crash"}
  MaxFaults = 1
  MaxDedupFaults = 2
CHECK_DEADLOCK FALSE
INVARIANT PubTypeOK
INVARIANT ReleasedOnce
PROPERTY ImplementsDedup
PROPERTY AnswerReleased
