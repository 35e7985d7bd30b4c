SPECIFICATION FairSpec
CONSTANTS
  c1 = c1
  c2 = c2
  c3 = c3
  c4 = c4
  k1 = k1
  k2 = k2
  Calls = {c1, c2, c3, c4}
  DedupKeys = {k1, k2}
  KeyOf <- ThreeAndOne
  MaxExpiries = 2
  FaultKinds = {"refused", "reply_lost", "crash"}
  MaxFaults = 3
CHECK_DEADLOCK FALSE
INVARIANT TypeOK
INVARIANT OnceAndAgreed
INVARIANT AnswerIsPublished
INVARIANT StuckNeedsTwoRefusals
PROPERTY EveryCallDelivers
