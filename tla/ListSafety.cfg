SPECIFICATION Spec
CONSTANTS
  w1 = w1
  w2 = w2
  m1 = m1
  m2 = m2
  m3 = m3
  Workers = {w1, w2}
  Ids = {m1, m2}
  Unreadable = {}
  MaxRetries = 1
  MaxBatch = 2
  Limit = 2
  BlocksForever = FALSE
  FaultKinds = {"refused", "reply_lost", "crash"}
  MaxFaults = 1
SYMMETRY Symmetry
INVARIANT TypeOK
INVARIANT SingleCopy
INVARIANT AckedGone
INVARIANT LossPerFault
INVARIANT FirstDeliveryInOrder
INVARIANT NoOrphan
PROPERTY ImplementsLifecycle
