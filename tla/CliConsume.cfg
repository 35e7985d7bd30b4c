SPECIFICATION CliFairSpec
CONSTANTS
  w1 = w1
  w2 = w2
  m1 = m1
  m2 = m2
  Workers = {w1, w2}
  Shells = {w2}
  Actions = {"none", "ack", "nack_requeue", "nack_dead_letter", "retry"}
  Ids = {m1, m2}
  Unreadable = {}
  MaxRetries = 0
  MaxBatch = 2
  Limit = 2
  BlocksForever = FALSE
  FaultKinds = {"refused", "reply_lost", "crash"}
  MaxFaults = 1
INVARIANT CliTypeOK
INVARIANT OnlyFailuresStrand
PROPERTY ProcessesEnd
