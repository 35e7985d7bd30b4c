SPECIFICATION Spec
CONSTANTS
  c1 = c1
  c2 = c2
  t1 = t1
  t2 = t2
  t3 = t3
  Clients = {c1, c2}
  Tasks = {t1, t2, t3}
  Sources = {"url", "direct", "manager"}
  Versions <- MCVersions
  FaultKinds = {"error", "timeout", "cancel", "close"}
  MaxFaults = 1
CHECK_DEADLOCK FALSE
SYMMETRY Symmetry
INVARIANT TypeOK
INVARIANT FailedMakingReleases
INVARIANT OperationsFindGroup
INVARIANT ClosedIsReleased
PROPERTY CutByOwner
