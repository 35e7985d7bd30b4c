SPECIFICATION Spec
CONSTANTS
  c1 = c1
  c2 = c2
  c3 = c3
  c4 = c4
  k1 = k1
  k2 = k2
  Calls = {c1, c2, c3, c4}
  DedupKeys = {k1, k2}
  KeyOf <- ThreeAndOne
  MaxExpiries = 0
  FaultKinds = {"refused"}
  MaxFaults = 1
CHECK_DEADLOCK FALSE
INVARIANT OncePerWindow
