CONSTANTS
  Key = {k1, k2, k3, k4, k5}
  Replica = {p1, p2}
  Rotator = {w, a}
  Worker = w
  Signer = {}
  None = None
  Period = 1
  TTL = 0
  Lateness = 1
  MaxTime = 3
  Serial = FALSE
  MayAbort = FALSE
  MaySleep = FALSE
SPECIFICATION Spec
SYMMETRY Symmetry
INVARIANTS SomeKeySigns
CHECK_DEADLOCK FALSE
