CONSTANTS
  Key = {k1, k2, k3, k4, k5}
  Replica = {p1}
  Rotator = {w}
  Worker = w
  Signer = {s1}
  None = None
  Period = 4
  TTL = 2
  Lateness = 1
  MaxTime = 13
  Serial = TRUE
  MayAbort = FALSE
  MaySleep = FALSE
SPECIFICATION Spec
SYMMETRY Symmetry
INVARIANTS LiveTokensVerify
CHECK_DEADLOCK FALSE
