CONSTANTS
  Key = {k1, k2, k3, k4, k5}
  Replica = {p1}
  Rotator = {w, a}
  Worker = w
  Signer = {s1}
  None = None
  Period = 1
  TTL = 1
  Lateness = 1
  MaxTime = 4
  Serial = TRUE
  MayAbort = TRUE
  MaySleep = FALSE
SPECIFICATION Spec
SYMMETRY Symmetry
INVARIANTS OneSigner LiveTokensVerifyUntilExpiry
PROPERTIES KeysMoveForward KeysAreARing
CHECK_DEADLOCK FALSE
