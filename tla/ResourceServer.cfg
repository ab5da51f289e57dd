CONSTANTS
  Token = {t1}
  Key = {k1, k2}
  Reader = {q1, q2}
  Revoker = {r1}
  None = None
  TTL = 2
  MaxTime = 4
  Cooldown = 2
  MaxAge = 3
  CacheTTL = 2
  Lag = 1
SPECIFICATION Spec
SYMMETRY Symmetry
INVARIANTS DenylistOutlivesToken NewKeysAreFound
PROPERTIES RevocationTakesHold LiveTokensAreActive
CHECK_DEADLOCK FALSE
