CONSTANTS
  Code = {c1, c2, c3}
  Request = {r1, r2}
  None = None
  Window = 2
  TTL = 3
  MaxAttempts = 2
  MaxTime = 4
SPECIFICATION Spec
SYMMETRY Symmetry
INVARIANTS AcceptedOnceUnlessRaced FewUsableCodes GuessesBoundedUnlessRaced
CHECK_DEADLOCK FALSE
