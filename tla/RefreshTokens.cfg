CONSTANTS
  Token = {t1, t2, t3, t4}
  Request = {r1, r2}
  User = {u1}
  App = {a1}
  None = None
  Expirable = {}
  Mortal = {}
SPECIFICATION Spec
SYMMETRY Symmetry
INVARIANTS SingleUseUnlessRaced OneActiveUnlessRaced SessionsEndForAReason ReportedSessionsAreDead
PROPERTIES RevocationEndsSessions
CHECK_DEADLOCK FALSE
