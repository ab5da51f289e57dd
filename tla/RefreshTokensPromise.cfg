CONSTANTS
  Token = {t1, t2}
  Request = {r1, r2}
  User = {u1}
  App = {a1}
  None = None
  Expirable = {t1, t2}
  Mortal = {r2}
SPECIFICATION FairSpec
PROPERTIES PromiseKept ReplayEndsSession
CHECK_DEADLOCK FALSE
