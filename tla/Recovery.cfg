CONSTANTS
  Message = {m1, m2}
  Request = {r1, r2}
  Session = {s1}
  Credential = {c1, c2}
  None = None
  MaxPassword = 2
  Attempts = 2
  MaxStalls = 1
  Unlucky = {m1}
SPECIFICATION Spec
INVARIANTS OldSessionsEnd LinksResetOnce OneCredentialUnlessRaced MessagesRefer SentOnceUnlessLost
PROPERTIES WorkRunsOut
CHECK_DEADLOCK FALSE
SYMMETRY Symmetry
