CONSTANTS
  Flow = {f1, f2}
  Code = {k1, k2}
  Request = {r1, r2}
  Redirect = {u1}
  e1 = e1
  e2 = e2
  Email = {e1, e2}
  Mailbox <- Mailboxes
  Update <- Updates
  None = None
SPECIFICATION Spec
SYMMETRY Symmetry
INVARIANTS FlowOpensOnceUnlessRaced OneTokenSetPerConsent ClaimsAreVouchedFor
PROPERTIES TokensGoToRegistered BlockedStayOut
CHECK_DEADLOCK FALSE
