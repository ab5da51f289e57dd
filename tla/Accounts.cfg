CONSTANTS
  Account = {a1, a2}
  Email = {e1, e2}
  Subject = {s1, s2}
  Request = {r1, r2}
  None = None
  Admin = e1
SPECIFICATION Spec
SYMMETRY Symmetry
INVARIANTS EmailUniqueUnlessRaced EveryAccountHasADoor ConsoleIsTheAdministrators
PROPERTIES VerifiedEmailsStay
CHECK_DEADLOCK FALSE
