CONSTANTS
  Request = {r1, r2}
  Challenge = {c1}
  None = None
  MfaEnabled = TRUE
  MaxFailures = 2
  Targets = {"active", "disabled"}
  Base = 1
  MaxTime = 3
SPECIFICATION Spec
SYMMETRY Symmetry
INVARIANTS GuessingSlowsUnlessLost ChallengeOnceUnlessShared DisabledStayOut
PROPERTIES LocksAndBlocksStand
CHECK_DEADLOCK FALSE
