SPECIFICATION Spec
CONSTANTS
  Conns = {1, 2, 3, 4}
  Intervals <- MCIntervals
  AppCalls = {"checkIn", "signIn", "disconnect"}
  Polite = FALSE
  MaxCalls = 3
  MaxLosses = 2
INVARIANTS TypeOK ConnectGoesOn
CHECK_DEADLOCK FALSE
