SPECIFICATION FairSpec
CONSTANTS
  Conns = {1, 2, 3, 4}
  Intervals <- MCIntervals
  AppCalls = {"checkIn"}
  Polite = TRUE
  MaxCalls = 3
  MaxLosses = 3
INVARIANTS SignedInIsConnected NoCrash
PROPERTIES CheckInFinishes
CHECK_DEADLOCK FALSE
