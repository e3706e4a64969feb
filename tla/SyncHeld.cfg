SPECIFICATION Spec
CONSTANTS
  b = b
  c = c
  Peers = {b, c}
  Portion = 1
  SyncLimits = {0}
  MaxMessages = 2
  MaxSaves = 0
  Losses = FALSE
INVARIANT HeldOnlyInProgress
CHECK_DEADLOCK FALSE
