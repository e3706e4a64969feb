SPECIFICATION FairSpec
CONSTANTS
  b = b
  c = c
  Peers = {b, c}
  Portion = 1
  SyncLimits = {0, 2}
  MaxMessages = 4
  MaxSaves = 1
  Losses = TRUE
INVARIANTS GivenOnce NothingMissed HeldOnlyWhileSyncing OneRequestPerDialog
PROPERTIES GivenInOrder SyncEnds
CHECK_DEADLOCK FALSE
