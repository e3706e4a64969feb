SPECIFICATION Spec
CONSTANTS
  Rotation = 4
  Overlap = 2
  MaxSalts = 3
  MaxTime = 16
INVARIANTS SaltsLinked ServedSaltAccepted
CHECK_DEADLOCK FALSE
