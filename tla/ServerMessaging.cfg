SPECIFICATION Spec
CONSTANTS
  a = a
  b = b
  a1 = a1
  a2 = a2
  b1 = b1
  None = None
  Users = {a, b}
  Sessions = {a1, a2, b1}
  Owner <- MCOwner
  Dc <- MCDc
  Writes <- MCWrites
  Unstable = {a1}
  Pagers = {a1}
  Slice = 1
  MaxMessages = 3
INVARIANTS UnreadCountsMessages NewestDialogFirst EveryMessageToldOnce
  SessionsUpToDate ReadIsReported PagingSkipsNothing
CHECK_DEADLOCK FALSE
