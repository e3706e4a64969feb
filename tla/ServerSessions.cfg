SPECIFICATION Spec
CONSTANTS
  Conns = {c1, c2, c3}
  Sessions = {s1, s2}
  Keys = {k1}
  Users = {u1, u2}
  Protected = {u2}
  Foreign = {f1}
  Timeout = 1
  MaxTime = 2
  None = None
INVARIANTS TypeOK NoDanglingConnection OfflineWhenGone WatchersNotMisled
SYMMETRY Symmetry
CHECK_DEADLOCK FALSE
