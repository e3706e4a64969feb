SPECIFICATION Spec
CONSTANTS
  sign = sign
  status = status
  rpc = rpc
  ping = ping
  odd = odd
  NoOp = NoOp
  Ops = {sign, ping, odd}
  Kind <- MCKind
  MaxSalt = 3
  MaxEpoch = 1
  MaxCrash = 0
  MaxUpdates = 1
INVARIANTS
  PendingIsUnderWay
CHECK_DEADLOCK FALSE
