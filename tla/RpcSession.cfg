SPECIFICATION FairSpec
CONSTANTS
  sign = sign
  status = status
  rpc = rpc
  ping = ping
  odd = odd
  NoOp = NoOp
  Ops = {sign, status, rpc}
  Kind <- MCKind
  MaxSalt = 2
  MaxEpoch = 3
  MaxCrash = 1
  MaxUpdates = 0
INVARIANTS
  TypeOK
  ReplyMatchesOperation
  ExecutedAtMostOnce
  PendingIsTracked
  CounterNotBehind
  InitConnectionFirst
  SignedIsAuthorized
PROPERTIES
  ConfirmedWasReceived
  CallSpec
  OperationFinishes
CHECK_DEADLOCK FALSE
