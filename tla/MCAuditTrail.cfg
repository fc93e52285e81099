SPECIFICATION Spec
CONSTANTS
  kAuditLogSize = 3
  MaxTrail = 7
  Events = {toRunning, toDegraded, toSafeState}
  NoEntry = NoEntry
INVARIANTS
  TypeOK
  HeadFollowsTrail
  RingHoldsLatest
CHECK_DEADLOCK FALSE
