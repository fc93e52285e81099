SPECIFICATION Spec
CONSTANTS
  NsPerSecond = 3
  Word = 16
  SyncTimeoutNs = 1
  HoldoverBudgetNs = 3
  GmLostTimeouts = 2
  kPtpSyncTargetNs = 1
  Kp = 2
  Ki = 2
  kIntegralClamp = 4
  kAdjustmentClampPpb = 2
  RegWord = 8
  MaxI64 = 8
  Offsets <- MCOffsets
  MaxTime = 7
INVARIANTS
  TypeOK
  ServoNeverOverflows
  FrequencyWithinClamp
PROPERTIES
  TimeoutsAreReal
  ImplementsPtpControl
