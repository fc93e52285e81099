SPECIFICATION Spec
CONSTANTS
  Handles <- MCHandles
  Paths = {0, 1}
  SeqNums = 16
  Word = 16
  RecoveryTimeoutNs = 1
  kHistoryWindowWidth = 2
  kLedWindowFrames = 3
  kLedThresholdPercent = 20
  kMaxFrerEntries = 2
  FirstSeq = 5
  MaxFrames <- SixFrames
  MaxSkew = 2
  MaxTime = 3
  PhcFails = TRUE
INVARIANTS
  TypeOK
  NoFrameTwice
  SilentPathsAreQuiet
  NoFalseAlarm
  NoOrphanInHardware
PROPERTIES
  StreamsIndependent
  ImplementsFrerControl
