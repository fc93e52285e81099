SPECIFICATION Spec
CONSTANTS
  Handles <- MCHandles
  Paths = {0, 1}
  SeqNums = 16
  Word = 16
  RecoveryTimeoutNs = 1
  kHistoryWindowWidth = 2
  kLedWindowFrames = 6
  kLedThresholdPercent = 20
  kMaxFrerEntries = 2
  FirstSeq = 0
  MaxFrames <- ThreeFrames
  MaxSkew = 1
  MaxTime = 1
  PhcFails = FALSE
PROPERTIES
  DiscardsAreDuplicates
