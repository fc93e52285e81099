SPECIFICATION FairSpec
CONSTANTS
  kAuditLogSize = 1
  kMaxSwitchPorts = 2
  kMaxFrerEntries = 3
  Schedules <- MCSchedules
  Prevalid <- MCPrevalid
  Valid <- MCValid
  PassThrough = "passThrough"
  Boot = "boot"
  Corrupt = "corrupt"
  NoSchedule = "none"
  NoEntry = NoEntry
  NoConfig <- MCNoConfig
  Configs <- TwoSafe
  ConvergenceTicks = 1
  HealthTicks = 2
  MaxInits = 1
  Disturbances = {"tables", "servo", "phc", "frer", "softError"}
  InitFrom = {"kUninitialized", "kFault"}
  StartFrom = {"kInitializing", "kSafeState"}
INVARIANTS
  SafeScheduleRuns
  RunningCoversConfig
  RunningHasClock
PROPERTIES
  SafeStateNotRecovered
  ConvergenceDecided
  DivergenceHandled
