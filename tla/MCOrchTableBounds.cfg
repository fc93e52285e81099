SPECIFICATION Spec
CONSTANTS
  kAuditLogSize = 2
  kMaxSwitchPorts = 1
  kMaxFrerEntries = 2
  Schedules <- MCSchedules
  Prevalid <- MCPrevalid
  Valid <- MCValid
  PassThrough = "passThrough"
  Boot = "boot"
  Corrupt = "corrupt"
  NoSchedule = "none"
  NoEntry = NoEntry
  NoConfig <- MCNoConfig
  Configs <- OnePort
  ConvergenceTicks = 2
  HealthTicks = 2
  MaxInits = 2
  Disturbances = {}
  InitFrom = {"kUninitialized", "kFault"}
  StartFrom = {"kInitializing"}
INVARIANTS
  GcmTableInBounds
