SPECIFICATION Spec
CONSTANTS
  kAuditLogSize = 2
  kMaxSwitchPorts = 2
  kMaxFrerEntries = 2
  Schedules <- MCSchedules
  Prevalid <- MCPrevalid
  Valid <- MCValid
  PassThrough = "passThrough"
  Boot = "boot"
  Corrupt = "corrupt"
  NoSchedule = "none"
  NoEntry = NoEntry
  NoConfig <- MCNoConfig
  Configs <- Reconfigured
  ConvergenceTicks = 0
  HealthTicks = 1
  MaxInits = 2
  Disturbances = {"init", "failed", "readback"}
  InitFrom = {"kUninitialized", "kFault"}
  StartFrom = {"kInitializing", "kUninitialized"}
INVARIANTS
  OperationalPortsScheduled
  HardwareFollowsManagers
  AuditExplainsState
  AuditChains
