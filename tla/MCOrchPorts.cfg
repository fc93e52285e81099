SPECIFICATION Spec
CONSTANTS
  kAuditLogSize = 1
  kMaxSwitchPorts = 2
  kMaxFrerEntries = 1
  Schedules <- MCSchedules
  Prevalid <- MCPrevalid
  Valid <- MCValid
  PassThrough = "passThrough"
  Boot = "boot"
  Corrupt = "corrupt"
  NoSchedule = "none"
  NoEntry = NoEntry
  NoConfig <- MCNoConfig
  Configs <- TwoPorts
  ConvergenceTicks = 1
  HealthTicks = 1
  MaxInits = 1
  Disturbances = {"failed", "timeout", "softError", "latent", "macsec", "counter"}
  InitFrom = {"kUninitialized", "kFault"}
  StartFrom = {"kInitializing"}
INVARIANTS
  TypeOK
  OnlyValidSchedulesRun
  OperationalPortsScheduled
  DegradationHasCause
  AuditNamesCause
PROPERTIES
  RunningIsEarned
  SafeStateNotRecovered
  FaultsAreActedOn
