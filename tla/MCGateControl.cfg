SPECIFICATION Spec
CONSTANTS
  kMaxGclEntries = 2
  Candidates <- MCCandidates
  Boot = Boot
  Corrupt = Corrupt
  NoSchedule = NoSchedule
  NoResult = NoResult
INVARIANTS
  TypeOK
  OnlyAcceptedSchedulesRun
PROPERTIES
  ManagerFollowsHardware
  ImplementsGatePort
