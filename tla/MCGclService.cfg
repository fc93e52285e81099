SPECIFICATION Spec
CONSTANTS
  kMaxGclEntries = 3
  CycleTimes <- MCCycleTimes
  FrameSizes <- MCFrameSizes
  GateMasks <- MCGateMasks
  Intervals <- MCIntervals
INVARIANTS
  SafetyDeadlineGuaranteed
  PrevalidationIsWeaker
CHECK_DEADLOCK FALSE
