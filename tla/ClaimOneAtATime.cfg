CONSTANTS
  Replicas = 3
  LatchTTL = 2
  CooldownTTL = 1
  MaxSnapshotAge = 0
  Subs = {s1}
  LaggingCaches = {}
  SpontaneousFailover = FALSE
  MaxGen = 1
  MaxEpoch = 1
  MaxCrashes = 0
  MaxFaults = 0
SPECIFICATION Spec
INVARIANT RollOneAtATime
