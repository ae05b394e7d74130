CONSTANTS
  Replicas = 2
  LatchTTL = 2
  CooldownTTL = 1
  MaxSnapshotAge = 0
  Subs = {s1}
  LaggingCaches = {}
  SpontaneousFailover = FALSE
  MaxGen = 2
  MaxEpoch = 1
  MaxCrashes = 1
  MaxFaults = 1
SPECIFICATION Spec
PROPERTY WindowHeldAlways
