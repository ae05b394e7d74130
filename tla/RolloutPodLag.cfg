CONSTANTS
  Replicas = 2
  LatchTTL = 2
  CooldownTTL = 1
  MaxSnapshotAge = 1
  Subs = {s1}
  LaggingCaches = {"pods"}
  SpontaneousFailover = FALSE
  MaxGen = 1
  MaxEpoch = 1
  MaxCrashes = 1
  MaxFaults = 0
SPECIFICATION Spec
PROPERTY WindowHeld
