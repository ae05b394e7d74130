CONSTANTS
  Sentinels = {s1, s2, s3}
  NumAddrs = 2
  LossThreshold = 2
  RecoveryPolls = 2
  Staleness = 1
  MaxTime = 4
  MaxPolls = 5
SPECIFICATION Spec
PROPERTY FailoverCounted
