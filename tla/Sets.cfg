CONSTANTS
    Sentinels = {s1, s2, s3}
    Addresses = {a1, a2, a3}
    Seed = a1
    Other = a2
    NoAddr = none
    Quorum = 2
    MaxEpoch = 2
    MaxTroubles = 2
    NumSentinels = 3
    RollQuorum = 2
    MaxRevisions = 3
    MaxRollTroubles = 2
    Slots = {0, 1}
    MaxSize = 3
    MaxEdits = 2
    MaxMishaps = 1
    MaxReplicas = 3
    Versions = {8, 9}
    MaxScaleEdits = 1
    MaxScaleFaults = 2
SPECIFICATION SetsSpec
INVARIANT SetsInv
PROPERTIES
    NoUsefulEntryErased
    RollGated
    Reattached
    RollCompletes
    GuardedRecreate
    CompleteMeansGrown
    RetentionHonoured
    ResizeEnds
    EndpointReturns
CHECK_DEADLOCK FALSE
