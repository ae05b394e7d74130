CONSTANTS
    DataPods = {p0, p1}
    Pod0 = p0
    NoPod = none
    Epsilon = 1
    MaxAttempts = 3
    MaxOffset = 2
    MaxUpsets = 2
    Pods = {q0, q1}
    First = q0
    Dns = dns
    MaxData = 1
    MaxFaults = 2
    Replicas = 3
    MaxApplied = 1
    MaxGateFaults = 1
SPECIFICATION MastersSpec
INVARIANT MastersInv
PROPERTIES
    SurvivorAhead
    ClearedForCause
    SplitHeals
    PromotesFreshest
    MasterReturns
    EscapeSparesFreshest
    NoMasterOverlooked
    ReplicasHeal
    GatesSettle
CHECK_DEADLOCK FALSE
