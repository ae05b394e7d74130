CONSTANTS
    Replicas = {r1}
    Primary = m
    NumPasswords = 3
    MaxEdits = 2
    MaxAuthFaults = 2
    MaxPodRestarts = 1
    MaxAuthCrashes = 1
    MaxHolds = 1
    Boots = {b1, b2}
    NumLeaves = 1
    MaxMints = 8
    MaxUserActs = 1
    MaxCAFaults = 1
    CRPods = {p1, p2, p3}
    DownAfter = 1
    Window = 1
    StuckWindow = 1
    Baseline = 2
    MaxTroubles = 2
    MaxMisses = 1
SPECIFICATION UpkeepSpec
INVARIANTS
    UpkeepInv
    CredentialKnown
    LeafSignerPublished
PROPERTIES
    RotatedForCause
    AuthSettles
    TrustHeals
    MasterLostBacked
    SplitPagedOnce
    StatusSettles
CHECK_DEADLOCK FALSE
