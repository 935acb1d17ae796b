SPECIFICATION FairSpec
CONSTANTS
    Head = "head"
    Worker = "worker"
    Targets <- AllTargets
    MaxTransitions = 3
    FaultKinds <- AllFaults
    MaxFaults = 2
    FaultyUntil = 2
    MaxLate = 1
    LateActs <- LateEffects
PROPERTIES
    OneFaultDrainsUnlisted
    StopReleases
CHECK_DEADLOCK FALSE
