SPECIFICATION Spec
CONSTANTS
    Head = "head"
    Worker = "worker"
    Targets <- AllTargets
    MaxTransitions = 3
    FaultKinds <- AllFaults
    MaxFaults = 2
    FaultyUntil = 3
    MaxLate = 2
    LateActs <- AllEffects
INVARIANTS
    TypeOK
    RunningIsRecorded
    OneWorkloadPerNode
    AllocationsStayWhole
PROPERTIES
    JobsSurvive
CHECK_DEADLOCK FALSE
