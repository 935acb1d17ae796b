SPECIFICATION FairSpec
CONSTANTS
    Runs = {r1, r2}
    Jobs = {j1, j2}
    Levels = {1, 2}
    Transitions = 2
CHECK_DEADLOCK FALSE
INVARIANTS
    TypeOK
    GpuAlone
    LeftDrainedIsDrained
PROPERTIES
    ReadmitsItsOwn
    LeaseEnds
