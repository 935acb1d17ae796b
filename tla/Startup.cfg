SPECIFICATION FairSpec
CONSTANTS
    Launches <- LaunchesChecked
    AllRanks = {0, 1}
    Head = 0
CHECK_DEADLOCK FALSE
INVARIANTS
    TypeOK
PROPERTIES
    ReadyIsReal
    FailureIsEvidenced
    StartupEnds
