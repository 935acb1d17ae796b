SPECIFICATION FairSpec
CONSTANTS
    Hosts = {h1, h2}
    Commands = {c1, c2}
    None = None
CHECK_DEADLOCK FALSE
INVARIANTS
    TypeOK
PROPERTIES
    ReportedMeansDone
    RebootSparesWorkloads
    LockIsReleased
