SPECIFICATION FairSpec
CONSTANTS
    Commands = {c1, c2}
    Views = {v1, v2}
    Attempts = 2
CHECK_DEADLOCK FALSE
INVARIANTS
    TypeOK
    OneModel
PROPERTIES
    ImplementsHandedOver
    RestoreEnds
    BatchIsClosed
