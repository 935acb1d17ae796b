SPECIFICATION FairSpec
CONSTANTS
    Nodes = {n1}
    Cmds = {c1, c2, c3, c4}
    MaxGeneration = 2
CHECK_DEADLOCK FALSE
INVARIANTS
    TypeOK
    EffectsAreFenced
    MutationsAreOrdered
PROPERTIES
    ImplementsFencedNode
    EveryCommandEnds
