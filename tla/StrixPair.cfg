SPECIFICATION Spec
CONSTANTS
    b1 = b1
    b2 = b2
    Boxes = {b1, b2}
    SoloModels = {s1}
    ClusterModels = {k1, k2}
    Configs <- MCConfigs
    Commands = {c1, c2}
    WidgetActs = 1
    Misreads = 1
    None = None
SYMMETRY Symmetric
CHECK_DEADLOCK FALSE
INVARIANTS
    TypeOK
    PairStaysConsistent
PROPERTIES
    SuccessIsDelivered
    PinnedLeftAlone
