SPECIFICATION Spec
CONSTANTS
    Commands = {c1}
    Views = {v1}
    Attempts = 1
SYMMETRY Symmetric
CHECK_DEADLOCK FALSE
PROPERTIES
    RecoverOnlyUnstarted
