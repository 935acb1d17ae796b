SPECIFICATION Spec
CONSTANTS
    Commands = {c1, c2}
    Views = {v1}
    Attempts = 1
SYMMETRY Symmetric
CHECK_DEADLOCK FALSE
PROPERTIES
    NoneBeginsWhileOpen
