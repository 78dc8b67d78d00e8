SPECIFICATION Spec
CONSTANTS
    s0 = s0
    s1 = s1
    s2 = s2
    s3 = s3
    States = {s0, s1, s2}
    InitialState = s0
    MaxLog = 4
    MaxDrifts = 1

SYMMETRY Symmetry
PROPERTIES
    UndoMovesOn
