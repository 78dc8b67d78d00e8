SPECIFICATION Spec
CONSTANTS
    s0 = s0
    s1 = s1
    s2 = s2
    s3 = s3
    States = {s0, s1, s2}
    InitialState = s0
    MaxLog = 9
    MaxDrifts = 0

SYMMETRY Symmetry
INVARIANTS
    RedoFindsNext
