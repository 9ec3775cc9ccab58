SPECIFICATION Spec
CONSTANTS
    Keys = {k1, k2}
    NoKey = NoKey
    Values = {v1, v2}
    MaxTypes = 3
    MaxOther = 1
SYMMETRY FormSymmetry
INVARIANT TypeOK
INVARIANT CleanShowsServer
CHECK_DEADLOCK FALSE
