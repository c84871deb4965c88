SPECIFICATION Spec
CONSTANTS
    None = None
    Operators = {o1, o2, o3, o4}
    Keys = {k1, k2}
    MAX_OPERATORS = 3
    MAX_GENERATION = 6
INVARIANTS
    VerifyLoopCoversLive
CHECK_DEADLOCK FALSE
SYMMETRY Symmetry
