SPECIFICATION StakeSpec
CONSTANTS
    None = None
    v1 = v1
    v2 = v2
    Operators = {o1}
    Keys = {k1}
    Vaults = {v1, v2}
    WEIGHT_BPS <- MCWeights
    MAX_OPERATORS = 1
    MAX_GENERATION = 2
    MINIMUM_STAKE = 1
    EPOCH_LENGTH = 2
    MAX_SLOT = 5
    MAX_DELEGATION = 1
    UnstableVaults = {v1}
INVARIANTS
    CountedStakeIsBacked
CHECK_DEADLOCK FALSE
