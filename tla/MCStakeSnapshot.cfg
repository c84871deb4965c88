SPECIFICATION StakeSpec
CONSTANTS
    None = None
    v1 = v1
    v2 = v2
    Operators = {o1}
    Keys = {k1}
    Vaults = {v1, v2}
    WEIGHT_BPS <- MCWeights
    MAX_OPERATORS = 1
    MAX_GENERATION = 2
    MINIMUM_STAKE = 1
    EPOCH_LENGTH = 1
    MAX_SLOT = 2
    MAX_DELEGATION = 2
    UnstableVaults = {v1}
INVARIANTS
    TotalsMatchContributions
    FreshnessDominates
CHECK_DEADLOCK FALSE
