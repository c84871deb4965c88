SPECIFICATION CertificateSpec
CONSTANTS
    None = None
    Operators = {o1, o2}
    Keys = {k1, k2}
    Vaults = {v1}
    WEIGHT_BPS <- MCWeights
    MAX_OPERATORS = 3
    MAX_GENERATION = 3
    MINIMUM_STAKE = 1
    EPOCH_LENGTH = 1
    MAX_SLOT = 2
    MAX_DELEGATION = 1
    UnstableVaults = {v1}
    BYTE_BITS = 2
    VALID_SLOTS_AFTER_CONSENSUS = 1
    CONSENSUS_THRESHOLD_BPS = 6667
    Bitmaps = {}
INVARIANTS
    CountedStakeIsBacked
    AcceptsHonestQuorum
CHECK_DEADLOCK FALSE
SYMMETRY Symmetry
