SPECIFICATION CertificateSpec
CONSTANTS
    None = None
    Operators = {o1, o2}
    Keys = {k1, k2}
    Vaults = {v1}
    WEIGHT_BPS <- MCWeights
    MAX_OPERATORS = 3
    MAX_GENERATION = 4
    MINIMUM_STAKE = 1
    EPOCH_LENGTH = 1
    MAX_SLOT = 0
    MAX_DELEGATION = 1
    UnstableVaults = {}
    BYTE_BITS = 2
    VALID_SLOTS_AFTER_CONSENSUS = 0
    CONSENSUS_THRESHOLD_BPS = 6667
    Bitmaps <- AnyBitmap
INVARIANTS
    AcceptedAgainstAssembledSet
    CountedSignersSigned
    AcceptedCarriesQuorum
CHECK_DEADLOCK FALSE
SYMMETRY Symmetry
