SPECIFICATION KeeperSpec
CONSTANTS
    o1 = o1
    o2 = o2
    k1 = k1
    Keepers = {k1}
    Operators = {o1, o2}
    Delegated = {o1}
    CLUSTER_EPOCH_LENGTH = 2
    RESTAKING_EPOCH_LENGTH = 2
    MAX_SLOT = 4
PROPERTIES
    SaysUpToDateTruly
    CrankedInEveryEpoch
    OnlyFailuresAreRetried
