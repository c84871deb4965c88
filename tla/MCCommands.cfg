SPECIFICATION MCSpec
CONSTANTS
    None = None
    ncn_admin = ncn_admin
    operator_admin = operator_admin
    o1 = o1
    o2 = o2
    v1 = v1
    v2 = v2
    m1 = m1
    m2 = m2
    Processes = {ncn_admin, operator_admin}
    Keypair <- MCKeypair
    Keys = {ncn_admin, operator_admin}
    NcnAdmin = ncn_admin
    OperatorAdmin <- MCOperatorAdmin
    NcnOperators = {o1, o2}
    NcnVaults = {v1, v2}
    SupportedMint <- MCSupportedMint
    Delegated = {o2}
    LAMPORT = 2
    U8 = 4
    U16 = 16
    MAX_FEE_BPS = 10
    MAX_EPOCHS_BEFORE_STALL = 2
    Sessions <- MCSessions
INVARIANTS
    ResultIsFinal
    SettingsAreAsAsked
    GenerationCountsOperators
    CrankDoesItsList
PROPERTIES
    MCEveryCommandEnds
CHECK_DEADLOCK FALSE
