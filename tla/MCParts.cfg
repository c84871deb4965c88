SPECIFICATION PartsSpec
CONSTANTS
    None = None
    DefaultPubkey = DefaultPubkey
    Nothing = Nothing
    ZERO = ZERO
    a1 = a1
    b1 = b1
    b2 = b2
    r1 = r1
    r2 = r2
    Apps = {a1}
    Payers = {p1, p2}
    Bytes = {b1, b2}
    Roots = {r1, r2}
    Payloads <- MCPayloads
    Capacities = {2, 3, 4}
    Chunks <- MCChunks
    MAX_TRANSITIONS = 2
    MAX_PERMITTED_DATA_INCREASE = 3
    MAX_BUFFER_CONTENT_LEN = 3
    MAX_EVENT_CPI_DATA_LEN = 80
    StoryInputs <- MCStoryInputs
    AnswerInputs <- MCAnswerInputs
    Fixtures <- MCFixtures
    MAX_ANSWER_IDS = 2
    m1 = m1
    m2 = m2
    m3 = m3
    v1 = v1
    v2 = v2
    v3 = v3
    v4 = v4
    Mints <- MCMints
    Vaults <- MCVaults
    supported_mint <- MCSupportedMint
    WeightArgs <- MCWeightArgs
    MAX_ST_MINTS = 2
    MAX_VAULTS = 3
    w1 = w1
    w2 = w2
    MAX_FEE_BPS = 10
    PROTOCOL_FEE_BPS = 4
    Bps = {0, 1, 6, 7, 11}
    Wallets = {w1, w2}
    MAX_EPOCH = 4
    KeyPairs <- MCKeyPairs
    MAX_INSTRUCTIONS = 2
    o1 = o1
    o2 = o2
    p1 = p1
    p2 = p2
    user_key = user_key
    Operators = {o1, o2}
    Processes = {p1}
    MAX_KEYS = 3
    Supplied = {user_key}
    c1 = c1
    c2 = c2
    Clients = {c1, c2}
    MAX_DELEGATIONS = 2
    MAX_CLOCK_EPOCH = 1
INVARIANTS
    SettledOnceInOrder
    SettledStoryIsFrozen
    OneSlotOneWeight
    StagedStorySettles
    VerifiedTextIsStaged
    CapHoldsInEveryEpoch
    OnlyAReadonlyAdminIsRefused
    RegisteredKeyIsKept
    OneCallIsEnough
PROPERTIES
    ImplementsStaging
    SlotAndWeightAreForGood
    ImplementsFeeSchedule
    SentKeyIsSaved
    UpdatedInEveryEpoch
CHECK_DEADLOCK FALSE
