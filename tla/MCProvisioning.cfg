SPECIFICATION MCSpec
CONSTANTS
    None = None
    good = good
    other = other
    k1 = k1
    k2 = k2
    cli = cli
    Movers = {"anybody", "clients"}
    Admins = {good, other}
    ConfigArgs <- MCConfigArgs
    ParameterArgs <- MCParameterArgs
    Deposits = {3}
    SIZE = 5
    REGISTRY_SIZE = 2
    CONFIG_SIZE = 1
    MAX_REALLOC_BYTES = 2
    RENT_BASE = 1
    SLOTS_PER_EPOCH = 1
    MAX_SLOT = 1
    MAX_LAMPORTS = 9
    MAX_GENERATION = 1
    Clients = {k1, k2, cli}
    Job <- MCJob
    Retries = 1
    FaultModels = {{}, {"lost", "unreported", "interrupted"}}
    StartLamports = {6, 11}
INVARIANTS
    InitialisedAtFullSize
    RentExempt
    ShortSnapshotCanGrow
    DoneMeansProvided
PROPERTIES
    ImplementsSnapshotLife
    MCProvidedWithoutFaults
CHECK_DEADLOCK FALSE
