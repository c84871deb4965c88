SPECIFICATION Spec
CONSTANTS
    None = None
    Operators = {o1, o2, o3, o4}
    Keys = {k1, k2, k3}
    MAX_OPERATORS = 3
    MAX_GENERATION = 7
INVARIANTS
    SlotsMatchAccounts
    CountsEveryRegistration
    AggregateWithinOneOrphan
PROPERTIES
    RemovedStaysOut
    ImplementsSignerSet
CHECK_DEADLOCK FALSE
SYMMETRY Symmetry
