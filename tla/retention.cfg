SPECIFICATION FairSpec
CONSTANTS
    MaxHails = 2
    Taxi = {t1}
    Operator = {o1}
    Declared <- EveryOperator
    COUNT_AFTER = 1
    BLUR_AFTER = 1
    DELETE_AFTER = 2
    Counter = {c1, c2}
    InTwoTowns = {}
    InNoTown <- OneAtSea
    MaxDelay = 1
    MaxOutage = 1
    MaxReports = 2
    MaxLosses = 1
    MaxTime = 3
    None = None
INVARIANTS
    CountedUpTo
    CountedBeforeDeleted
    NothingOldIsPrecise
PROPERTIES
    SilentTaxisOnly
    LeftoversGo
CHECK_DEADLOCK FALSE
