SPECIFICATION FairSpec
CONSTANTS
    t1 = t1
    t2 = t2
    o1 = o1
    o2 = o2
    Taxi = {t1}
    Operator = {o1, o2}
    Owner <- OwnedByFirst
    Declared <- EveryOperator
    Allowed = {t1}
    Distance = {1}
    Radius = {}
    RADIUS_MIN = 1
    RADIUS_DEFAULT = 2
    RADIUS_MAX = 3
    GPS_FRESHNESS = 2
    CANDIDATE_LIMIT = 2
    DISPLAY_LIMIT = 1
    Minute = 2
    Worker = {w1}
    Cleaner = {c1}
    AskedOfTaxi = {"free", "off"}
    InTurn = TRUE
    MaxDelay = 1
    MaxReports = 2
    MaxLosses = 1
    MaxTime = 3
    None = None
    Town = {"town", "other"}
    TownOf <- OneTown
    Zupc = {"zupc"}
    TownsOf <- Towns
INVARIANTS
    FreshIsIndexed
    OwnListedCanBeHailed
    MinutesAreComplete
    GroupsAddUp
PROPERTIES
    StaleLeavesIndex
CHECK_DEADLOCK FALSE
