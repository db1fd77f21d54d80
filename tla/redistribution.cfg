SPECIFICATION Spec
CONSTANTS
    Taxi = {t1, t2, t3}
    Vd = {t1, t2, t3}
    OwnVd <- OwnVehicles
    VdsOf <- OneDescription
    InternalVd = {t1, t2, t3}
    Session = {s1}
    Event = {}
    None = None
    MaxHails = 3
    MaxAttempts = 2
    MaxCrashes = 1
    AskedOfHail = {"declined_by_taxi"}
    AskedOfTaxi = {"free"}
    CancelWhileSending = FALSE
    MalformedReplies = TRUE
SYMMETRY Symmetry
INVARIANTS
    OneActiveHailPerTaxi
    NoHailIsForgotten
    AttemptsAreLimited
PROPERTIES
    NeverContactedTwice
    ImplementsTaxiBooking
CHECK_DEADLOCK FALSE
