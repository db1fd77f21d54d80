SPECIFICATION FairSpec
CONSTANTS
    Taxi = {t1}
    Vd = {t1}
    OwnVd <- OwnVehicles
    VdsOf <- OneDescription
    InternalVd = {}
    Session = {s1}
    Event = {e1}
    None = None
    MaxHails = 1
    MaxAttempts = 3
    MaxCrashes = 0
    AskedOfHail = {"received_by_taxi", "accepted_by_taxi", "declined_by_taxi",
        "incident_taxi", "incident_customer", "declined_by_customer",
        "accepted_by_customer", "customer_on_board", "finished"}
    AskedOfTaxi = {"free", "off"}
    CancelWhileSending = FALSE
    MalformedReplies = FALSE
INVARIANTS
    EventAppliedOnce
    TaxiStatusFollowsHail
    ReadersAgree
PROPERTIES
    TerminalIsFinal
    EveryHailEnds
    SharingEndsForGood
CHECK_DEADLOCK FALSE
