SPECIFICATION Spec
CONSTANTS
    Taxi = {t1, t2}
    Session = {s1}
    Tx <- TwoHails
    MaxHails = 3
    CancelWhileReceived = TRUE
    AskedOfTaxi = {"free", "not free"}
    None = None
SYMMETRY Symmetry
INVARIANTS
    DeadlocksTakeADescription
PROPERTIES
    ImplementsTaxiBooking
CHECK_DEADLOCK FALSE
