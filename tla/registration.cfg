SPECIFICATION FairSpec
CONSTANTS
    Operator = {o1, o2}
    plate = plate
    d974 = d974
    Plate <- SharedPlate
    Departements <- Reunion
    KnownTown = {o1, o2}
    Veteran = {o1}
    NamesVehicle = {o1}
    Impatient = {o2}
    Worker = {w1, w2}
    None = None
INVARIANTS
    CheckDbFindsNothing
    TaxiIsComplete
PROPERTIES
    RegistrationEnds
CHECK_DEADLOCK FALSE
