SPECIFICATION Spec
CONSTANTS
    t1 = t1
    t2 = t2
    h1 = h1
    h2 = h2
    o1 = o1
    o2 = o2
    m1 = m1
    c1 = c1
    Taxi = {t1, t2}
    Hail = {h1, h2}
    Operator = {o1, o2}
    Groupement = {o1}
    Manager = {m1}
    ManagerOf <- Managers
    Place <- Places
    OperatorOf <- Operators
    TaxiOf <- TaxisOf
    DistanceOf <- Distances
    RadiusOf <- Radii
    Conurbation = {c1}
    Members <- Towns
    Departement <- Departements
    StatusOf <- Statuses
    Duration = {0, 1, 2}
    Days <- MonthEnds
    threshold <- Beginning
    None = None
INVARIANTS
    MilestonesAreCounted
    FiguresAddUp
CHECK_DEADLOCK FALSE
