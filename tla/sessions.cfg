SPECIFICATION Spec
CONSTANTS
    Moteur = {m1, m2}
    Name = {c1}
    Taxi = {t1, t2}
    Search = {s1, s2}
    Request = {r1}
    ID_LIFE = 3
    SESSION_AGE = 1
    MaxAttempts = 3
    ResumesSessions = TRUE
    LeavesSessions = FALSE
    Straddles = FALSE
    OneAtATime = TRUE
    Overlaps = FALSE
    MaxLag = 1
    MaxHails = 4
    MaxWork = 5
    MaxTime = 3
    None = None
SYMMETRY Symmetry
INVARIANTS
    SessionsAreOneCustomers
    AnswersCanBeHailed
PROPERTIES
    NoSecondTaxi
CHECK_DEADLOCK FALSE
