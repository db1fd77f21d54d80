SPECIFICATION BanSpec
CONSTANTS
    Reportable = {h1, h2}
    Request = {r1}
    Day = 3
    EditLengths = {3, 4}
    EditFields <- BothFields
    MaxTime = 5
    MaxEnd = 12
    None = None
SYMMETRY Symmetry
PROPERTIES
    ReportBansForADay
    ReportProlongsTheBan
CHECK_DEADLOCK FALSE
