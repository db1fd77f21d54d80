SPECIFICATION BackupsFairSpec
CONSTANTS
    KEEP = 0
    MAX_ARCHIVES = 2
    MAX_ARCHIVE = 1
    MAX_TOTAL = 1
    Sizes = {1, 2}
    MaxBackups = 3
    MaxFaults = 2
    MaxTime = 2
    None = None
INVARIANTS
    ReceiptsAreTrue
PROPERTIES
    EveryBackupReachesThePC
CHECK_DEADLOCK FALSE
