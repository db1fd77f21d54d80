SPECIFICATION FairSpec
CONSTANTS
    KEEP = 1
    MAX_ARCHIVES = 3
    MAX_ARCHIVE = 1
    MAX_TOTAL = 2
    Sizes = {1}
    MaxBackups = 3
    MaxFaults = 2
    MaxTime = 0
    Job = {Legacy, Replacement}
    Legacy = Legacy
    Replacement = Replacement
    MaxAttempts = 2
    MaxWrites = 1
    None = None
INVARIANTS
    NoWriteIsLost
    FrozenCopyIsComplete
    JobsAsChosen
PROPERTIES
    ServiceComesBack
CHECK_DEADLOCK FALSE
