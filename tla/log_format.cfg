SPECIFICATION Spec
CONSTANTS
    BlockSize = 6
    HeaderSize = 2
    Lengths = {0, 3, 6, 9}
    ReuseLogs = TRUE
    MaxRecords = 2
    MaxFailures = 1
    MaxCrashes = 2
INVARIANTS
    TypeOK
    RecordsAreWhole
    RecordsAreRead
    CrashIsNoCorruption
PROPERTIES
    LoopsEnd
CHECK_DEADLOCK FALSE
