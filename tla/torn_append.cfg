SPECIFICATION Spec
CONSTANTS
    BlockSize = 6
    HeaderSize = 2
    Lengths = {3, 6}
    ReuseLogs = FALSE
    MaxRecords = 3
    MaxFailures = 1
    MaxCrashes = 2
INVARIANTS
    NoWritesLost
CHECK_DEADLOCK FALSE
