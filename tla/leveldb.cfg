SPECIFICATION Spec
CONSTANTS
    Keys = {1, 2, 3}
    Writers = {w1, w2}
    Readers = {r1}
    Snapshots = {s}
    Earlier <- MCEarlier
    Batches <- MCBatches
    NumLevels = 3
    L0CompactionTrigger = 1
    L0StopWritesTrigger = 1
    MaxMemCompactLevel = 2
    TargetFileSize = 1
    MaxGrandParentOverlap = 2
    ExpandedLimit = 10
    MaxBytesForLevel <- MCMaxBytes
    WriteBufferSize = 1
    MaxGroupSize = 3
    MaxEvents = 3
SYMMETRY WriterSymmetry
INVARIANTS
    TypeOK
    GetFindsTheNewest
    OverlapsAreCopies
    NeededFilesExist
    WaitingIsServed
PROPERTIES
    RefinesStore
    ProcessCrashLosesNothing
    SyncedWritesSurvive
    TablesAreNotOverwritten
CHECK_DEADLOCK FALSE
