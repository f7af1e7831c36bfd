SPECIFICATION SpecManual
CONSTANTS
    Keys = {1, 2, 3}
    Writers = {w1}
    Readers = {}
    Snapshots = {}
    Earlier <- MCEarlierManual
    Batches <- MCBatchesManual
    NumLevels = 3
    L0CompactionTrigger = 4
    L0StopWritesTrigger = 4
    MaxMemCompactLevel = 2
    TargetFileSize = 2
    MaxGrandParentOverlap = 2
    ExpandedLimit = 10
    MaxBytesForLevel <- MCMaxBytes
    WriteBufferSize = 0
    MaxGroupSize = 3
    MaxEvents = 2
INVARIANTS
    LevelsAreDisjoint
CHECK_DEADLOCK FALSE
