SPECIFICATION Spec
CONSTANTS
    RestartInterval = 2
    BlockEntries = 3
    UserKeys <- MCKeys
    TableContents <- MCTables
    MemContents <- MCMem
    MaxHeight = 2
    MaxEvents = 1
INVARIANTS
    TypeOK
    KeysAreDecoded
    LoopsAdvance
    SearchesAgree
PROPERTIES
    IsACursor
CHECK_DEADLOCK FALSE
