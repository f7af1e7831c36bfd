SPECIFICATION FairSpec
CONSTANTS
    Items = {a, b}
    Blank = Blank
    MaxLength = 1
    MaxControllers = 3
    MaxChanges = 1
INVARIANTS
    TypeOK
    RowsInRange
    NewestIsShown
PROPERTIES
    UpdateIsShown
