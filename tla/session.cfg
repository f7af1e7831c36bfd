SPECIFICATION Spec
CONSTANTS
    Emails = {e1, e2}
    NoUser = NoUser
    MaxCalls = 2
    MaxObservers = 1
    MaxChanges = 1
    MaxPresses = 3
SYMMETRY MCPeople
INVARIANTS
    TypeOK
    OnlyRegistered
    TimelineIsForMembers
