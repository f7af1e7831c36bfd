SPECIFICATION FairSpec
CONSTANTS
    Emails = {e1, e2}
    NoUser = NoUser
    MaxCalls = 2
    MaxObservers = 1
    MaxChanges = 0
    MaxPresses = 2
PROPERTIES
    LoginIsAnswered
