SPECIFICATION Spec
CONSTANTS
    MaxLocal = 2
    MaxKey = 4
    Titles = {1, 2, 3}
    Remarks = {1}
    Callers = {a}
    Refreshers = {}
    Asks <- EveryTool
    FirstIssues = 2
    MaxCalls = 2
    MaxUndos = 1
    MaxFaults = 1
    MaxEdits = 0
    MaxResolves = 1
    MaxConflicts = 50
    HasBlockedTransition = TRUE
    HasBlockedField = TRUE
CHECK_DEADLOCK FALSE
INVARIANTS
    TypeOK
    
    ConfirmedSent
    UndoneInJira
PROPERTIES
    PlacedWhereAsked
