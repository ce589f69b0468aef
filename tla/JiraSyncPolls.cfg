SPECIFICATION FairSpec
CONSTANTS
    MaxLocal = 2
    MaxKey = 3
    Titles = {1, 3, 4}
    Remarks = {1}
    Callers = {a, b}
    Refreshers = {p}
    Asks <- Few
    FirstIssues = 1
    MaxCalls = 2
    MaxUndos = 0
    MaxFaults = 0
    MaxEdits = 1
    MaxResolves = 0
    MaxConflicts = 2
    HasBlockedTransition = TRUE
    HasBlockedField = TRUE
CHECK_DEADLOCK FALSE
INVARIANTS
    IdsDistinct
PROPERTIES
    Converges
