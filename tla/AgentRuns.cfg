SPECIFICATION Spec
CONSTANTS
    c1 = c1
    NoRun = NoRun
    Cards = {c1}
    Inputs <- Asked
    MaxAssigned = 2
    MaxRuns = 1
    MaxFaults = 1
    GitHub = TRUE
    PRComments = TRUE
INVARIANTS
    TypeOK
    
    
    PostedIsThere
PROPERTIES
    RunEnds
    LedgerSpec
CHECK_DEADLOCK FALSE
