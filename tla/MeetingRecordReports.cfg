SPECIFICATION Spec
CONSTANTS
    v = v
    h = h
    Callers = {v, h}
    Chairs = {h}
    Persons <- Pair
    Lists <- PairListed
    GivenIds = {}
    MaxMeetings = 2
    MaxItems = 2
    MaxFaults = 1
INVARIANTS
    TypeOK
    SpokenHasUpdate
    
    NobodyPassedOver
CHECK_DEADLOCK FALSE
