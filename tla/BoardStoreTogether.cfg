SPECIFICATION Spec
CONSTANTS
    Callers = {a, b}
    Cards = {k1}
    MaxWrites = 2
    MaxUndos = 2
    MaxHistory = 2
    MaxRestarts = 1
    Crashes = TRUE
    MaxLost = 0
    ByEvent = TRUE
SYMMETRY Alike
CHECK_DEADLOCK FALSE
INVARIANTS
    TypeOK
    NeverUndoneTwice
    AnsweredKept
