SPECIFICATION Spec
CONSTANTS
    Callers = {a}
    Cards = {k1, k2}
    MaxWrites = 3
    MaxUndos = 2
    MaxHistory = 5
    MaxRestarts = 1
    Crashes = FALSE
    MaxLost = 1
    ByEvent = FALSE
SYMMETRY Alike
CHECK_DEADLOCK FALSE
INVARIANTS
    SnapshotCurrent
    HistoryChains
PROPERTIES
    UndoOnlyItsOwn
