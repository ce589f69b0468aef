SPECIFICATION Spec
CONSTANTS
    Persons = {ann, bob}
    Tabs = {1}
    Calls = {c1, c2}
    Grace = 1
    TTL = 2
    SendTime = 1
    MaxHandled = 1
    MaxToolUses = 3
SYMMETRY Alike
INVARIANTS
    TypeOK
    Attributed
    AppliedOnce
CHECK_DEADLOCK FALSE
