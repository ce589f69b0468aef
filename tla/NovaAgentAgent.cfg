SPECIFICATION Spec
CONSTANTS
    Joiners = {j1}
    Startup = startup
    MaxRooms = 2
    MaxStreams = 2
    MaxLeaves = 1
    MaxDrops = 1
    MaxSwitches = 1
    MaxEvents = 1
CHECK_DEADLOCK FALSE
INVARIANTS
    TypeOK
    NeverStuck
    LeavesTheRoom
