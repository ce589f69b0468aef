SPECIFICATION Spec
CONSTANTS
    Joiners = {j1}
    Startup = startup
    MaxRooms = 1
    MaxStreams = 2
    MaxLeaves = 0
    MaxDrops = 0
    MaxSwitches = 0
    MaxEvents = 3
CHECK_DEADLOCK FALSE
PROPERTIES
    RestartsOnAudio
