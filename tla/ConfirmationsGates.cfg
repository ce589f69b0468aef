SPECIFICATION Spec
CONSTANTS
    Clients = {c1}
    Voice = Voice
    c1 = c1
    alice = alice
    bob = bob
    Identities = {alice, bob}
    Who <- WhoGates
    Tools = {"delete_ticket", "set_priority"}
    Resolutions = {"confirm"}
    MaxIds = 2
    MaxLapsed = 0
    Expired = Expired
    Spoken <- SpokenGates
    Refs <- RefsGates
INVARIANTS
    TypeOK
PROPERTIES
    HostOnlyNeedsClearance
    OthersActionsNeedHost
