SPECIFICATION Spec
CONSTANTS
    r1 = r1
    r2 = r2
    alice = alice
    bob = bob
    carol = carol
    Requests = {r1, r2}
    Identities = {alice, bob, carol}
    MaxSessions = 3
    MaxMeetings = 2
    MaxExpired = 1
    LocalLogin = TRUE
SYMMETRY Alike
INVARIANTS
    TypeOK
    MembershipBacked
    DistinctNames
    EndedMeetingRevoked
CHECK_DEADLOCK FALSE
