SPECIFICATION TableSpec
CONSTANTS
    Users = {u1, u2}
    Recorders = {r1, r2}
    Activities = {a1, a2}
    PageSize = 2
    MaxDrops = 0
    MaxDepartures = 1
    Nobody = Nobody
SYMMETRY Symmetry
INVARIANTS
    OneProjectionEach
    InboxOfMembers
PROPERTIES
    ImplementsInbox
