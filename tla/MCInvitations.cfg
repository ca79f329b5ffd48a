SPECIFICATION InviteSpec
CONSTANTS
    Users = {u1, u2}
    Workspaces = {w1}
    Requests = {r1, r2}
    Operations <- InviteOperations
    MaxCalls = 3
    None = None
    TicksPerSecond = 2
    MaxTime = 3
    MaxLifetime = 2
SYMMETRY Symmetry
INVARIANTS
    InvitationTypeOK
    OneActivePerEmail
    ConsumptionNeverRaces
PROPERTIES
    ClosedForGood
    JoinConsumesInvitation
    OnlyExpiredReplaced
