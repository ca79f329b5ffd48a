SPECIFICATION OpenLiveSpec
CONSTANTS
    Users = {u1, u2}
    Workspaces = {w1, w2}
    Requests = {r1, r2}
    Operations <- Registration
    MaxCalls = 2
    None = None
    TicksPerSecond = 1
    MaxTime = 1
    MaxLifetime = 1
PROPERTIES
    IdentityCreatedOnce
    ImplementsTenancy
    EveryCallEnds
