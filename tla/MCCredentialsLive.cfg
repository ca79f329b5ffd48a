SPECIFICATION OpenLiveSpec
CONSTANTS
    Users = {u1}
    Workspaces = {w1, w2}
    Requests = {r1, r2}
    Operations <- Overlaps
    MaxCalls = 3
    None = None
    Secrets = {s1, s2}
    Outdated = {TRUE}
PROPERTIES
    EveryCallEnds
