SPECIFICATION OpenSpec
CONSTANTS
    Users = {u1}
    Workspaces = {w1}
    Requests = {r1, r2}
    Operations <- SignInOperations
    MaxCalls = 2
    None = None
    Secrets = {s1, s2}
    Outdated = {TRUE}
SYMMETRY Symmetry
PROPERTIES
    ResetSticks
