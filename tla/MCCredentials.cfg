SPECIFICATION OpenSpec
CONSTANTS
    Users = {u1, u2}
    Workspaces = {w1, w2}
    Requests = {r1, r2}
    Operations <- Overlaps
    MaxCalls = 2
    None = None
    Secrets = {s1, s2}
    Outdated = {FALSE}
SYMMETRY Symmetry
INVARIANTS
    CredentialTypeOK
    OneOpenReset
    LiveSessionKnowsPassword
    VersionCountsResetsAndRoles
PROPERTIES
    PasswordNeedsToken
    
    ImplementsTenancy
