SPECIFICATION StartSpec
CONSTANTS
    Users = {u1, u2}
    Workspaces = {w1, w2}
    Requests = {r1, r2}
    Operations <- AllOperations
    MaxCalls = 3
    None = None
SYMMETRY Symmetry
INVARIANTS
    TypeOK
    OwnerExists
    AuditChain
    SessionVersionCounts
PROPERTIES
    PrivilegedRowsNeedOwner
    ImplementsTenancy
