SPECIFICATION Spec
CONSTANTS
    Users = {u1, u2, u3}
    Workspaces = {w1}
    Requests = {r1, r2}
    Operations <- RoleChanges
    MaxCalls = 2
    None = None
SYMMETRY Symmetry
PROPERTIES
    AdminBounds
