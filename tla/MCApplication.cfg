SPECIFICATION StartLiveSpec
CONSTANTS
    Browsers = {b1}
    Users = {u1, u2}
    Workspaces = {1, 2}
    Visitors = {u1}
    GrantedRoles = {"viewer", "member"}
    PageLimit = 1
    StreamLimit = 2
    MaxChanges = 1
    MaxNumber = 2
    MaxDrops = 1
    None = None
INVARIANTS
    TypeOK
    SessionsOfMembers
    StaleAuthorityHasEnded
    RedirectsLand
    OneLateEvent
PROPERTIES
    RemovalClosesStream
    EventuallyShown
