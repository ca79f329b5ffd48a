SPECIFICATION DeliverySpec
CONSTANTS
    Users = {u1}
    Recorders = {r1, r2}
    Activities = {a1, a2}
    PageSize = 1
    MaxDrops = 1
    MaxDepartures = 1
    Nobody = Nobody
INVARIANTS
    TypeOK
    NothingSkipped
    DeliveredInOrder
PROPERTIES
    EventuallyDelivered
