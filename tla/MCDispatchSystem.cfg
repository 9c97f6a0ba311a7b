SPECIFICATION SystemFairSpec
CONSTANTS
    Calls = {c1}
    Requests = {r1}
    Riders = {u1}
    Vehicles = {v1}
    Points = {p1}
    NoCall = NoCall
    NoRequest = NoRequest
    NoPoint = NoPoint
    NoOffer = NoOffer
    NoTrip = NoTrip
    PoolSize = 2
    MaxCrashes = 1
    Changes = {d1, d2}
    ChangeRequests <- MCChangeRequests
    Data = {x1}
    Unset = Unset
    NoRow = NoRow
INVARIANTS
    TripsKeepTheirPoint
PROPERTIES
    EveryCallAnswered
    ChangesAnswered
    CatalogueAlone
    ChangesAreAtomic
CHECK_DEADLOCK FALSE
