SPECIFICATION SpecExpiry
CONSTANTS
    Calls = {c1}
    Requests = {r1}
    Riders = {u1}
    Vehicles = {v1}
    Points = {p1}
    NoCall = NoCall
    NoRequest = NoRequest
    NoPoint = NoPoint
    NoOffer = NoOffer
    NoTrip = NoTrip
    PoolSize = 1
    MaxCrashes = 0
INVARIANT ExpiredIsRefused
CHECK_DEADLOCK FALSE
