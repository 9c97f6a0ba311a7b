SPECIFICATION Spec
CONSTANTS
    Calls = {c1, c2, c3}
    Requests = {r1, r2}
    Riders = {u1, u2}
    Vehicles = {v1}
    Points = {p1}
    NoCall = NoCall
    NoRequest = NoRequest
    NoPoint = NoPoint
    NoOffer = NoOffer
    NoTrip = NoTrip
    PoolSize = 2
    MaxCrashes = 1
SYMMETRY CallSymmetry
INVARIANTS
    TypeOK
    LockExcludes
    UniqueIndexNeverRejects
    TripMatchesDecision
    EventsFollowCommit
PROPERTIES
    ConfirmationIsFinal
    BookedOnce
CHECK_DEADLOCK FALSE
