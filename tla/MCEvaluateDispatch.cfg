SPECIFICATION FairSpec
CONSTANTS
    Vehicles = {v1, v2}
    Points = {p1}
    NoPoint = NoPoint
    NoVehicle = NoVehicle
    NoRow = NoRow
INVARIANTS
    TypeOK
    FallbackAfterPipeline
    OffersAreFullyScored
    ReplyIsStored
    SwallowedOnlyInDoubt
    EventsAgree
    CountedOnce
PROPERTIES
    NoSaveAfterAbort
    ConfirmableRowIsFinal
    EveryRequestAnswered
CHECK_DEADLOCK FALSE
