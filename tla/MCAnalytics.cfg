SPECIFICATION AnalyticsFairSpec
CONSTANTS
    Calls = {c1, c2}
    Requests = {r1}
    Riders = {u1}
    Vehicles = {v1}
    Points = {p1}
    NoCall = NoCall
    NoRequest = NoRequest
    NoPoint = NoPoint
    NoOffer = NoOffer
    NoTrip = NoTrip
    PoolSize = 2
    MaxCrashes = 1
    Listened = {"RequestCreated", "SuggestionShown",
                "SuggestionAccepted", "SuggestionRejected"}
INVARIANTS
    AnalyticsTypeOK
    RowsAreTrue
    OneVerdict
    LossesAreCounted
PROPERTIES
    EveryReportSettles
    EveryCallAnswered
CHECK_DEADLOCK FALSE
