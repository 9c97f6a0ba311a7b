SPECIFICATION Spec
CONSTANTS
    Vehicles = {1, 2}
    Points = {1, 2}
    Hashes <- MCHashes
    Distances = {0, 1, 2}
    Curated <- MCCuratedOrigin
    Bases = {0, 1}
    NoHash = NoHash
    NoPoint = NoPoint
    NoVehicle = NoVehicle
    CandidateRadius = 1
    MaxFound = 3
    TripKm = 1
    MinimumReserve = 15
    FallbackMinBattery = 20
    Weight = 1
    Baseline = 20
    Threshold = 15
    SafePointRadius = 120
    MaxUpdates = 0
INVARIANT CuratedOriginKeepsItsScore
CHECK_DEADLOCK FALSE
