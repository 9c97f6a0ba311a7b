SPECIFICATION MCSpec
CONSTANTS
    Vehicles = {1, 2, 3}
    Points = {1, 2}
    Hashes <- MCHashes
    Distances = {0, 1, 2}
    Curated <- MCCurated
    Bases = {0, 1}
    NoHash = NoHash
    NoPoint = NoPoint
    NoVehicle = NoVehicle
    CandidateRadius = 1
    MaxFound = 2
    TripKm = 1
    MinimumReserve = 15
    FallbackMinBattery = 20
    Weight = 1
    Baseline = 20
    Threshold = 15
    SafePointRadius = 120
    MaxUpdates = 1
INVARIANTS
    TypeOK
    SuggestionIsPrimary
    PointsDoNotChooseVehicle
    NoClearSuggestionMissed
    AssignedWasFit
    NobodyOverlooked
CONSTRAINT QuietWithPoints
CHECK_DEADLOCK FALSE
