SPECIFICATION Spec
CONSTANTS
    Vehicles = {v1, v2}
    Points = {p1}
    NoPoint = NoPoint
    NoVehicle = NoVehicle
    NoRow = NoRow
INVARIANT ReasonIsSpecific
CHECK_DEADLOCK FALSE
