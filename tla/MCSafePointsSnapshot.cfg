SPECIFICATION Spec
CONSTANTS
    Calls = {c1, c2}
    Points = {p1}
    Data = {d1, d2}
    Unset = Unset
    NoPoint = NoPoint
    NoRow = NoRow
    PoolSize = 2
INVARIANT DeleteKeepsSnapshot
CHECK_DEADLOCK FALSE
