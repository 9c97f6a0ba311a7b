SPECIFICATION Spec
CONSTANTS
    Calls = {c1, c2, c3}
    Points = {p1}
    Data = {d1, d2}
    Unset = Unset
    NoPoint = NoPoint
    NoRow = NoRow
    PoolSize = 2
SYMMETRY CatalogueSymmetry
INVARIANTS
    TypeOK
    AuditTellsTheRow
    DeletedOnce
    OfferedPointsExist
PROPERTIES
    UpdatesCompose
CHECK_DEADLOCK FALSE
