SPECIFICATION Spec
CONSTANTS
    Calls = {c1, c2, c3}
    Riders = {u1, u2}
    Addresses = {a1, a2}
    NoRider = NoRider
    RequiredRoles = {}
    UserLimit = 1
    IpLimit = 2
    ThrottlerDisabled = FALSE
INVARIANT OwnBudget
CHECK_DEADLOCK FALSE
