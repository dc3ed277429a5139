\* Refreshes that race with each other, with logouts and with failures.
SPECIFICATION Spec
CONSTANTS
    Handler = {h1, h2}
    Node = {n1}
    Second = 2
    AccessTTL = 2
    RedisMayFail = TRUE
    MaxLogout = 2
    MaxToken = 3
    MaxRequest = 4
    MaxTime = 5
    None = None
SYMMETRY Interchangeable
INVARIANTS LogoutAllHolds LogoutHolds
    NeverStranded
    Inv
CHECK_DEADLOCK FALSE
