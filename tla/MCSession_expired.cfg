SPECIFICATION Spec
CONSTANTS
    Handler = {h1, h2}
    Node = {n1}
    Second = 2
    AccessTTL = 2
    RedisMayFail = FALSE
    MaxLogout = 1
    MaxToken = 3
    MaxRequest = 4
    MaxTime = 2
    None = None
SYMMETRY Interchangeable
PROPERTY ExpiredNeedsLogin
CHECK_DEADLOCK FALSE
