\* Two overlapping runs and two notices; one run dies and one is slow.
SPECIFICATION FairSpec
CONSTANTS
    Notice = {n1, n2}
    Run = {w1, w2}
    MaxAttempts = 2
    BatchSize = 1
    MaxDeaths = 1
    MaxSlow = 1
    None = None
INVARIANTS
    TypeOK
    OneDeliverer
    AttemptsAccounted
    OutcomeTrue
PROPERTIES
    Settles
