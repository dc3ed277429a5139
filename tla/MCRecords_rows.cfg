\* Folders, codes and a task: two pairs of operations that meet, one kind of mishap.
SPECIFICATION RecordsSpec
CONSTANTS
    p1 = p1
    p2 = p2
    q1 = q1
    q2 = q2
    Folder = {a, b}
    File = {f}
    Spare = {b}
    Root = Root
    Actor = {p1, p2}
    Purger = {c}
    MaxMet = 2
    Sender = {p1, p2}
    Verifier = {q1, q2}
    MaxCode = 3
    Tries = 2
    Limit = 2
    MaxCrossed = 1
    Admin = {p1, p2}
    Listener = {q1, q2}
    MaxLeft = 2
    TaskIncidents <- MCTaskIncidents
    MaxIncidents = 1
SYMMETRY Requests
INVARIANTS
    RecordsTypeOK
    NoCycleUnlessMoves
    BoundKeptOutOfTrash
    ReachableUnlessMet
    AcceptedOnce
    NewestWorks
    ScheduledWillRun
    PausedIsOff
    DeletedIsOff
    NotLeftRunning
PROPERTY PurgeHarmless
CHECK_DEADLOCK FALSE
