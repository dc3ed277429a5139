\* Requests, the scan and the cleanup of one upload, and any two kinds of mishaps.
SPECIFICATION UploadSpec
CONSTANTS
    Request = {r1, r2}
    Cleaner = {c}
    Worker = {w1, w2}
    None = None
    Attempts = 2
    MaxStalls = 1
    Allowed = {"overlap", "race", "undeleted", "death", "aborted", "stall", "late job", "lost commit"}
    MaxMishaps = 2
INVARIANTS
    UploadTypeOK
    OnlyCleanPublished
    PublishedUnlessRaced
    NothingLeftBehind
PROPERTIES
    VerdictStands
    VersionDecided
CHECK_DEADLOCK FALSE
