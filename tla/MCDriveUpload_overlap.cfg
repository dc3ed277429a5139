\* Two requests that overlap, and nothing else.
SPECIFICATION UploadSpec
CONSTANTS
    Request = {r1, r2}
    Cleaner = {c}
    Worker = {w1, w2}
    None = None
    Attempts = 2
    MaxStalls = 1
    Allowed = {"overlap"}
    MaxMishaps = 1
INVARIANT PublishedKept
CHECK_DEADLOCK FALSE
