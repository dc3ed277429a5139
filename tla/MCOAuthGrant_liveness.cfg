\* Requests that wait for each other's row locks.
SPECIFICATION FairSpec
CONSTANTS
    Client = {c1}
    Request = {r1}
    Token = {t1, t2, t3}
    Scope = {s1}
    Handler = {h1, h2}
    Admin = {a1}
    MaxVersion = 3
    None = None
PROPERTY HandlersFinish
CHECK_DEADLOCK FALSE
