SPECIFICATION Spec
CONSTANTS
    Client = {c1}
    Request = {r1}
    Token = {t1, t2, t3, t4}
    Scope = {s1}
    Handler = {h1, h2}
    Admin = {}
    MaxVersion = 4
    None = None
SYMMETRY Interchangeable
PROPERTY ReuseRevokesFamily
CHECK_DEADLOCK FALSE
