\* Two handlers race on one consent; one administrator.
SPECIFICATION Spec
CONSTANTS
    Client = {c1}
    Request = {r1}
    Token = {t1, t2, t3, t4}
    Scope = {s1, s2}
    Handler = {h1, h2}
    Admin = {a1}
    MaxVersion = 3
    None = None
SYMMETRY Interchangeable
INVARIANTS
    Inv
    OneTokenPerConsent
    ConsentBoundsTokens
PROPERTIES
    RefusedForGood
    KeepsLedger
CHECK_DEADLOCK FALSE
