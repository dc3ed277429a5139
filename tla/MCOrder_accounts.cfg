\* The shares, the benefit and the payment of an order, and any one kind
\* of mishap; a payment up to the meeting of two syncs of one object.
SPECIFICATION OrderSpec
CONSTANTS
    sales = sales
    fee = fee
    f1 = f1
    f2 = f2
    r1 = r1
    p1 = p1
    p2 = p2
    q1 = q1
    q2 = q2
    Module = {sales, fee}
    Refundable = {sales}
    Months <- MCMonths
    Ratio <- MCSeventeen
    RatioBase = 20
    OrderAmount = 4
    Refund = {f1, f2}
    Edits = {3}
    Amount <- MCExcess
    Refunder = {p1, p2}
    Batch = {q1, q2}
    MaxCopies = 2
    Allowed <- MCAllowed
    MaxMishaps = 1
    Operator = {p1, p2}
    PerDay = 2
    Horizon = 4
    MaxAdjust = 4
    MaxDisturbed = 1
    None = None
    StripeRefund = {r1}
    Syncer = {p1, p2}
    MaxOrders = 2
    MaxSyncMishaps = 1
SYMMETRY Requests
CONSTRAINT SyncsApart
INVARIANTS
    OrderTypeOK
    NeverOverClawed
    SharesIntact
    BenefitAccounted
    FrozenTimeGiven
    OneOrderPerPayment
    SyncedWhenQuiet
PROPERTY ReconcileCovers
CHECK_DEADLOCK FALSE
