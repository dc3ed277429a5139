\* Two partial refunds, one after the other, without any mishap.
SPECIFICATION OrderSpec
CONSTANTS
    sales = sales
    fee = fee
    f1 = f1
    f2 = f2
    r1 = r1
    p1 = p1
    p2 = p2
    q1 = q1
    q2 = q2
    Module = {sales, fee}
    Refundable = {sales}
    Months <- MCMonths
    Ratio <- MCThreeQuarters
    RatioBase = 4
    OrderAmount = 4
    Refund = {f1, f2}
    Edits = {}
    Amount <- MCAmount
    Refunder = {p1, p2}
    Batch = {q1, q2}
    MaxCopies = 2
    Allowed <- MCAllowed
    MaxMishaps = 0
    Operator = {p1, p2}
    PerDay = 2
    Horizon = 4
    MaxAdjust = 4
    MaxDisturbed = 1
    None = None
    StripeRefund = {}
    Syncer = {p1, p2}
    MaxOrders = 2
    MaxSyncMishaps = 0
SYMMETRY Requests
INVARIANT CumulativeClawed
CHECK_DEADLOCK FALSE
