SPECIFICATION Spec
CONSTANTS
    m1 = m1
    m2 = m2
    p1 = p1
    p2 = p2
    t1 = t1
    t2 = t2
    None = None
    Stores = {m1, m2}
    Unborn = {m2}
    Appliers = {p1, p2}
    Ids = {t1, t2}
    MaxApplies = 3
    MaxDisturbances = 2
CHECK_DEADLOCK FALSE
INVARIANTS TypeOK RecallProvesLinks ReceiptHoldsRegistry QuietIsVerified
