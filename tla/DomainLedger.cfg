SPECIFICATION Spec
CONSTANTS
    k1 = k1
    k2 = k2
    t1 = t1
    t2 = t2
    p1 = p1
    p2 = p2
    Nobody = Nobody
    Kinds = {k1, k2}
    Requests <- TwoAndOne
    Writers = {p1, p2}
    MaxWrites = 3
    MaxFailures = 2
    MaxCrashes = 1
    MaxForeign = 3
SYMMETRY Symmetry
CHECK_DEADLOCK FALSE
INVARIANTS TypeOK OneRowPerRequest RowsHaveReceipts OutcomeIsHonest QuietIsClean
PROPERTIES CommittedRowsKept
