SPECIFICATION Spec
CONSTANTS
    c1 = c1
    v1 = v1
    o1 = o1
    b1 = b1
    b2 = b2
    Completion = {c1}
    Review = {v1}
    Paired = {o1}
    Plain = {b1, b2}
    Garbled = Garbled
    NoTxn = NoTxn
    MaxCrashes = 2
SYMMETRY Symmetry
INVARIANTS TypeOK SettledLedgersAgree JournalTellsTheTruth
PROPERTY PairedRollbackTakesOnlyItsOwn
CHECK_DEADLOCK FALSE
