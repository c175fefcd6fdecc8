SPECIFICATION Spec
CONSTANTS
    c1 = c1
    v1 = v1
    o1 = o1
    b1 = b1
    b2 = b2
    Completion = {c1}
    Review = {}
    Paired = {}
    Plain = {b1}
    Garbled = Garbled
    NoTxn = NoTxn
    MaxCrashes = 2
INVARIANT CommittedStays
CHECK_DEADLOCK FALSE
