SPECIFICATION Spec
CONSTANTS
    c1 = c1
    a1 = a1
    a2 = a2
    NoReceipt = NoReceipt
    Cases = {c1}
    Archivers = {a1, a2}
    MaxRevision = 1
    MaxNotes = 0
    MaxLosses = 1
    MaxRebuilds = 0
INVARIANT CrashLeavesOrphanOnly
CHECK_DEADLOCK FALSE
