SPECIFICATION FairSpec
CONSTANTS
    c1 = c1
    a1 = a1
    a2 = a2
    NoReceipt = NoReceipt
    Cases = {c1}
    Archivers = {a1, a2}
    MaxRevision = 2
    MaxNotes = 1
    MaxLosses = 1
    MaxRebuilds = 1
INVARIANTS TypeOK RowsAreArchived CheckpointIsOfThisCharter ArchivedOnce
PROPERTY UnspoiledIsRecorded
CHECK_DEADLOCK FALSE
