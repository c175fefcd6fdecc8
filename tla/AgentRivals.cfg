SPECIFICATION Spec
CONSTANTS
    gongbu1 = gongbu1
    gongbu2 = gongbu2
    xingbu = xingbu
    w1 = w1
    w2 = w2
    src = src
    tests = tests
    Office = {gongbu1, gongbu2, xingbu}
    Wave = {w1, w2}
    Path = {src, tests}
    WaveOf <- MCWaveOf
    WriteSet <- MCWriteSet
    Capacity = 3
    Result = {"completed"}
    MaxCheckpoint = 2
    MaxLate = 1
CHECK_DEADLOCK FALSE
CONSTRAINT OneCompanion
INVARIANTS TypeOK OverlapHasACause QuarantineHolds
PROPERTY OnlyInvalidatedReturn
