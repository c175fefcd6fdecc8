SPECIFICATION Spec
CONSTANTS
    gongbu1 = gongbu1
    gongbu2 = gongbu2
    xingbu = xingbu
    w1 = w1
    w2 = w2
    src = src
    tests = tests
    Office = {gongbu1, gongbu2}
    Wave = {w1, w2}
    Path = {src, tests}
    WaveOf <- MCWaveOf
    WriteSet <- MCWriteSet
    Capacity = 3
    Result = {"completed"}
    MaxCheckpoint = 1
    MaxLate = 0
CHECK_DEADLOCK FALSE
INVARIANT WritersAreDisjoint
