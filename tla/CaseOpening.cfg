SPECIFICATION FairSpec
CONSTANTS
    s1 = s1
    s2 = s2
    p1 = p1
    p2 = p2
    Nobody = Nobody
    Sessions = {s1, s2}
    Cased = {s1}
    Openers = {p1, p2}
    MaxRows = 2
    MaxChanges = 1
    MaxCrashes = 1
CHECK_DEADLOCK FALSE
INVARIANTS TypeOK SessionNumbersDistinct DecreeToldOnce
PROPERTIES OpensCaseRegister EachCaseGetsItsDecree
