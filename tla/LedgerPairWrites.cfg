SPECIFICATION FairSpec
CONSTANTS
    p1 = p1
    p2 = p2
    r1 = r1
    m1 = m1
    m2 = m2
    Proc = {p1, p2}
    Reader = {r1}
    Mutation = {m1, m2}
    NoProc = NoProc
    edit = edit
    ForeignDoc <- MCForeignDoc
    MaxCommits = 2
    MaxEdits = 1
INVARIANTS TypeOK LedgersAgree OutcomeIsHonest ReadersAreOneAhead
PROPERTIES ForeignEditKept RefinesAtomicLedger EveryCommandEnds
