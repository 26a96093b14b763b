CONSTANTS
    o1 = o1
    o2 = o2
    t1 = t1
    t2 = t2
    c1 = c1
    c2 = c2
    c3 = c3
    Org = {o1, o2}
    Team = {t1, t2}
    Mobile = {t1}
    None = None
    Call = {c1, c2, c3}
    Feedless = {}
    Unlisted = {}
    MaxMoves = 1
    MaxEntries = 5
    LostRuns = FALSE
SPECIFICATION FairSpec
PROPERTIES ReparentingEnds
CHECK_DEADLOCK FALSE
