CONSTANTS
    o1 = o1
    o2 = o2
    o3 = o3
    t1 = t1
    t2 = t2
    c1 = c1
    c2 = c2
    Org = {o1, o2, o3}
    Team = {t1, t2}
    Mobile = {t1}
    None = None
    Call = {c1, c2}
    Feedless = {c2}
    Unlisted = {c2}
    MaxMoves = 2
    MaxEntries = 4
    LostRuns = TRUE
SYMMETRY Symmetry
SPECIFICATION Spec
INVARIANTS ProvisionedOnce UntouchedChainVerifies
PROPERTIES FeedFollowsTeam
CHECK_DEADLOCK FALSE
