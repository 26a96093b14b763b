CONSTANTS
    None = None
    Rejected = Rejected
    Callers = {c1, c2}
    Objects = {"o1", "o2", "o3"}
    Slugs = {"s1", "s2", "s3"}
    Relations = {"r1", "r2"}
    Groups = {"g1", "g2"}
    Pipelines = {"p1"}
    Options = {"x", "y"}
    Loaders = {"l"}
    Starts <- MCStarts
    Template <- MCTemplate
    Calls <- MCCalls
    Held <- MCHeld
    Degree <- MCDegree
    MaxCalls = 3
    MaxLoads = 1
    Attempts = 2
    Deals = {"d"}
    Stages = {"s", "t", "u"}
    Keys = {"k"}
    MaxMoves = 3
    MaxTime = 1
    Limits = {2}
    Ids = {1, 2, 3}
    Scalars = {"a", "b"}
    Targets = {"t"}
    Tables <- MCTables
    Rows <- MCRows
    Sorts <- MCSorts
    Clauses <- MCClauses
    Filters <- MCFilters
    MaxAlters = 1
    Writers = {w1, w2}
    Facets = {1}
    Contents = {5}
    Notes = {1, 2}
    KindOf <- MCKindOf
    Anchor = "r"
    Neighbours = {"n"}
    Asked <- MCAsked
    MaxNow = 2
    MaxWrites = 3
SPECIFICATION MCSpec
SYMMETRY CallerSymmetry
INVARIANTS BackingExclusive StagesAreATimeline SteadyShownOnce AsItWas
PROPERTIES CacheIsOneVersion
CHECK_DEADLOCK FALSE
