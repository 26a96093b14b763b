CONSTANTS
    Job = {bulk, deliver}
    Worker = {w1, w2}
    Slot = {s1, s2}
    None = None
    HighPriority = {deliver}
    MaxAttempts = 2
    MaxClaims = 4
    SlowHandlers = FALSE
SPECIFICATION FairSpec
PROPERTIES EveryJobSettles
