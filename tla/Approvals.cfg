CONSTANTS
    Callers = {}
    None = None
    own1 = own1
    own2 = own2
    DefaultDenied = {"merge", "webhook", "erase"}
    GrantedToDirect = {"merge", "webhook", "erase"}
    Requests <- MCRequests
    SubjectTools = {"consent_set"}
    Args <- MCArgs
    ToolOf <- MCToolOf
    Needs <- MCNeeds
    OwnerApproved = {"webhook", "erase"}
    OwnerRun = {"webhook", "erase"}
    OwnerAsks = {"erase"}
    Lifting = {"webhook", "erase"}
    ReplayBounded = {"merge", "webhook", "erase"}
    RuleSets <- MCRuleSets
    MaxDeliveries = 4
    MaxOpenCalls = 2
    MaxClock = 1
    MaxTeamPending = 2
    MaxRequesterPending = 1
    Life = 1
    ReplayTtl = 1
    ApprovalTtl = 1
SPECIFICATION Spec
SYMMETRY Owners
INVARIANTS ApprovalIsSecondPerson PendingBounded RepeatsRunOnce
CHECK_DEADLOCK FALSE
