CONSTANTS
    None = None
    Record = {1, 2}
    Value = {"x", "y"}
    Intent <- MCIntent
    c1 = c1
    c2 = c2
    Callers = {c1, c2}
    k1 = k1
    Key = {k1}
    BatchSize = 2
    MaxVersion = 4
    Email = {"a@x", "b@x", "c@x"}
    Phone = {"555"}
    Person <- MCPerson
    Submissions <- MCSubmissions
    Acts <- MCActs
    Starts <- MCStarts
    PerQueue = 1
    PerTeam = 2
    MaxRows = 3
    MaxSubmits = 3
    MaxActs = 2
    MaxEdits = 3
    MaxCalls = 3
    MaxInFlight = 2
SYMMETRY Symmetry
SPECIFICATION MCSpec
INVARIANTS KeysFollowData AppliedOnce OpenRowsBounded ErasedLeavesNothing RefusalHolds
PROPERTIES VersionNamesState NewestActWins
CHECK_DEADLOCK FALSE
