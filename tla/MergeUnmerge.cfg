CONSTANTS
    Record = {1, 2, 3, 4}
    v1 = v1
    Value = {v1}
    Rel = {"owner", "tags", "parts"}
    ToOne = {"owner"}
    FromOne = {"parts"}
    Cascading = {"owner"}
    Restricting = {}
    Projected = {"owner", "tags"}
    MaxFrom <- MCMaxFrom
    MaxTo <- MCMaxTo
    None = None
    MaxTargets = 1
    MaxLink = 4
    MaxClock = 4
    MaxEffort = 5
    MaxLosers = 1
    InitialWorlds <- MCInitialWorlds
SPECIFICATION Spec
INVARIANTS CardinalityHolds RedirectsFlat
PROPERTIES UndoIsWhole
CHECK_DEADLOCK FALSE
