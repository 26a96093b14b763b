CONSTANTS
    None = None
    Workers = {w1, w2}
    Ids <- MCIds
    Parents = {"p"}
    Values = {"v"}
    MaxTries = 2
    MaxWrites = 3
    Members <- MCMembers
    Kinds = {x, y}
    Definitions <- MCDefinitions
    Editors = {e1}
    Writers = {s1}
    MaxRefreshes = 2
    MaxChanges = 3
    Listed = {"f", "g", "h"}
    EntryIds = {1, 2, 3}
    Limit = 1
    MaxAdds = 3
    Texts = {"t", "u"}
    Names = {"q"}
    MaxTurns = 2
    MaxEdits = 3
    Candidates = {"i", "j", "k", "l"}
    Rules = {"l1", "l2"}
    Processes = {p1, p2}
    RowCount = 2
    BatchSize = 1
    MaxRuns = 2
    MaxLeases = 3
    Readers = {d1, d2}
SPECIFICATION MCSpec
SYMMETRY Symmetry
INVARIANTS DerivedSettles QuietListExact EmbeddingMatchesContent GroupsAreComponents RowsCountedOnce ExportAlone
CHECK_DEADLOCK FALSE
