CONSTANTS
    Record = {1, 2}
    Value = {"a", "b"}
    Rule = {"fuzzy", "exact", "normalized"}
    FirstRule = {"fuzzy"}
    Hash = {"a", "b", "same"}
    None = None
    w1 = w1
    w2 = w2
    p1 = p1
    KeyOf <- MCKeyOf
    Blocking = {"exact", "normalized"}
    Proc = {p1}
    Worker = {w1, w2}
    BatchSize = 1
    MaxGen = 3
    MaxAttempt = 1
    MaxJobs = 2
SYMMETRY Symmetry
SPECIFICATION Spec
INVARIANTS KeysSound KeysComplete
CHECK_DEADLOCK FALSE
