\* Handlers may outlive their leases; the two slots of a process share its worker id.
CONSTANTS
    Job = {bulk}
    Worker = {w1, w2}
    Slot = {s1, s2}
    None = None
    HighPriority = {}
    MaxAttempts = 2
    MaxClaims = 4
    SlowHandlers = TRUE
SPECIFICATION Spec
SYMMETRY SlotSymmetry
INVARIANTS ClaimsUnique TerminalizerHoldsRow NoOverlap
PROPERTIES TerminalIsFinal RetryBudget ImplementsLifecycle
