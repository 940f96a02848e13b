SPECIFICATION Spec
CHECK_DEADLOCK FALSE
CONSTANTS
    w1 = w1
    w2 = w2
    v1 = v1
    n1 = n1
    n2 = n2
    None = None
    Workers = {w1}
    Vmids = {v1}
    Nodes = {n1}
    Standalone = TRUE
    InitialGuests <- OnlyNoGuest
    MayLinger = FALSE
    MaxRuns = 2
    MaxTime = 0
    MaxEdits = 0
    MaxMoves = 0
    MaxAclChanges = 0
    MaxSetBacks = 0
    MaxCrashes = 0
    MaxDbErrors = 1
INVARIANTS
    NoStrandedRun
