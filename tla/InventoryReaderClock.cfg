SPECIFICATION ReaderSpec
CHECK_DEADLOCK FALSE
CONSTANTS
    w1 = w1
    v1 = v1
    n1 = n1
    n2 = n2
    None = None
    Workers = {w1}
    Vmids = {v1}
    Nodes = {n1}
    Standalone = TRUE
    InitialGuests <- OnlyNoGuest
    MayLinger = FALSE
    MaxRuns = 2
    MaxTime = 1
    MaxEdits = 1
    MaxMoves = 0
    MaxAclChanges = 0
    MaxSetBacks = 1
    MaxCrashes = 1
    MaxDbErrors = 0
INVARIANTS
    ReaderAccepts
