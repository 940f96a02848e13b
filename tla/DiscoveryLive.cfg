SPECIFICATION FairSpec
CHECK_DEADLOCK FALSE
CONSTANTS
    w1 = w1
    w2 = w2
    v1 = v1
    n1 = n1
    n2 = n2
    None = None
    Workers = {w1, w2}
    Vmids = {v1}
    Nodes = {n1}
    Standalone = FALSE
    InitialGuests <- OnlyNoGuest
    MayLinger = TRUE
    MaxRuns = 2
    MaxTime = 0
    MaxEdits = 1
    MaxMoves = 0
    MaxAclChanges = 1
    MaxSetBacks = 0
    MaxCrashes = 1
    MaxDbErrors = 0
PROPERTIES
    OwnerLetsGo
