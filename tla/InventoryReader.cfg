SPECIFICATION ReaderSpec
CHECK_DEADLOCK FALSE
CONSTANTS
    w1 = w1
    v1 = v1
    n1 = n1
    n2 = n2
    None = None
    Workers = {w1}
    Vmids = {v1}
    Nodes = {n1}
    Standalone = TRUE
    InitialGuests <- OnlyContainer
    MayLinger = FALSE
    MaxRuns = 3
    MaxTime = 0
    MaxEdits = 0
    MaxMoves = 2
    MaxAclChanges = 1
    MaxSetBacks = 0
    MaxCrashes = 0
    MaxDbErrors = 0
INVARIANTS
    ReaderAccepts
    InventoryIsItsHistory
    CompleteIsTruthful
PROPERTIES
    NoGapHidden
