SPECIFICATION FairSpec
CONSTANTS
    r1 = r1
    r2 = r2
    c1 = c1
    c2 = c2
    q1 = q1
    q2 = q2
    h1 = h1
    h2 = h2
    p0 = p0
    p1 = p1
    p2 = p2
    None = None
    Resources <- OneResource
    Plans <- TwoPlans
    EmptyPlan = p0
    Callers <- OneCaller
    RequestIds <- OneRequest
    Holders <- OneHolder
    MaxJobs = 1
    MaxApprovals = 1
    MaxPeriodicScans = 2
    MaxMoves = 1
    MaxFaults = 1
INVARIANTS
    FenceExcludesJobs
PROPERTIES
    OwedScanIsSettled
