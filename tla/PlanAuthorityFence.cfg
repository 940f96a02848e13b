SPECIFICATION Spec
SYMMETRY FenceSymmetry
CONSTANTS
    r1 = r1
    r2 = r2
    c1 = c1
    c2 = c2
    q1 = q1
    q2 = q2
    h1 = h1
    h2 = h2
    p0 = p0
    p1 = p1
    p2 = p2
    None = None
    Resources <- TwoResources
    Plans <- TwoPlans
    EmptyPlan = p0
    Callers <- TwoCallers
    RequestIds <- TwoRequests
    Holders <- TwoHolders
    MaxJobs = 2
    MaxApprovals = 2
    MaxPeriodicScans = 1
    MaxMoves = 0
    MaxFaults = 1
INVARIANTS
    FenceExcludesJobs
