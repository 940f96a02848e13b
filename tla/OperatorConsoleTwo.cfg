SPECIFICATION FairSpec
CHECK_DEADLOCK FALSE
CONSTANTS
    r1 = r1
    r2 = r2
    c1 = c1
    c2 = c2
    c3 = c3
    None = None
    Resources = {r1}
    Managed = {r1}
    Calls = {c1}
    Predates = TRUE
    MaxRev = 2
    MaxMishaps = 2
INVARIANTS
    ConsoleIsCoherent
PROPERTIES
    ApprovedWasShown
    StaleReviewsGo
    Converges
