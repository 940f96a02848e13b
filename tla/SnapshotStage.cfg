SPECIFICATION FairSpec
CONSTANTS
    w1 = w1
    w2 = w2
    c1 = c1
    c2 = c2
    None = None
    Runner = Runner
    Calls <- TwoCalls
    Invocations <- OneInvocation
    MaxFaults = 1
INVARIANTS
    RowIsTrue
PROPERTIES
    ImplementsOperation
    StaleContextIsReleased
    StandingSnapshotIsResolved
