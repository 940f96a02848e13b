SPECIFICATION FairSpec
CONSTANTS
    w1 = w1
    c1 = c1
    c2 = c2
    good = good
    bad = bad
    None = None
    Runner = Runner
    Invocations <- OneInvocation
    Calls <- TwoCalls
    Evidence <- BothEvidence
    MatchingEvidence <- GoodEvidence
    MaxFaults = 3
INVARIANTS
    ReleasedJobNeverRuns
    CommandIsWriteAheadAndAccepted
PROPERTIES
    ImplementsOperation
    SubmitUnderCurrentAuthority
    ArmedIsResolved
    ProvenRunCompletes
