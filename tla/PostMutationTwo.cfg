SPECIFICATION Spec
SYMMETRY Interchangeable
CHECK_DEADLOCK FALSE
CONSTANTS
    w1 = w1
    w2 = w2
    c1 = c1
    c2 = c2
    None = None
    Runner = Runner
    Calls <- TwoCalls
    Invocations <- TwoInvocations
    MaxFaults = 1
    MaxMoves = 2
INVARIANTS
    RowIsTrue
PROPERTIES
    ImplementsOperation
    NoLateVerdict
    SubmitUnderCurrentContext
