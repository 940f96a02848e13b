SPECIFICATION Spec
CHECK_DEADLOCK FALSE
CONSTANTS
    Plans <- SomePlans
    Installations <- OnlyUpdated
    ClientMayDie = FALSE
    MaxRuns = 2
    MaxFaults = 2
INVARIANTS
    NeverMixed
