SPECIFICATION Spec
CHECK_DEADLOCK FALSE
CONSTANTS
    Plans <- SomePlans
    Installations <- OnlyUpdated
    ClientMayDie = TRUE
    MaxRuns = 2
    MaxFaults = 2
INVARIANTS
    NoOrphanFence
