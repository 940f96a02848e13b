SPECIFICATION LiveSpec
CHECK_DEADLOCK FALSE
CONSTANTS
    Plans <- AllPlans
    Installations <- Both
    ClientMayDie = FALSE
    MaxRuns = 2
    MaxFaults = 4
INVARIANTS
    EndsWhole
    FenceIsTheRuns
PROPERTIES
    WritesSurvive
    JournalResolved
