SPECIFICATION Spec
CONSTANTS
    NbYears = 2
    NbWeeks = 3
    NbIntervals = 2
    Hours = {1, 2}
    Configs <- AllConfigs
INVARIANTS
    NoFreedProblem
    ProblemsAreRenewed
    
    ReportsItsOwnWeek
    WeeksAccountedFor
    StructureOnce
    FailedWeeksListed
CHECK_DEADLOCK FALSE
