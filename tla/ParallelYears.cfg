SPECIFICATION Spec
CONSTANTS
    NbYears = 5
    Spans = {0, 2, 3}
    CoreCounts = {2, 3}
    Kinds <- MCKinds
    Thermal <- MCThermal
    Renewables <- MCRenewables
    Configs <- AllConfigs
INVARIANTS
    OneSpacePerYear
    RefreshOpensSet
    StudyCountsWhatRuns
    FirstYearOfSimulation
    HotStartFed
CHECK_DEADLOCK FALSE
