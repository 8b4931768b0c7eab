SPECIFICATION Spec
CONSTANTS
    NbYears = 4
    Spans = {0, 2, 3}
    CoreCounts = {2, 3}
    Kinds <- MCKinds
    Thermal <- MCThermal
    Renewables = {}
    Configs <- MCConfigs
    Forced = Forced
    Blank = Blank
    Unused = Unused
INVARIANTS
    YearsDrawTheirOwn
    SeriesOfItsPeriod
    LevelsAreChained
    RunnersAreApart
    SummedOnceInOrder
CHECK_DEADLOCK FALSE
