SPECIFICATION Spec
CONSTANTS
    LogSize = 10
    DaysPerYear = 3
    NbSeries = 2
    Clusters <- AllClusters
    MaxDraw = 7
INVARIANTS
    NoUnitIsLost
    PlannedAreOut
    NpoIsRespected
PROPERTIES
    StockBalances
    ImplementsCalendar
CHECK_DEADLOCK FALSE
