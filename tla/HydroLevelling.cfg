SPECIFICATION Spec
CONSTANTS
    NbAreas = 2
    NbHours = 4
    DayLength = 2
    Weeks <- AllWeeks
    RemixEcart = 4
    MarginEcart = 4
    MaxLoops = 10
    DblMax = 1000
INVARIANTS
    EnergyIsKept
    HoursAreLevelled
    LevelIsFound
CHECK_DEADLOCK FALSE
