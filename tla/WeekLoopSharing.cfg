SPECIFICATION Spec
CONSTANTS
    NbYears = 2
    NbWeeks = 3
    NbIntervals = 2
    Hours = {1, 2}
    Configs <- AllConfigs
INVARIANT SharingIsOfTheWeek
CHECK_DEADLOCK FALSE
