SPECIFICATION Spec
CONSTANTS
    NbAreas = 2
    NbYears = 2
    Few = 2
    Several = 3
    Studies <- MCStudies
INVARIANTS
    NumbersInRangeUntroubled
    DrawnTogether
    ScenarioIsFollowed
    StoredWasRead
\* A simulation ends.
CHECK_DEADLOCK FALSE
