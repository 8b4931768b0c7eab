SPECIFICATION Spec
CONSTANTS
    NbYears = 5
    Spans = {2, 3}
    CoreCounts = {2, 3}
    Kinds <- MCKinds
    Thermal <- MCThermal
    Renewables <- MCRenewables
    Configs <- LocalConfigs
INVARIANTS
    SlotsFit
CHECK_DEADLOCK FALSE
