SPECIFICATION Spec
CONSTANTS
    Processes = {p1, p2}
    Tasks = {"prepare", "activate", "legacy", "boot"}
    CellOrder <- MCCellOrder
    Authorizations <- MCEnvelopes
    MaxVersion = 2
    MaxTime = 1
    MaxStops = 2
    MaxPowerFailures = 1
SYMMETRY ProcessSymmetry
INVARIANTS
    ReportsAreTrue
    ActiveHeadRecoverable
    OneHistory
PROPERTIES
    WorkSurvives
