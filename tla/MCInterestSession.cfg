SPECIFICATION Spec
CONSTANTS
  Pilot = "pilot"
  Grids <- MCGrids
  UpdateInterval = 2
  ExitTicks = 2
  MaxGrids = 1
  MaxRecoveries = 2
  Bounds <- MCBounds
CHECK_DEADLOCK FALSE
INVARIANTS
    SessionHolds
    QueuedControlsFail
    NothingMissed
PROPERTIES
    DeparturesTrue
