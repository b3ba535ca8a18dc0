SPECIFICATION FairSpec
CONSTANTS
  Sessions = {s1, s2}
  Players = {p1, p2}
  MaxWork = 2
  MaxFaults = 1
CHECK_DEADLOCK FALSE
INVARIANTS
    ClaimsMatchSessions
    SessionsAreTold
PROPERTIES
    AdmissionEnds
    UnusedCellSleeps
