SPECIFICATION Spec
CONSTANTS
  Sessions = {s1, s2}
  Players = {p1, p2}
  MaxWork = 2
  MaxFaults = 0
INVARIANTS
  WakeIsNoFailure
CHECK_DEADLOCK FALSE
