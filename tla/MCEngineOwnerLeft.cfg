SPECIFICATION Spec
CONSTANTS
    Rules <- MCRules
    Scenarios <- TripOnly
    Roster <- MCRoster
INVARIANT
    ArmedQuantumCommits
CHECK_DEADLOCK FALSE
