SPECIFICATION Spec
CONSTANTS
    Rules <- MCRules
    Scenarios <- MCScenarios
    Roster <- MCRoster
CHECK_DEADLOCK FALSE
INVARIANTS
    PreparedApplies
    WorldStaysValid
    EffectsOnce
PROPERTIES
    ScheduleTrue
