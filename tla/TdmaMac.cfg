SPECIFICATION Spec
CONSTANTS
    Settings <- MCSettings
INVARIANTS
    WakeupsWhileStarted
    SlotsAreExclusive
CHECK_DEADLOCK FALSE
