SPECIFICATION FairSpec
CONSTANTS
    MaxTimers = 2
    MaxTime = 3
    Intervals = {0, 1, 2}
INVARIANTS
    ContextOwnedOnce
    NoOversleep
PROPERTIES
    CancelledNeverFires
    TimersEnd
    ContractKept
