SPECIFICATION FairSpec
CONSTANTS
    N = 2
INVARIANTS
    ServicesEndFirst
    DestroyedIsQuiet
    StartedIsStopped
PROPERTIES
    ShutdownCompletes
