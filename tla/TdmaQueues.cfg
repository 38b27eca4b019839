SPECIFICATION QueuesSpec
CONSTANTS
    Capacity = 2
    Threshold = 2
    Depth = 2
    Tokens = 3
    FragmentTimeout = 2
    Modes <- MCModes
INVARIANTS
    QueuesSound
    ReassembledAsSent
CHECK_DEADLOCK FALSE
