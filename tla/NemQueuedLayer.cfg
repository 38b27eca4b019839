SPECIFICATION FairSpec
CONSTANTS
    MaxTasks = 3
    Fds = {7}
INVARIANTS
    StoppedIsQuiet
    WakeupComing
    DirectNeverOvertakes
PROPERTIES
    CallsAndStopEnd
    SerialExecution
