SPECIFICATION FairSpec
CONSTANTS
    QueueCapacity = 2
    ReportInterval = 2
    MacSettings <- MCMacSettings
INVARIANTS
    TokensAccounted
    OneAtATime
    TimersComing
PROPERTY
    QueueDrains
CHECK_DEADLOCK FALSE
