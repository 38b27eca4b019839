SPECIFICATION ModelsSpec
CONSTANTS
    WifiSettings <- MCWifiSettings
    PreDelays = {1}
    PostDelays = {0, 1}
    AirTimes = {1}
    HistorySize = 2
    Validity = 4
    NeighborTimeout = 1
    BentSettings <- MCBentSettings
    Sizes = {1, 3}
    FragmentTimeout = 2
    CheckInterval = 3
    Neighbors = {1}
    Broadcast = 9
    Rates = {1, 4}
    Queues = {0}
    QueueSamples <- MCQueueSamples
    DeleteAge = 1
    StartTime = 3
    MaxSequence = 3
    MaxMetricSteps = 7
INVARIANTS WifiAccounts MetricsTrue RadioDelivers
PROPERTIES BentSends
CHECK_DEADLOCK FALSE
