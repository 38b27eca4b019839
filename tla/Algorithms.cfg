SPECIFICATION Spec
CONSTANTS
    MaxUpdates = 3
    BinSize = 2
    MaxOffset = 2
    MaxPropagation = 2
    MaxDuration = 4
    TimeSync = 2
    Sensitivity = 1
    Clamp = FALSE
    MaxTransmissions = 3
    MaxTunings = 1
    MaxPhySteps = 5
    NotFinite = 99
    RowLimit = 1
    MaxStatisticSteps = 5
    MaxHeader = 6
    SequenceLimit = 2
    MaxSent = 2
INVARIANTS ConfigurationFollows SpectrumTrue PhyFollowsEvents StatisticsTrue RemoteHearsAlike
CHECK_DEADLOCK FALSE
