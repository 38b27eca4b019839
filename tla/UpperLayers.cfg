SPECIFICATION Spec
CONSTANTS
    Total = 3
    QueueCapacity = 2
    TokenModulus = 8
    MaxFrames = 3
    Totals = {1, 2}
    MaxRestarts = 2
    MaxSends = 3
    Protocols = {"udp", "tcp"}
    HeaderLength = 2
    Lengths <- PeerLengths
    EffectSettings <- MCEffectSettings
    Effects <- MCEffects
    Frames <- MCFrames
    Sources = {1, 2}
    MaxPackets = 2
    MaxEvents = 1
    Nems = {1, 2}
    MaxTime = 2
    MaxRecords = 3
    MaxCells = 2
    MaxDepartures = 1
INVARIANTS TokensAgree HandedWhole  ScenarioFollowed
PROPERTIES CloseReturns
CHECK_DEADLOCK FALSE
