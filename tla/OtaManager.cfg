SPECIFICATION Spec
CONSTANTS
    Shapes <- MCShapes
    PartSize = 2
    CheckThreshold = 1
    TimeoutThreshold = 2
    MaxSequence = 1
    MaxUuid = 2
    MaxTime = 3
INVARIANTS
    ReassemblySound
    SentIsDelivered
