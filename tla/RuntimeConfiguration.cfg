SPECIFICATION FairSpec
CONSTANTS
    s1 = s1
    s2 = s2
    rate = rate
    delay = delay
    subid = subid
    None = None
    Sessions = {s1, s2}
    Params = {rate, delay, subid}
    Modifiable = {rate, delay}
    Values = {1, 2}
    Acceptable <- MCAcceptable
    Initial <- MCInitial
    MaxUpdates = 2
INVARIANTS
    RegistryIsTrue
PROPERTIES
    RequestReturns
