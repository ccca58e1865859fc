SPECIFICATION Spec
CONSTANTS
    h1 = h1
    h2 = h2
    Hosts <- OneHost
    KeyOf <- TwoKeys
    Home <- Roaming
    Jitter = 0
    MaxUpdates = 3
    MaxOther = 1
    MaxFail = 1
    MaxRemove = 1
    MaxDrop = 1
    MaxBad = 1
    MaxFaults = 1
CHECK_DEADLOCK FALSE
INVARIANTS
    TypeOK
    Attached
    NoUnexpectedMessage
    AckMatchesQueue
    OneOutstandingRequest
    OnlyHeadSent
