SPECIFICATION Spec
CONSTANTS
    h1 = h1
    h2 = h2
    Hosts <- OneHost
    KeyOf <- OneKey
    Home <- Roaming
    Jitter = 0
    MaxUpdates = 2
    MaxOther = 0
    MaxFail = 0
    MaxRemove = 0
    MaxDrop = 0
    MaxBad = 0
    MaxFaults = 1
CHECK_DEADLOCK FALSE
INVARIANTS
    StashEmpty
