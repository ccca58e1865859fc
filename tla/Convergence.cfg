SPECIFICATION FairSpec
CONSTANTS
    h1 = h1
    h2 = h2
    Hosts <- TwoHosts
    KeyOf <- OneKey
    Home <- Separate
    Jitter = 0
    MaxUpdates = 2
    MaxOther = 0
    MaxFail = 0
    MaxRemove = 0
    MaxDrop = 0
    MaxBad = 0
    MaxFaults = 1
CHECK_DEADLOCK FALSE
INVARIANTS
    QueueDrained
    Agreement
PROPERTIES
    Converges
