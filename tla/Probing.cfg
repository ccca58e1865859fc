CONSTANTS
  Hosts <- TwoHosts
  InitialAnnounceCount = 1
  QuarterTTL = 5
  RateLimit = 2
  FailWindow = 3
  CanReceiveUnicastOn5353 = TRUE
  SupportsUnicastMDNSResponse = TRUE
  MaxDelay = 1
  MaxFaults = 1
SPECIFICATION Spec
INVARIANTS
  TypeOK
  UniqueOwner
PROPERTIES
  OnlyOwnerEvicts
  EventuallyUnique
