\* No fault at all: a connection that arrives before the address of its maker.
CONSTANTS
  Servers <- TwoServers
  Ids <- TwoIds
  Slots = {1, 2}
  MaxRegens = 1
  MaxFaults = 0
SPECIFICATION Spec
PROPERTY ReconnectsAfterDisconnect
CHECK_DEADLOCK FALSE
