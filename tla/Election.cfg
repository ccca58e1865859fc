\* Two servers that may draw the same id, and one fault of any kind.
CONSTANTS
  Servers <- TwoServers
  Ids <- ThreeIds
  Slots = {1, 2}
  MaxRegens = 1
  MaxFaults = 1
SPECIFICATION Spec
INVARIANTS
  TypeOK
  OneSession
  IncomingTracked
PROPERTIES
  SessionKept
  ElectionCompletes
CHECK_DEADLOCK FALSE
