SPECIFICATION FairSpec
CONSTANTS
  Senders = {1, 2}
  Tags = {1, 2, 3}
  Fixed = {1}
  CONFIG_SIGHTING_SLOTS = 1
  MAX_PROXIMITY_SLOTS = 2
  PROXAGGREGATION_TIME = 2
  START = 2
  MAX_TIME = 4
  MAX_PACKETS = 3
INVARIANTS TypeOK ProximityInv ForcesOfThisReport LiveEdgesReported
PROPERTIES StepFinishes
CHECK_DEADLOCK FALSE
