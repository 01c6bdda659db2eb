CONSTANTS
  LOG_BUFFER_COUNT = 3
  WORDS = 2
  Zero = 0
  Data <- MCData
  Sightings <- MCSightings
SPECIFICATION FairSpec
INVARIANTS
  TypeOK
  RingInv
PROPERTIES
  ImplementsFifo
  UnreadKept
  EverySightingRead
