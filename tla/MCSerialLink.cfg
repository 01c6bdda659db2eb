SPECIFICATION MCSpec
CONSTANTS
  Data = {1, 2}
  PAGE = 2
  TagId <- MCTagId
  Text <- MCText
  BUFFER_SIZE = 4
  MAX_PAGES = 3
  MAX_LOST = 2
  Packets <- MCPackets
  OPENBEACON_SIZE = 1
  Crc32 <- MCCrc32
  MAX_PKT_SIZE = 3
  DUPLICATES_BACKLOG_SIZE = 2
  MAX_DROPPED = 1
INVARIANTS TypeOK
PROPERTIES OnlyWholeFrames Resynchronises PacketsArriveOnce
