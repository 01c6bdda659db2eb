SPECIFICATION FairSpec
CONSTANTS
  PAGES = 3
  BUFFER = 2
  ENTRY = 2
  INPUT = 3
  LEFTOVER = 1
  MAX_DRAIN = 5
  BLANK_HEAD = FALSE
  MAX_BOOTS = 3
INVARIANTS TypeOK EncoderNotMisused NothingBehindFreePage
PROPERTIES PagesKept DumpedAsRecorded SightingConsumed
CHECK_DEADLOCK FALSE
