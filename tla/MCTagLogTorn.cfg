SPECIFICATION Spec
CONSTANTS
  PAGES = 3
  BUFFER = 2
  ENTRY = 2
  INPUT = 3
  LEFTOVER = 1
  MAX_DRAIN = 5
  BLANK_HEAD = TRUE
  MAX_BOOTS = 2
INVARIANTS FreePageTrulyEmpty
CHECK_DEADLOCK FALSE
