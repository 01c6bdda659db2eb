CONSTANTS
  Uids = {u1}
  Self = self
  Free = free
  StatusBytes = status
  Foreign = foreign
  Noise = noise
  SIGHTING_SLOTS = 1
  LISTEN_RATIO = 2
  REQUEST_RANGE = 3
  BUTTON_SECONDS = 1
  PROX_SPACING = 6
  SPACING_RANGE = 1
  LISTEN_TIME = 1
  BLINK_TIME = 1
  HFCLK_TIME = 1
  AIR_TIME = 1
  PROXIMITY_BLINK = TRUE
  LATE_RADIO_IRQ = FALSE
SPECIFICATION FairSpec
PROPERTIES
  RestsAgain
  ListensForEver
  ReportsForEver
