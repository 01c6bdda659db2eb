CONSTANTS
  Uids = {u1, u2, u3}
  Self = self
  Free = free
  StatusBytes = status
  Foreign = foreign
  Noise = noise
  SIGHTING_SLOTS = 2
  LISTEN_RATIO = 2
  REQUEST_RANGE = 3
  BUTTON_SECONDS = 1
  PROX_SPACING = 7
  SPACING_RANGE = 2
  LISTEN_TIME = 1
  BLINK_TIME = 1
  HFCLK_TIME = 1
  AIR_TIME = 1
  PROXIMITY_BLINK = TRUE
  LATE_RADIO_IRQ = FALSE
  Firmwares = {"ble-beacon", "physical-web", "mischief", "power"}
  Packets = {p, q}
  NULL = null
  TAG_COUNT = 2
SPECIFICATION MCSpec
SYMMETRY UidSymmetry
INVARIANTS
  TypeOK
  SlotsDoNotOverlap
  RadioConfigured
  RestSavesPower
  SlotsHoldSightings
PROPERTIES
  SightingHeard
  SightingsReported
  RoundsComplete
