SPECIFICATION FairSpec
CONSTANTS
  RADIO_MAX_PKT_BUFFERS = 2
  Packets = {p, q}
  Blank = blank
  Torn = torn
  Any = any
  Firmwares = {"prox", "ble"}
  COUNT_LIMIT = 4
INVARIANTS TypeOK RingInv
PROPERTIES HandsOutInOrder EveryPacketHandedOut
