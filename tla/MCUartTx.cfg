SPECIFICATION FairSpec
CONSTANTS
  UART_BUFFER = 3
  Bytes = {x, y}
  NoByte = none
  Builds = {TRUE, FALSE}
INVARIANTS TypeOK UartInv PoweredWhileBusy
PROPERTIES SendsInOrder CallReturns
