SPECIFICATION SerialSpec
CONSTANTS
  Char <- TwoChars
  SERIAL_TX_BUF = 3
  MAX_LINE = 3
  MAX_CHARS = 6
INVARIANTS
  SerialInv
PROPERTIES
  ImplementsFifo
