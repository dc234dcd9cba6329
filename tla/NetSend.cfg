SPECIFICATION Spec
CONSTANTS
  LAYOUTS <- MCLayouts
  TEXTS <- MCTexts
  COUNTS = {0, 1, 3}
  RX_PAGES = 2
  NUM_TX_DESC = 2
  RESERVED_PAGES = 3
  TOTAL_PAGES = 11
  OTHER_PAGES = 2
  MAX_COMMANDS = 2
INVARIANTS
  NetInv
  ParsesAddress
  FramesVerify
PROPERTIES
  SendsInOrder
  CommandsEnd
CHECK_DEADLOCK FALSE
