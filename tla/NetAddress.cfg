SPECIFICATION Spec
CONSTANTS
  LAYOUTS <- OneCard
  TEXTS <- OneText
  COUNTS = {0, 1, 3}
  RX_PAGES = 2
  NUM_TX_DESC = 2
  RESERVED_PAGES = 3
  TOTAL_PAGES = 11
  OTHER_PAGES = 1
  MAX_COMMANDS = 1
INVARIANT ReachesTarget
CHECK_DEADLOCK FALSE
