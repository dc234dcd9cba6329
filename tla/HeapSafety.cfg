SPECIFICATION HeapSpec
CONSTANTS
  RESERVED_PAGES = 2
  TOTAL_PAGES = 5
  HEAP_PAGE_SIZE = 24
  SIZE_LIMIT = 64
  SIZES <- UpToAPage
  MAX_BLOCKS = 5
INVARIANTS
  BlocksDisjoint
  IInv
CHECK_DEADLOCK FALSE
