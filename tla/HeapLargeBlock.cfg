SPECIFICATION HeapSpec
CONSTANTS
  RESERVED_PAGES = 2
  TOTAL_PAGES = 5
  HEAP_PAGE_SIZE = 24
  SIZE_LIMIT = 64
  SIZES <- MoreThanAPage
  MAX_BLOCKS = 2
INVARIANT AnySizeIsBacked
CHECK_DEADLOCK FALSE
