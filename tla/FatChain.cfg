SPECIFICATION Spec
CONSTANTS
  TOTAL_CLUSTERS = 4
  ENTRIES = 3
  CLUSTER_SIZE = 2
  READ_COUNT = 3
  IO_ERRORS = FALSE
  SCAN_ERRORS = FALSE
  POWER_LOSS = FALSE
  WRITES <- LongWrites
  DELETES <- Nothing
  MKDIRS <- Nothing
  CHDIRS <- Nothing
  CATS <- Nothing
  IMAGE_FILE <- ShortImage
  MAX_CALLS = 2
CHECK_DEADLOCK FALSE
INVARIANT AllocatesCount
