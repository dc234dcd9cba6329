SPECIFICATION Spec
CONSTANTS
  TOTAL_CLUSTERS = 4
  ENTRIES = 3
  CLUSTER_SIZE = 2
  READ_COUNT = 3
  IO_ERRORS = FALSE
  SCAN_ERRORS = FALSE
  POWER_LOSS = FALSE
  WRITES <- Nothing
  DELETES <- Nothing
  MKDIRS <- SubDirectory
  CHDIRS <- NestedChdirs
  CATS <- Nothing
  IMAGE_FILE <- ShortImage
  MAX_CALLS = 5
CHECK_DEADLOCK FALSE
INVARIANT PwdIsCwd
