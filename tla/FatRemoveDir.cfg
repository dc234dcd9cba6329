SPECIFICATION Spec
CONSTANTS
  TOTAL_CLUSTERS = 4
  ENTRIES = 3
  CLUSTER_SIZE = 2
  READ_COUNT = 3
  IO_ERRORS = FALSE
  SCAN_ERRORS = FALSE
  POWER_LOSS = FALSE
  WRITES <- ShortWrites
  DELETES <- SubDirectory
  MKDIRS <- SubDirectory
  CHDIRS <- SubDirectory
  CATS <- Nothing
  IMAGE_FILE <- ShortImage
  MAX_CALLS = 4
CHECK_DEADLOCK FALSE
INVARIANT CwdIsDirectory
