SPECIFICATION Spec
CONSTANTS
  TOTAL_CLUSTERS = 5
  ENTRIES = 4
  CLUSTER_SIZE = 2
  READ_COUNT = 3
  IO_ERRORS = FALSE
  SCAN_ERRORS = FALSE
  POWER_LOSS = FALSE
  WRITES <- ShortWrites
  DELETES <- LocalFile
  MKDIRS <- SubDirectory
  CHDIRS <- SubDirectory
  CATS <- Nothing
  IMAGE_FILE <- ShortImage
  MAX_CALLS = 5
CHECK_DEADLOCK FALSE
INVARIANT RmIsLocal
