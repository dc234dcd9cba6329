SPECIFICATION Spec
CONSTANTS
  TOTAL_CLUSTERS = 5
  ENTRIES = 3
  CLUSTER_SIZE = 2
  READ_COUNT = 3
  IO_ERRORS = TRUE
  SCAN_ERRORS = FALSE
  POWER_LOSS = TRUE
  WRITES <- FaultyWrites
  DELETES <- FaultyDeletes
  MKDIRS <- SubDirectory
  CHDIRS <- Nothing
  CATS <- FaultyCats
  IMAGE_FILE <- LongImage
  MAX_CALLS = 4
CHECK_DEADLOCK FALSE
INVARIANTS
  FilesIntact
