SPECIFICATION Spec
CONSTANTS
  TOTAL_CLUSTERS = 6
  ENTRIES = 3
  CLUSTER_SIZE = 2
  READ_COUNT = 3
  IO_ERRORS = FALSE
  SCAN_ERRORS = FALSE
  POWER_LOSS = FALSE
  WRITES <- ShellWrites
  DELETES <- ShellDeletes
  MKDIRS <- ShellMkdirs
  CHDIRS <- ShellChdirs
  CATS <- ShellCats
  IMAGE_FILE <- LongImage
  MAX_CALLS = 5
INVARIANTS
  VolumeInv
  FilesIntact
  ReadBack
  DirectoryInv
CHECK_DEADLOCK FALSE
