SPECIFICATION Spec
CONSTANTS
  DEVICES <- Drives
  MAX_FAULTS = 1
  IMAGES <- Disks
  FAT_ENTRIES = 3
  VALUES = {7}
  CONTENTS <- Writes
  MAX_ACCESSES = 3
INVARIANTS
  StorageInv
  Durable
PROPERTIES
  ServesBlocks
  WritesInOrder
  EveryAccessReturns
CHECK_DEADLOCK FALSE
