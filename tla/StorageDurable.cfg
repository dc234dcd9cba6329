SPECIFICATION Spec
CONSTANTS
  DEVICES <- PlainDrive
  MAX_FAULTS = 1
  IMAGES <- OneGoodDisk
  FAT_ENTRIES = 3
  VALUES = {7}
  CONTENTS <- Writes
  MAX_ACCESSES = 3
CHECK_DEADLOCK FALSE
INVARIANT
  DurableAlways
