SPECIFICATION Spec
CONSTANTS
  RESERVED_PAGES = 2
  TOTAL_PAGES = 22
  PROGRAMS = {"low"}
  FILE <- LowFiles
  PAGE_SIZE = 2
  CLUSTER_SIZE = 3
  CHUNK = 2
  HEADER = 1
  PHDR = 1
  ADDRESS_LIMIT = 64
  ELF_MAX_PHDRS = 3
  STACK_PAGES = 2
  DATA_FAULTS = FALSE
  FAT_FAULTS = FALSE
  MAX_EXECS = 3
CHECK_DEADLOCK FALSE
INVARIANT
  NothingTaken
