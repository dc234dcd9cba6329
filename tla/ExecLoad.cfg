SPECIFICATION Spec
CONSTANTS
  RESERVED_PAGES = 2
  TOTAL_PAGES = 22
  PROGRAMS = {"hello", "world", "low", "clear", "data", "short", "big", "wrap", "top"}
  FILE <- Files
  PAGE_SIZE = 2
  CLUSTER_SIZE = 3
  CHUNK = 2
  HEADER = 1
  PHDR = 1
  ADDRESS_LIMIT = 64
  ELF_MAX_PHDRS = 3
  STACK_PAGES = 2
  DATA_FAULTS = TRUE
  FAT_FAULTS = FALSE
  MAX_EXECS = 3
INVARIANTS
  ExecInv
  LoadsImage
  RunningIntact
PROPERTIES
  LoadEnds
CHECK_DEADLOCK FALSE
