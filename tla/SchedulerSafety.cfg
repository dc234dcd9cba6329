SPECIFICATION Spec
CONSTANTS
  RESERVED_PAGES = 2
  TOTAL_PAGES = 26
  MAX_TASKS = 4
  DRIVER_PAGES = {1, 6, 11, 16, 18, 22}
  SLEEP_TICKS = 1
  USER_CALLS <- AllPrograms
  MAX_CREATES = 6
INVARIANTS
  RunnableIsComplete
  StacksAreOwned
  InterruptsRestored
  EoiIsOwed
  IInv
PROPERTIES
  ImplementsRing
CHECK_DEADLOCK FALSE
