SPECIFICATION FairSpec
CONSTANTS
  RESERVED_PAGES = 2
  TOTAL_PAGES = 18
  MAX_TASKS = 3
  DRIVER_PAGES = {1}
  SLEEP_TICKS = 1
  USER_CALLS <- YieldingPrograms
  MAX_CREATES = 4
PROPERTIES ShellRegainsCpu NoStarvation
CHECK_DEADLOCK FALSE
