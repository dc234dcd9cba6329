SPECIFICATION FairSpec
CONSTANTS
  KBD_QUEUE_SIZE = 3
  KEYS <- LeftModifiers
  MAX_STROKES = 5
  MAX_SERIAL = 1
INVARIANTS
  KeyboardInv
  DecodesKeys
PROPERTIES
  ImplementsFifo
  InputDrains
CHECK_DEADLOCK FALSE
