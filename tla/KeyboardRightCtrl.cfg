SPECIFICATION Spec
CONSTANTS
  KBD_QUEUE_SIZE = 3
  KEYS <- RightCtrl
  MAX_STROKES = 4
  MAX_SERIAL = 0
INVARIANT RightCtrlWorks
CHECK_DEADLOCK FALSE
