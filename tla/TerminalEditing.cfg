SPECIFICATION Spec
CONSTANTS
  WIDTH = 2
  HEIGHT = 3
  SCROLLBACK_LINES = 3
  LETTERS = {"a", " "}
  PROMPT <- ShortPrompt
  MAX = 3
  MAX_ARGS = 2
  HISTORY_SIZE = 2
  PAGE = 2
  CLEAR <- ClearName
  USER_TEXTS <- UserTexts
  MAX_WRITES = 1
  MAX_LINES = 3
INVARIANTS
  TerminalInv
  LineOnScreen
  SplitsIntoWords
PROPERTIES
  DraftReturns
