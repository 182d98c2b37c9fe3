SPECIFICATION Spec
CONSTANTS
  MaxTurns = 3
  HistoryMax = 3
  LateWorkers = FALSE
  Forgets = TRUE
  None = None
INVARIANTS TypeOK  SystemPromptKnown
CHECK_DEADLOCK FALSE
